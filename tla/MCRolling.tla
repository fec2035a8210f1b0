----------------------------- MODULE MCRolling ------------------------------
(***************************************************************************)
(* Instances of the rolling driver for TLC: two agents on a 3 x 2 grid.    *)
(*                                                                         *)
(*      y = 0     (0,0) (1,0) (2,0)                                        *)
(*      y = 1     (0,1) (1,1) (2,1)                                        *)
(***************************************************************************)
EXTENDS RollingProps, TLC

CONSTANTS a1, a2, o1

NoObstacle == [paths |-> [o \in {} |-> <<>>], perfect |-> TRUE, radius |-> 0]

Input(s1, g1, s2, g2, model, provider) ==
    [start |-> (a1 :> s1 @@ a2 :> s2), goal |-> (a1 :> g1 @@ a2 :> g2), obs |-> model,
     lifelong |-> provider]

\* One obstacle, whose walk the planner knows.
Foreseen(walk) == [paths |-> (o1 :> walk), perfect |-> TRUE, radius |-> 0]

BlockedCells == {<<0, 1>>}
NoBlocked == {}

\* A lifelong fleet, where it is open who is sent where, and one-shot fleets
\* that can arrive: head-on, and one past the other, which is on its goal.
FleetScenarios == {
    Input(<<0, 0>>, <<2, 0>>, <<2, 1>>, <<1, 1>>, NoObstacle, TRUE),
    Input(<<0, 0>>, <<2, 0>>, <<2, 0>>, <<0, 0>>, NoObstacle, FALSE),
    Input(<<1, 0>>, <<1, 0>>, <<0, 0>>, <<2, 0>>, NoObstacle, FALSE),
    Input(<<1, 1>>, <<2, 0>>, <<0, 0>>, <<1, 0>>, NoObstacle, FALSE)}

LifelongTasks == {<<0, 0>>, <<2, 0>>}

\* An obstacle that patrols a column, one that walks along a row towards an
\* agent, and one that starts beside an agent and walks over it.
ObstacleScenarios == {
    Input(<<0, 0>>, <<2, 0>>, s, g, Foreseen(w), FALSE) :
        s \in {<<0, 1>>, <<2, 1>>}, g \in {<<0, 0>>, <<0, 1>>, <<2, 1>>},
        w \in {<<<<1, 1>>, <<1, 0>>, <<1, 1>>, <<1, 0>>>>,
               <<<<2, 0>>, <<1, 0>>, <<0, 0>>, <<0, 1>>>>,
               <<<<1, 0>>, <<0, 0>>, <<0, 1>>, <<1, 1>>>>}}

AnyTask == {<<0, 0>>}
=============================================================================
