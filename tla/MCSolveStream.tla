--------------------------- MODULE MCSolveStream ----------------------------
(***************************************************************************)
(* The live solver process and the driver in it, on a 4 x 2 grid with a    *)
(* corridor (y = 0), a wall and a bay:                                     *)
(*                                                                         *)
(*      y = 0     (0,0) (1,0) (2,0) (3,0)                                  *)
(*      y = 1       @   (1,1) (2,1) (3,1)                                  *)
(***************************************************************************)
EXTENDS SolveStream, TLC

CONSTANTS a1, a2

Input(s1, g1, s2, g2, model) ==
    [start |-> (a1 :> s1 @@ a2 :> s2), goal |-> (a1 :> g1 @@ a2 :> g2), obs |-> model,
     lifelong |-> FALSE]

BlockedCells == {<<0, 1>>}
AnyTask == {<<0, 0>>}

\* Head-on in the corridor, crossing paths, a start on its goal, and two
\* agents that need two steps at most.
OpenInputs == {
    Input(<<0, 0>>, <<2, 0>>, <<2, 0>>, <<0, 0>>, NoObstacle),
    Input(<<0, 0>>, <<2, 1>>, <<1, 1>>, <<1, 0>>, NoObstacle),
    Input(<<1, 0>>, <<1, 0>>, <<0, 0>>, <<2, 0>>, NoObstacle),
    Input(<<1, 1>>, <<2, 0>>, <<0, 0>>, <<1, 0>>, NoObstacle)}

\* The last column is patrolled: an agent in it goes against the patrol, one crosses
\* into it, one comes out of it; and two columns, the patrols out of step.
PatrolInputs == {
    Input(<<3, 1>>, <<3, 0>>, <<2, 0>>, <<2, 1>>, Scripted(1)),
    Input(<<2, 0>>, <<3, 0>>, <<2, 1>>, <<3, 1>>, Scripted(1)),
    Input(<<1, 0>>, <<3, 1>>, <<3, 1>>, <<1, 1>>, Scripted(1)),
    Input(<<1, 0>>, <<3, 0>>, <<3, 1>>, <<2, 0>>, Scripted(2)),
    Input(<<2, 1>>, <<2, 0>>, <<0, 0>>, <<3, 1>>, Scripted(2))}

\* A walk goes on to the end on its last cell.
Walk(w) == 0 :> [k \in 1 .. WalkLength |-> PathAt(w, k - 1)]

\* An obstacle that comes up to the agents from the left and goes on through them, and
\* one that meets them in the corridor.
RandomInputs == {
    Input(s, <<1, 0>>, <<3, 1>>, g, Random(Walk(w))) :
        s \in {<<2, 0>>, <<3, 0>>}, g \in {<<0, 0>>, <<2, 1>>},
        w \in {<<<<0, 0>>, <<1, 0>>, <<2, 0>>, <<2, 1>>, <<3, 1>>>>,
               <<<<1, 1>>, <<1, 0>>, <<1, 0>>, <<2, 0>>, <<3, 0>>>>}}

Inputs == OpenInputs \cup PatrolInputs \cup RandomInputs

\* No input is left out for being one main cannot build.
ASSUME InputsAreBuilt == \A s \in Scenarios : ~s.lifelong /\ IsBuilt(s.obs)
=============================================================================
