------------------------------ MODULE CbsProps ------------------------------
(***************************************************************************)
(* What conflict-based search must guarantee: a plan it reports is free of *)
(* collisions and optimal, measured against a search over joint positions. *)
(***************************************************************************)
EXTENDS Cbs

CONSTANT Slack      \* how many steps the reference search looks ahead

ASSUME SlackAssumption == Slack \in Nat

Nodes == IF pc = "done" THEN {} ELSE open

-----------------------------------------------------------------------------
(* The reference: breadth-first search over the joint positions, the set of *)
(* the agents that have stopped on their goal for good and the cost so far; *)
(* a step costs one per agent that has not stopped.                         *)

Arrived(x, goal) == {a \in Agents \ x.stopped : x.pos[a] = goal[a]}

JointSteps(x, goal) ==
    UNION {{[pos |-> q, stopped |-> x.stopped \cup e, cost |-> x.cost + Cardinality(Agents \ (x.stopped \cup e))] :
                q \in {f \in [Agents -> UNION {MovesFrom(x.pos[a]) : a \in Agents}] :
                          /\ \A a \in Agents :
                               f[a] \in IF a \in x.stopped \cup e THEN {x.pos[a]} ELSE MovesFrom(x.pos[a])
                          /\ StepOk(x.pos, f)}} :
             e \in SUBSET Arrived(x, goal)}

JointSearch(start, goal) ==
    LET F[k \in 0 .. Slack] ==
            IF k = 0 THEN {[pos |-> start, stopped |-> {}, cost |-> 0]}
            ELSE UNION {JointSteps(x, goal) : x \in F[k - 1]}
    IN  UNION {F[k] : k \in 0 .. Slack}

Infinite == 1000

Apart(pos) == \A i, j \in Agents : i # j => pos[i] # pos[j]

\* Per instance, the least sum of costs of a plan without collisions.
Optimum ==
    [i \in Instances |->
        Min({Infinite} \cup
            {x.cost : x \in {y \in JointSearch(i.start, i.goal) :
                                Apart(i.start) /\ y.stopped \cup Arrived(y, i.goal) = Agents}})]

-----------------------------------------------------------------------------
\* Every path of every node obeys all the constraints of its agent, for ever: it
\* does not end, parked on its goal, before a constraint that would send it away
\* (cbs.hpp:103-105, 151, 165-170).  Nobody can be kept off its start at time 0.
ConstraintsAreObeyed ==
    \A n \in Nodes : \A a \in Agents : \A c \in n.cons[a] :
        LET p == n.paths[a]
        IN  IF c.kind = "vertex" THEN c.t = 0 \/ PathAt(p, c.t) # c.from
            ELSE ~(PathAt(p, c.t) = c.from /\ PathAt(p, c.t + 1) = c.to)

\* No plan gets lost: until an answer is found, some open node is no dearer than
\* the optimum; a child that is dropped was no way to it.  So the plan handed out
\* when time is up, which nobody has looked at, is never dearer than the optimum
\* either: short of it, or optimal (cbs.hpp:10-18, 304-310, 348).
OptimumStaysInReach ==
    Optimum[task] < Infinite =>
        /\ pc = "search" => \E n \in open : n.cost <= Optimum[task]
        /\ answer.timeout => answer.cost <= Optimum[task]

\* A success is free of collisions and has the least sum of costs, and an
\* instance without a solution is never a success (cbs.hpp:16-18, 62-64).
SuccessIsOptimal ==
    answer.success =>
        /\ Verify(task.start, task.goal, answer.plan) = {}
        /\ answer.cost = Optimum[task]
=============================================================================
