---------------------------- MODULE HybridProps -----------------------------
(***************************************************************************)
(* What the hybrid loop must guarantee, whatever the annealer answers.     *)
(***************************************************************************)
EXTENDS HybridSolver

\* What is reported is true: the verification belongs to the plan, a success is a
\* plan the verifier accepts, and an instance is only called infeasible when an
\* agent cannot reach its goal or no candidates are asked for
\* (solver.hpp:109-116, 132-147).
ReportIsTrue ==
    /\ result.iterations > 0 =>
         /\ result.plan # <<>>
         /\ result.verification = Verify(task.start, task.goal, result.plan)
    /\ result.success => result.iterations > 0 /\ result.verification = {}
    /\ result.infeasible => MenuSize = 0 \/ \E a \in Agents : Paths(a) = {}

\* Every round's plan is made of whole paths, parked on their goals: the agents
\* may collide, nothing else can be wrong with it, so that every failed round has
\* somebody to find new candidates for (solver.hpp:149-164).
OnlyAgentsConflict == pc = "grow" => (\A v \in found : v[1] \in {"vertex", "swap"}) /\ Touched # {}

\* No round's plan has fewer violations than the plan that is kept, and the kept
\* plan is only given up for a better one (solver.hpp:136-142).
KeepsTheBest ==
    [][/\ pc = "round" /\ result'.iterations > result.iterations =>
            Cardinality(result'.verification) <= Cardinality(found')
       /\ result.iterations > 0 /\ result'.plan # result.plan =>
            Cardinality(result'.verification) < Cardinality(result.verification)]_vars

PathsAdded == SumFunction([a \in Agents |-> Cardinality(pools[a])])

\* Every round after the first was paid for with a path no menu had before, so
\* the capped menus alone end the loop (solver.hpp:166-185).
EveryRoundPays ==
    pc = "round" => result.iterations <= PathsAdded - Cardinality(Agents)

=============================================================================
