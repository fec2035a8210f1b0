---------------------------- MODULE AnnealStream ----------------------------
(***************************************************************************)
(* The studio's streaming annealer, src/anneal_stream.cpp: the plain       *)
(* annealer's loop on a partition or Max-Cut problem, which prints the     *)
(* best state at checkpoints, once more at the end, and a last event.      *)
(***************************************************************************)
EXTENDS Annealer, ProblemMaps

CONSTANTS
    Problems,   \* inputs: [kind, numbers] or [kind, graph]
    Points      \* --points, the checkpoints asked for

VARIABLES
    problem,    \* the input
    printed,    \* the "sweep" events
    final,      \* the "done" event, <<>> before it is printed
    phase       \* "anneal", "last" or "done"

streaming == <<annealing, problem, printed, final, phase>>

ModelOf(p) == IF p.kind = "partition" THEN PartitionModel(p.numbers) ELSE MaxcutModel(p.graph)

StreamInputs ==
    /\ NumSweeps \in Nat /\ Points \in Nat
    /\ Models = {ModelOf(p) : p \in Problems}
    /\ \A p \in Problems : IsProblem(p) /\ Sites(p) # {}

ASSUME StreamAssumption == StreamInputs

\* The objective, recounted from the problem.
Objective(s) ==
    IF problem.kind = "partition" THEN PartitionDifference(problem.numbers, s)
    ELSE CutValue(problem.graph, s)

\* Sweeps between two checkpoints, when at least one is asked for.
Asked == IF Points = 0 THEN 1 ELSE Points

Interval == LET each == NumSweeps \div Asked
            IN  IF each = 0 THEN 1 ELSE each

\* Mutant of Point: the energy of the moment, not the best one.
PointOfTheMoment(s) ==
    [sweep |-> s, best_energy |-> energy', objective |-> Objective(state'),
     assign |-> IF problem.kind = "partition" THEN state' ELSE <<>>]

\* emit_point, with the state the sweep has left
Point(s) ==
    [sweep |-> s, best_energy |-> bestEnergy', objective |-> Objective(best'),
     assign |-> IF problem.kind = "partition" THEN best' ELSE <<>>]

StreamInit ==
    /\ problem \in Problems
    /\ Start
    /\ model = ModelOf(problem)
    /\ printed = <<>> /\ final = <<>>
    /\ phase = "anneal"

\* One proposal; the last one of every Interval-th sweep is followed by a checkpoint.
Step ==
    /\ phase = "anneal"
    /\ Anneal
    /\ printed' = IF next = Cardinality(Vars(model)) /\ sweep % Interval = 0
                 THEN Append(printed, Point(sweep)) ELSE printed
    /\ UNCHANGED <<problem, final, phase>>

\* The loop is over: one more checkpoint, that of the last sweep.
LastPoint ==
    /\ phase = "anneal" /\ ~Proposing
    /\ UNCHANGED annealing
    /\ printed' = Append(printed, Point(IF NumSweeps > 0 THEN NumSweeps - 1 ELSE 0))
    /\ phase' = "last"
    /\ UNCHANGED <<problem, final>>

Done ==
    /\ phase = "last"
    /\ final' = [best_energy |-> bestEnergy, objective |-> Objective(best), sweeps |-> NumSweeps]
    /\ phase' = "done"
    /\ UNCHANGED <<annealing, problem, printed>>

StreamNext == Step \/ LastPoint \/ Done

StreamSpec == StreamInit /\ [][StreamNext]_streaming

-----------------------------------------------------------------------------
(* Properties *)

\* What the energy, which is only ever added to, must be for an objective that is
\* recounted from the problem.
Agree(bestEnergyShown, objective) ==
    bestEnergyShown = Unit * (IF problem.kind = "partition" THEN objective * objective
                              ELSE TotalWeight(problem.graph) - 2 * objective)

\* Every event's energy and objective belong together, by the problem's own
\* mapping, and the groups shown beside a difference have that difference
\* (anneal_stream.cpp:21-24, 136-138, 158-169; partition.hpp:8-15; maxcut.hpp:12-19).
EventsAreTrue ==
    /\ \A k \in DOMAIN printed :
         /\ Agree(printed[k].best_energy, printed[k].objective)
         /\ problem.kind = "partition" =>
              PartitionDifference(problem.numbers, printed[k].assign) = printed[k].objective
    /\ phase = "done" => Agree(final.best_energy, final.objective)

\* The curve the page draws: sweeps in order, only the last one may come twice;
\* energies that never rise; an end that repeats the last point; and at most twice
\* the points that were asked for (anneal_stream.cpp:155, 171-189, 212-214).
CurveDescends ==
    /\ \A k \in 1 .. Len(printed) - 1 :
         /\ printed[k + 1].best_energy <= printed[k].best_energy
         /\ printed[k + 1].sweep > printed[k].sweep
              \/ (printed[k + 1].sweep = printed[k].sweep /\ printed[k].sweep = NumSweeps - 1)
    /\ Len(printed) <= 2 * Asked
    /\ phase = "done" => /\ printed # <<>>
                         /\ printed[Len(printed)].best_energy = final.best_energy
                         /\ printed[Len(printed)].objective = final.objective
=============================================================================
