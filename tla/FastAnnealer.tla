---------------------------- MODULE FastAnnealer ----------------------------
(***************************************************************************)
(* The optimised annealer of include/anneal/fast_annealer.hpp: a compact   *)
(* copy of the model, a cache of every spin's local field that is only     *)
(* adjusted when a flip is accepted, and at level 4 a table of acceptance  *)
(* thresholds indexed by the energy change.  It may be cut short by a      *)
(* deadline, looked at once per sweep.                                     *)
(***************************************************************************)
EXTENDS Bqm, FiniteSetsExt

CONSTANTS
    Models,         \* inputs: the models to solve
    NumSweeps,      \* num_sweeps
    Levels,         \* inputs: OptLevel, 1 .. 4
    HasDeadline     \* max_wall_ms > 0

ASSUME FastAssumption ==
    /\ NumSweeps \in Nat /\ Levels \subseteq 1 .. 4 /\ HasDeadline \in BOOLEAN
    /\ \A m \in Models : IsModel(m) /\ Vars(m) = 1 .. Cardinality(Vars(m))

VARIABLES
    model,      \* the input
    level,      \* the template parameter OptLevel
    view,       \* CompactBQM: the model in spins
    spin,       \* the spins
    field,      \* the cached local fields, from level 2 on
    energy,     \* current_energy
    best,       \* best_spin
    bestEnergy, \* best_energy
    sweep,      \* sweeps done
    next,       \* the spin to propose
    draws,      \* numbers drawn for decisions
    spare,      \* how many of them could not have changed the decision
    done        \* solve has returned

fast == <<model, level, view, spin, field, energy, best, bestEnergy, sweep, next, draws, spare, done>>

\* CompactBQM(bqm): spins and neighbour lists, here the model itself in spins.
CompactView(m) == ToSpin(m)

Abs(x) == IF x < 0 THEN -x ELSE x

\* The largest |h_i| + sum of |J_ij|.
LargestField(m) ==
    Max({0} \cup {Abs(m.linear[i]) + SumFunction([j \in Vars(m) |-> Abs(m.quad[i][j])]) : i \in Vars(m)})

\* detect_integer_mode: only models with whole biases get a table.
IntegerMode(m) ==
    /\ \A i \in Vars(m) : IsWhole(m.linear[i]) /\ \A j \in Vars(m) : IsWhole(m.quad[i][j])
    /\ 2 * LargestField(m) <= 65536 * Unit

\* Mutant of TableSize: as large as a field, not as the change of a flip.
TableSizeOneField(m) == IF IntegerMode(m) THEN LargestField(m) \div Unit + 1 ELSE 0

\* accept_table_size: the table has the indices 0 .. TableSize - 1.
TableSize(m) == IF IntegerMode(m) THEN (2 * LargestField(m)) \div Unit + 1 ELSE 0

\* The energy change of a flip: the field is computed, or read off the cache.
Change == -2 * spin[next] * (IF level = 1 THEN Field(view, spin, next) ELSE field[next])

\* Mutant of Drawn: a draw for every proposal.
DrawnAlways(change) == 1

\* Numbers drawn for a proposal: from level 3 on for an uphill one only.
Drawn(change) == IF level >= 3 /\ change <= 0 THEN 0 ELSE 1

\* Below level 3 a draw is made for flips that are accepted whatever it is.
Spared(change) == IF level < 3 /\ change <= 0 THEN 1 ELSE 0

\* The cache after spin i has changed sign: every neighbour's field moves by
\* twice the coupling times the new spin.
Adjusted(i) == [j \in Vars(view) |-> field[j] - 2 * view.quad[i][j] * spin[i]]

Init ==
    /\ model \in Models
    /\ level \in Levels
    /\ view = CompactView(model)
    /\ spin \in [Vars(model) -> {-1, 1}]
    /\ field = IF level = 1 THEN <<>> ELSE [i \in Vars(model) |-> Field(view, spin, i)]
    /\ energy = Energy(view, spin)
    /\ best = spin /\ bestEnergy = energy
    /\ sweep = 0 /\ next = 1 /\ draws = 0 /\ spare = 0
    /\ done = FALSE

Proposing == ~done /\ sweep < NumSweeps /\ Vars(model) # {}

\* The next proposal, or the next sweep.
Advance ==
    /\ next' = IF next < Cardinality(Vars(model)) THEN next + 1 ELSE 1
    /\ sweep' = IF next < Cardinality(Vars(model)) THEN sweep ELSE sweep + 1

Accept ==
    /\ Proposing
    /\ spin' = [spin EXCEPT ![next] = -@]
    /\ field' = IF level = 1 THEN field ELSE Adjusted(next)
    /\ energy' = energy + Change
    /\ best' = IF energy' < bestEnergy THEN spin' ELSE best
    /\ bestEnergy' = IF energy' < bestEnergy THEN energy' ELSE bestEnergy
    /\ draws' = draws + Drawn(Change)
    /\ spare' = spare + Spared(Change)
    /\ Advance
    /\ UNCHANGED <<model, level, view, done>>

\* A draw is never above the threshold of a flip that does not go uphill.
Reject ==
    /\ Proposing
    /\ Change > 0
    /\ draws' = draws + Drawn(Change)
    /\ Advance
    /\ UNCHANGED <<model, level, view, spin, field, energy, best, bestEnergy, spare, done>>

\* All sweeps are done, or the deadline has passed before a sweep.
Return ==
    /\ ~done
    /\ ~Proposing \/ (HasDeadline /\ next = 1)
    /\ done' = TRUE
    /\ UNCHANGED <<model, level, view, spin, field, energy, best, bestEnergy, sweep, next, draws, spare>>

Next == Accept \/ Reject \/ Return

Spec == Init /\ [][Next]_fast
=============================================================================
