-------------------------- MODULE ParallelTempering -------------------------
(***************************************************************************)
(* Replica exchange, include/anneal/parallel_tempering.hpp: one replica on *)
(* each rung of a ladder of fixed temperatures.  A sweep proposes to flip  *)
(* every spin of every replica; every so many sweeps the replicas of       *)
(* adjacent rungs may change places, from the coldest pair upwards.  Each  *)
(* replica carries its cached fields and its running energy along; the     *)
(* best state seen anywhere is kept apart.                                 *)
(***************************************************************************)
EXTENDS Bqm, SequencesExt

CONSTANTS
    Models,         \* inputs: the models to solve
    Temperatures,   \* temps: positive, in any order
    NumSweeps,      \* num_sweeps
    SwapInterval    \* swap_interval

ASSUME TemperingAssumption ==
    /\ Temperatures \in Seq(Nat \ {0}) /\ Temperatures # <<>>
    /\ NumSweeps \in Nat /\ SwapInterval \in Nat
    /\ \A m \in Models : IsModel(m) /\ Vars(m) # {} /\ Vars(m) = 1 .. Cardinality(Vars(m))

VARIABLES
    pc,             \* "sweep", "exchange" or "done"
    model,          \* the input
    view,           \* CompactBQM: the model in spins
    spin,           \* the spins of the replica on each rung
    field,          \* their cached local fields
    energy,         \* their running energies
    best,           \* best_state
    bestEnergy,     \* best_energy
    sweep,          \* sweeps done, without the one under way
    rung,           \* the replica to propose for, or the colder of a pair
    next,           \* the spin to propose
    swapAttempts,   \* swap_attempts
    swapAccepts     \* accepted swaps of each pair

replicas == <<spin, field, energy>>
record   == <<best, bestEnergy>>
swaps    == <<swapAttempts, swapAccepts>>
vars     == <<pc, model, view, replicas, record, sweep, rung, next, swaps>>

R == Len(Temperatures)

\* Rung 1 is the coldest.
Ladder == SortSeq(Temperatures, LAMBDA s, t : s < t)

\* swap_interval, 0 stands for 1
Interval == IF SwapInterval = 0 THEN 1 ELSE SwapInterval

\* The energy change of the proposed flip, read off the replica's cache.
Change == -2 * spin[rung][next] * field[rung][next]

\* The sign of (1/T_lo - 1/T_hi) (E_lo - E_hi) for the pair rung, rung + 1.
Gain == (Ladder[rung + 1] - Ladder[rung]) * (energy[rung] - energy[rung + 1])

\* The first of the rungs with the least energy.
FirstBest(e) == CHOOSE r \in 1 .. R : \A q \in 1 .. R : e[r] <= e[q] /\ (q < r => e[r] < e[q])

Init ==
    /\ pc = IF NumSweeps = 0 THEN "done" ELSE "sweep"
    /\ model \in Models
    /\ view = ToSpin(model)
    /\ spin \in [1 .. R -> [Vars(model) -> {-1, 1}]]
    /\ field = [r \in 1 .. R |-> [i \in Vars(model) |-> Field(view, spin[r], i)]]
    /\ energy = [r \in 1 .. R |-> Energy(view, spin[r])]
    /\ best = spin[FirstBest(energy)] /\ bestEnergy = energy[FirstBest(energy)]
    /\ sweep = 0 /\ rung = 1 /\ next = 1
    /\ swapAttempts = 0 /\ swapAccepts = [r \in 1 .. R - 1 |-> 0]

\* Where the loop goes on after a sweep, and the exchange it may end with.
NextSweep ==
    /\ sweep' = sweep + 1
    /\ pc' = IF sweep + 1 < NumSweeps THEN "sweep" ELSE "done"
    /\ rung' = 1 /\ next' = 1

\* Mutant of ExchangeDue: the sweeps are counted from 0.
ExchangeDueEarly == sweep % Interval = 0 /\ R > 1

\* Does an exchange follow the sweep under way?
ExchangeDue == (sweep + 1) % Interval = 0 /\ R > 1

\* The next spin, the next replica, an exchange or the next sweep.
Advance ==
    IF next < Cardinality(Vars(model))
    THEN next' = next + 1 /\ UNCHANGED <<pc, rung, sweep>>
    ELSE IF rung < R
    THEN next' = 1 /\ rung' = rung + 1 /\ UNCHANGED <<pc, sweep>>
    ELSE IF ExchangeDue
    THEN next' = 1 /\ rung' = 1 /\ pc' = "exchange" /\ UNCHANGED sweep
    ELSE NextSweep

\* A flip that does not go uphill is always accepted, another one may be.
Accept ==
    /\ pc = "sweep"
    /\ spin' = [spin EXCEPT ![rung][next] = -@]
    /\ energy' = [energy EXCEPT ![rung] = @ + Change]
    /\ field' = [field EXCEPT ![rung] =
                    [j \in Vars(model) |-> @[j] - 2 * view.quad[next][j] * spin[rung][next]]]
    /\ best' = IF energy'[rung] < bestEnergy THEN spin'[rung] ELSE best
    /\ bestEnergy' = IF energy'[rung] < bestEnergy THEN energy'[rung] ELSE bestEnergy
    /\ Advance
    /\ UNCHANGED <<model, view, swaps>>

Reject ==
    /\ pc = "sweep" /\ Change > 0
    /\ Advance
    /\ UNCHANGED <<model, view, replicas, record, swaps>>

\* The next pair, or the next sweep.
NextPair ==
    IF rung + 1 < R THEN rung' = rung + 1 /\ UNCHANGED <<pc, sweep, next>> ELSE NextSweep

Swapped(f) == [f EXCEPT ![rung] = f[rung + 1], ![rung + 1] = f[rung]]

\* Mutant of Swap: the replicas leave their caches behind.
SwapLeavingFields ==
    /\ pc = "exchange"
    /\ spin' = Swapped(spin) /\ energy' = Swapped(energy)
    /\ swapAttempts' = swapAttempts + 1
    /\ swapAccepts' = [swapAccepts EXCEPT ![rung] = @ + 1]
    /\ NextPair
    /\ UNCHANGED <<model, view, field, record>>

\* Two neighbours change places; certain if the colder rung has the higher energy.
Swap ==
    /\ pc = "exchange"
    /\ spin' = Swapped(spin) /\ field' = Swapped(field) /\ energy' = Swapped(energy)
    /\ swapAttempts' = swapAttempts + 1
    /\ swapAccepts' = [swapAccepts EXCEPT ![rung] = @ + 1]
    /\ NextPair
    /\ UNCHANGED <<model, view, record>>

Stay ==
    /\ pc = "exchange" /\ Gain < 0
    /\ swapAttempts' = swapAttempts + 1
    /\ NextPair
    /\ UNCHANGED <<model, view, replicas, record, swapAccepts>>

Next == Accept \/ Reject \/ Swap \/ Stay

Spec == Init /\ [][Next]_vars

\* swap_rate of a pair: so many of so many.
SwapRate(r) == [accepted |-> swapAccepts[r], attempts |-> NumSweeps \div Interval]
=============================================================================
