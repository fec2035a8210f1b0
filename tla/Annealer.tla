------------------------------ MODULE Annealer ------------------------------
(***************************************************************************)
(* The plain simulated annealer of include/anneal/annealer.hpp, the        *)
(* reference the fast one is held against: a sweep proposes to flip every  *)
(* spin once, in order; a flip that does not raise the energy is always    *)
(* accepted, another one if a random draw says so.  The draws are counted: *)
(* two annealers that make the same decisions with the same number of      *)
(* draws before each are in step with the same random stream.              *)
(***************************************************************************)
EXTENDS Bqm

CONSTANTS
    Models,     \* inputs: the models to solve
    NumSweeps   \* num_sweeps

\* FastAnnealer, which uses this module, assumes what is needed of both: the
\* variables of a model are numbered from 1, and NumSweeps is a number.

VARIABLES
    model,      \* the input
    state,      \* the spins
    energy,     \* current_energy
    best,       \* best_state
    bestEnergy, \* best_energy
    sweep,      \* sweeps done
    next,       \* the spin to propose
    draws       \* numbers drawn for decisions

annealing == <<model, state, energy, best, bestEnergy, sweep, next, draws>>

Rises(spins, i) == -2 * spins[i] * Field(ToSpin(model), spins, i)

Flipped(spins, i) == [spins EXCEPT ![i] = -@]

Start ==
    /\ model \in Models
    /\ state \in [Vars(model) -> {-1, 1}]
    /\ energy = Energy(ToSpin(model), state)
    /\ best = state /\ bestEnergy = energy
    /\ sweep = 0 /\ next = 1 /\ draws = 0

\* The next proposal, or the next sweep.
Advance ==
    /\ next' = IF next < Cardinality(Vars(model)) THEN next + 1 ELSE 1
    /\ sweep' = IF next < Cardinality(Vars(model)) THEN sweep ELSE sweep + 1

Proposing == sweep < NumSweeps /\ Vars(model) # {}

Accept ==
    /\ Proposing
    /\ state' = Flipped(state, next)
    /\ energy' = energy + Rises(state, next)
    /\ best' = IF energy' < bestEnergy THEN state' ELSE best
    /\ bestEnergy' = IF energy' < bestEnergy THEN energy' ELSE bestEnergy
    /\ draws' = IF Rises(state, next) <= 0 THEN draws ELSE draws + 1
    /\ Advance
    /\ UNCHANGED model

\* Only a flip that raises the energy can be turned down.
Reject ==
    /\ Proposing
    /\ Rises(state, next) > 0
    /\ draws' = draws + 1
    /\ Advance
    /\ UNCHANGED <<model, state, energy, best, bestEnergy>>

Anneal == Accept \/ Reject

PlainSpec == Start /\ [][Anneal]_annealing
=============================================================================
