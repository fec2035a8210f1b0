------------------------ MODULE ParallelTemperingProps ----------------------
(***************************************************************************)
(* What replica exchange must keep track of while configurations travel.   *)
(***************************************************************************)
EXTENDS ParallelTempering

\* Wherever a configuration has travelled on the ladder, its cached fields and
\* running energy are its own; the best state has the best energy, in the
\* caller's model, and no replica is below it, whichever flip, rung or exchange
\* it came from (parallel_tempering.hpp:114-129, 140-144).
ReplicasAreWhole ==
    /\ \A r \in 1 .. R :
         /\ \A i \in Vars(model) : field[r][i] = Field(view, spin[r], i)
         /\ energy[r] = Energy(model, FromSpins(model, spin[r]))
         /\ bestEnergy <= energy[r]
    /\ bestEnergy = Energy(model, FromSpins(model, best))

\* The denominator of the swap rates is computed from the sweeps alone; it is the
\* number of attempts that were made for each pair, so the rates are fractions
\* (parallel_tempering.hpp:133-146, 151-154).
SwapRatesAreExact ==
    pc = "done" => \A r \in 1 .. R - 1 :
        /\ SwapRate(r).accepted <= SwapRate(r).attempts
        /\ swapAttempts = (R - 1) * SwapRate(r).attempts
=============================================================================
