------------------------- MODULE MCParallelAnnealer -------------------------
(***************************************************************************)
(* Instances of the parallel annealer for TLC.                             *)
(***************************************************************************)
EXTENDS ParallelAnnealerProps

TwoEnergies == {-1, 1}
=============================================================================
