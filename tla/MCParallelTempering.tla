------------------------ MODULE MCParallelTempering -------------------------
(***************************************************************************)
(* Two variables and three rungs for TLC.                                  *)
(***************************************************************************)
EXTENDS ParallelTemperingProps

\* A model of two variables from its biases and their coupling, in units.
Model(isSpin, h, c) ==
    [spin   |-> isSpin,
     linear |-> [i \in 1 .. 2 |-> Unit * h[i]],
     quad   |-> [i \in 1 .. 2 |-> [j \in 1 .. 2 |-> IF i = j THEN 0 ELSE Unit * c]],
     offset |-> Unit]

\* A coupling against a field, as spins, and a choice of one of two, as bits.
SmallModels == {Model(TRUE, <<1, -2>>, -1), Model(FALSE, <<-4, -3>>, 8)}

\* Out of order, and with two rungs of one temperature.
Temps == <<3, 1, 3>>
=============================================================================
