------------------------------- MODULE MCCbs --------------------------------
(***************************************************************************)
(* Instances of conflict-based search for TLC: two agents on               *)
(*                                                                         *)
(*      y = 0     (0,0) (1,0) (2,0)   @                                    *)
(*      y = 1       @   (1,1)   @   (3,1)                                  *)
(*                                                                         *)
(* a corridor with one bay and a cell nobody can leave.                    *)
(***************************************************************************)
EXTENDS CbsProps

Bay == {<<0, 1>>, <<2, 1>>, <<3, 0>>}

Instance(s1, g1, s2, g2) == [start |-> <<s1, s2>>, goal |-> <<g1, g2>>]

\* Head-on in the corridor, an agent on its goal in the way, a goal one has to
\* wait for, a goal that is the other's start, and a goal nobody can reach.
BayInstances == {
    Instance(<<0, 0>>, <<2, 0>>, <<2, 0>>, <<0, 0>>),
    Instance(<<0, 0>>, <<2, 0>>, <<1, 0>>, <<1, 0>>),
    Instance(<<1, 0>>, <<0, 0>>, <<0, 0>>, <<1, 1>>),
    Instance(<<0, 0>>, <<1, 1>>, <<1, 0>>, <<0, 0>>),
    Instance(<<0, 0>>, <<2, 0>>, <<1, 0>>, <<3, 1>>)}
=============================================================================
