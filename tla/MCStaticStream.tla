--------------------------- MODULE MCStaticStream ---------------------------
(***************************************************************************)
(* Instances of the static mode for TLC: two agents on                     *)
(*                                                                         *)
(*      y = 0     (0,0) (1,0) (2,0)   @                                    *)
(*      y = 1       @   (1,1)   @   (3,1)                                  *)
(***************************************************************************)
EXTENDS StaticStream

Bay == {<<0, 1>>, <<2, 1>>, <<3, 0>>}

Instance(s1, g1, s2, g2) == [start |-> <<s1, s2>>, goal |-> <<g1, g2>>]

\* Head-on in the corridor, one behind the other, a goal for two, and a goal
\* nobody can reach.
BayInstances == {
    Instance(<<0, 0>>, <<2, 0>>, <<2, 0>>, <<0, 0>>),
    Instance(<<0, 0>>, <<1, 1>>, <<1, 0>>, <<0, 0>>),
    Instance(<<0, 0>>, <<1, 0>>, <<2, 0>>, <<1, 0>>),
    Instance(<<0, 0>>, <<2, 0>>, <<1, 0>>, <<3, 1>>)}
=============================================================================
