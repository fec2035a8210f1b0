------------------------- MODULE MCPenaltyExperiment ------------------------
(***************************************************************************)
(* Menus for TLC: two agents on a corridor of three cells with a bay,      *)
(*                                                                         *)
(*      (0,0) (1,0) (2,0)                                                  *)
(*        @   (1,1)   @                                                    *)
(***************************************************************************)
EXTENDS PenaltyExperiment

Bay == {<<0, 1>>, <<2, 1>>}

\* From one end to the other, at once or by the bay; back, at once, late or very
\* late; into the bay, at once or late; and an agent at rest.
Menus == {
    <<<<<<0, 0>>, <<1, 0>>, <<2, 0>>>>,
      <<<<0, 0>>, <<1, 0>>, <<1, 1>>, <<1, 0>>, <<2, 0>>>>>>,
    <<<<<<2, 0>>, <<1, 0>>, <<0, 0>>>>,
      <<<<2, 0>>, <<2, 0>>, <<1, 0>>, <<0, 0>>>>>>,
    <<<<<<2, 0>>, <<1, 0>>, <<0, 0>>>>,
      <<<<2, 0>>, <<2, 0>>, <<2, 0>>, <<1, 0>>, <<0, 0>>>>>>,
    <<<<<<0, 0>>, <<1, 0>>, <<1, 1>>>>,
      <<<<0, 0>>, <<0, 0>>, <<0, 0>>, <<1, 0>>, <<1, 1>>>>>>,
    <<<<<<2, 0>>>>>>}

\* Every model the menus and penalties lead to.
BuiltModels ==
    UNION {{BuildModel(p, w, WholePath) :
              w \in {s * DearestPath(p) : s \in Scales} \cup {DefaultPenalty(p)}} :
           p \in [1 .. Cardinality(Agents) -> MenuChoices]}
=============================================================================
