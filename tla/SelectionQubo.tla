---------------------------- MODULE SelectionQubo ---------------------------
(***************************************************************************)
(* The selection of one path per agent as a binary quadratic model,        *)
(* mapf/conflict_qubo.hpp: how it is built from the menus, and how a state *)
(* of it is read back.  Agents are numbered, a menu is a sequence of       *)
(* candidate paths, and an agent's candidates are consecutive variables.   *)
(***************************************************************************)
EXTENDS Bqm, MapfPlan, SequencesExt

\* var_owner: the variables in order, each a candidate of an agent.
VarOwner(pools) == FlattenSeq([a \in 1 .. Len(pools) |-> [i \in DOMAIN pools[a] |-> <<a, i>>]])

\* Candidate::cost
Cost(pools, a, i) == Len(pools[a][i]) - 1

\* Mutant of DefaultPenalty: just as large as the dearest selection.
DefaultPenaltyTight(pools) ==
    SumFunction([a \in DOMAIN pools |-> Max({Cost(pools, a, i) : i \in DOMAIN pools[a]})])

\* default_penalty: more than the dearest selection costs
DefaultPenalty(pools) ==
    SumFunction([a \in DOMAIN pools |-> Max({Cost(pools, a, i) : i \in DOMAIN pools[a]})]) + 1

\* Mutant of Coupling: only candidates with the same number are compared.
CouplingDiagonal(pools, v, w, penalty, window) ==
    CASE v = w -> 0
      [] v # w /\ v[1] = w[1] -> 2 * penalty
      [] v[1] # w[1] ->
            IF v[2] = w[2] /\ PathsConflict(pools[v[1]][v[2]], pools[w[1]][w[2]], window)
            THEN penalty ELSE 0

\* The coupling of two variables.
Coupling(pools, v, w, penalty, window) ==
    CASE v = w -> 0
      [] v # w /\ v[1] = w[1] -> 2 * penalty
      [] v[1] # w[1] ->
            IF PathsConflict(pools[v[1]][v[2]], pools[w[1]][w[2]], window) THEN penalty ELSE 0

\* build_selection_qubo: travel costs, one path per agent, and a penalty for
\* every pair of paths of different agents that collide.
BuildModel(pools, penalty, window) ==
    LET owner == VarOwner(pools)
    IN  [spin   |-> FALSE,
         linear |-> [v \in DOMAIN owner |-> Unit * (Cost(pools, owner[v][1], owner[v][2]) - penalty)],
         quad   |-> [v \in DOMAIN owner |-> [w \in DOMAIN owner |->
                        Unit * Coupling(pools, owner[v], owner[w], penalty, window)]],
         offset |-> Unit * penalty * Len(pools)]

\* The candidates of an agent that a state marks.
Marked(pools, state, a) ==
    LET owner == VarOwner(pools)
    IN  {owner[v][2] : v \in {w \in DOMAIN owner : owner[w][1] = a /\ state[w] = 1}}

\* The first of the cheapest of an agent's candidates.
Cheapest(pools, a, some) ==
    CHOOSE i \in some : \A j \in some :
        \/ Cost(pools, a, i) < Cost(pools, a, j)
        \/ Cost(pools, a, i) = Cost(pools, a, j) /\ i <= j

\* Decoded::chosen: the cheapest marked candidate, or the cheapest one when none
\* is marked.
Chosen(pools, state) ==
    [a \in DOMAIN pools |->
        Cheapest(pools, a, IF Marked(pools, state, a) # {} THEN Marked(pools, state, a)
                           ELSE DOMAIN pools[a])]

\* Decoded::onehot_satisfied
OneHot(pools, state) == \A a \in DOMAIN pools : Cardinality(Marked(pools, state, a)) = 1
=============================================================================
