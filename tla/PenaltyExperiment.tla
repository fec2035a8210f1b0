-------------------------- MODULE PenaltyExperiment -------------------------
(***************************************************************************)
(* One row of the table of src/mapf_penalty_experiment.cpp, which puts     *)
(* three solvers side by side on one set of menus: exhaustive search over  *)
(* the selections, exhaustive search over the states of the selection      *)
(* model (include/anneal/bruteforce.hpp), and the fast annealer.  It takes *)
(* FastAnnealer's steps on the models SelectionQubo builds.                *)
(***************************************************************************)
EXTENDS FastAnnealerProps, SelectionQubo

CONSTANTS
    MenuChoices,    \* inputs: the menus an agent may have, sequences of paths
    Scales          \* inputs: the penalty as a multiple of the dearest path

ASSUME ExperimentAssumption ==
    /\ Scales \subseteq Nat
    /\ MenuChoices \subseteq Seq(Seq(Cells) \ {<<>>}) \ {<<>>}

VARIABLES
    pools,      \* the agents' menus
    penalty,    \* the weight of a violated constraint
    optimal,    \* what best_conflict_free_cost found, NoCost for nothing
    row         \* the answers gs_ok and hit, once there

vars == <<fast, pools, penalty, optimal, row>>

\* Conflicts are looked for along the whole paths.
WholePath == 1000000

NoCost == -1

\* The states of the search over selections: one candidate per agent.
Selections(menus) ==
    {f \in [DOMAIN menus -> UNION {DOMAIN menus[a] : a \in DOMAIN menus}] :
        \A a \in DOMAIN menus : f[a] \in DOMAIN menus[a]}

Collides(menus, f) ==
    \E a, b \in DOMAIN menus :
        a < b /\ PathsConflict(menus[a][f[a]], menus[b][f[b]], WholePath)

TotalCost(menus, f) == SumFunction([a \in DOMAIN menus |-> Cost(menus, a, f[a])])

FreeSelections(menus) == {f \in Selections(menus) : ~Collides(menus, f)}

\* best_conflict_free_cost
BestConflictFreeCost(menus) ==
    IF FreeSelections(menus) = {} THEN NoCost
    ELSE Min({TotalCost(menus, f) : f \in FreeSelections(menus)})

\* max_cost
DearestPath(menus) == Max(UNION {{Cost(menus, a, i) : i \in DOMAIN menus[a]} : a \in DOMAIN menus})

\* decoded_is_optimal
DecodedIsOptimal(state) ==
    /\ OneHot(pools, state)
    /\ ~Collides(pools, Chosen(pools, state))
    /\ TotalCost(pools, Chosen(pools, state)) = optimal

\* Of two states brute_force_ground_state enumerates the one first that lacks the last
\* variable in which they differ.
Before(s, r) ==
    \E i \in DOMAIN s : s[i] < r[i] /\ \A j \in DOMAIN s : j > i => s[j] = r[j]

\* brute_force_ground_state: the first state with the least energy.
GroundState(m) ==
    LET least    == Min({Energy(m, s) : s \in States(m)})
        grounded == {s \in States(m) : Energy(m, s) = least}
    IN  CHOOSE s \in grounded : \A r \in grounded : r = s \/ Before(s, r)

-----------------------------------------------------------------------------
NoRow == [told |-> FALSE, gs |-> FALSE, hit |-> FALSE]

\* The program's penalties, and the one the solvers use.
Begin ==
    /\ pools \in [1 .. Cardinality(Agents) -> MenuChoices]
    /\ penalty \in {s * DearestPath(pools) : s \in Scales} \cup {DefaultPenalty(pools)}
    /\ penalty > 0
    /\ optimal = BestConflictFreeCost(pools)
    /\ row = NoRow
    /\ model = BuildModel(pools, penalty, WholePath)
    /\ Init

\* "no conflict-free selection exists for this instance": nothing is annealed.
AnnealStep ==
    /\ optimal # NoCost
    /\ Next
    /\ UNCHANGED <<pools, penalty, optimal, row>>

\* The annealer's state of spins is decoded as it is: -1 is no mark.
PrintRow ==
    /\ done /\ ~row.told
    /\ row' = [told |-> TRUE,
               gs   |-> DecodedIsOptimal(GroundState(model)),
               hit  |-> DecodedIsOptimal(best)]
    /\ UNCHANGED <<fast, pools, penalty, optimal>>

ExperimentNext == AnnealStep \/ PrintRow

ExperimentSpec == Begin /\ [][ExperimentNext]_vars

-----------------------------------------------------------------------------
(* Properties *)

Valid(state) == OneHot(pools, state) /\ ~Collides(pools, Chosen(pools, state))

\* Once the penalty is at least the solvers' default, the energy the annealer has
\* counted up for a conflict-free selection is its travel cost, and every other state
\* on its way, one that drops an agent or gives it two paths included, lies above
\* all conflict-free selections: no saving pays for a violation
\* (conflict_qubo.hpp:32-39).
PenaltiesOutweighSavings ==
    penalty >= DefaultPenalty(pools) =>
        IF Valid(spin) THEN energy = Unit * TotalCost(pools, Chosen(pools, spin))
        ELSE \A f \in FreeSelections(pools) : energy > Unit * TotalCost(pools, f)

\* Then the three solvers agree: the exact ground state decodes to the best
\* conflict-free selection, and the annealer's answer does so exactly when its energy
\* is the least there is (mapf_penalty_experiment.cpp:13-18, 64-77, 128-137).
GroundStateIsBestSelection ==
    row.told /\ penalty >= DefaultPenalty(pools) =>
        /\ row.gs
        /\ row.hit <=> bestEnergy = Energy(model, GroundState(model))
=============================================================================
