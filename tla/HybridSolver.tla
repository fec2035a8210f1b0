---------------------------- MODULE HybridSolver ----------------------------
(***************************************************************************)
(* The hybrid loop solve_mapf of mapf/solver.hpp: a menu of candidate      *)
(* paths per agent; each round the annealer selects one path per agent,    *)
(* the verifier looks at the plan, the plan with the fewest violations is  *)
(* kept, and the agents in a collision get more candidates.                *)
(*                                                                         *)
(* The annealer is a heuristic: after decode_selection its answer is one   *)
(* candidate per agent, any of them.  Reservations and random tie-breaks   *)
(* decide which candidates a search returns; a menu is any choice among    *)
(* the paths PathGen allows.                                               *)
(***************************************************************************)
EXTENDS PathGen, Functions

CONSTANTS
    MenuSize,       \* candidates_per_agent
    MenuCap,        \* max_candidates_per_agent
    MaxIterations,  \* max_iterations
    SizeMax,        \* SIZE_MAX, best_violation_count before there is a plan
    Instances       \* inputs: [start, goal : per agent]

\* What a violation of a plan with paths up to the horizon can be.
Conceivable == {"endpoint", "move", "vertex", "swap"} \X Agents \X Agents \X (0 .. Horizon)

\* No plan of an instance that fits into memory has SIZE_MAX violations.
ASSUME HybridAssumption ==
    /\ MenuSize \in Nat /\ MenuCap \in Nat /\ MaxIterations \in Nat
    /\ SizeMax \in Nat /\ Cardinality(Conceivable) < SizeMax
    /\ Instances \subseteq [start : [Agents -> Free], goal : [Agents -> Free]]

VARIABLES
    pc,         \* "generate", "round", "grow" or "done"
    task,       \* the instance, an input
    pools,      \* the agents' menus
    found,      \* the violations of this round's plan
    fewest,     \* best_violation_count
    result      \* what is returned: SolverResult

vars == <<pc, task, pools, found, fewest, result>>

\* Per instance and agent, the paths a search may return.
PathsOf ==
    [i \in Instances |-> [a \in Agents |-> WholePaths(i.start[a], i.goal[a], <<>>)]]

Paths(a) == PathsOf[task][a]

\* generate_candidates: at most MenuSize distinct paths.
Menus(a) == {m \in SUBSET Paths(a) : m # {} /\ Cardinality(m) <= MenuSize}

\* When nothing is reserved yet, the first candidate is a shortest path.
FirstMenus(a) ==
    {m \in Menus(a) : \E p \in m : \A q \in Paths(a) : Len(p) <= Len(q)}

\* The families of one set per agent, each from the agent's choices.
Families(choices) == {f \in [Agents -> UNION Range(choices)] : \A a \in Agents : f[a] \in choices[a]}

\* Mutant of PadTo: the path is left as it is.
PadNothing(p, makespan) == p

\* pad_to: the agent parks at the end of its path.
PadTo(p, makespan) == [i \in 1 .. makespan + 1 |-> PathAt(p, i - 1)]

\* build_plan
BuildPlan(chosen) == [a \in Agents |-> PadTo(chosen[a], Makespan(chosen))]

\* Mutant of Keep: the best count starts at zero.
KeepNothing(plan, violations) == [result EXCEPT !.iterations = @ + 1, !.success = violations = {}]

\* Mutant of Keep: the last plan is kept.
KeepLast(plan, violations) ==
    [result EXCEPT !.iterations = @ + 1, !.plan = plan, !.verification = violations,
                   !.success = violations = {}]

\* The result after a round: the plan with the fewest violations so far.
Keep(plan, violations) ==
    [result EXCEPT !.iterations = @ + 1,
                   !.plan = IF Cardinality(violations) < fewest THEN plan ELSE @,
                   !.verification = IF Cardinality(violations) < fewest THEN violations ELSE @,
                   !.success = violations = {}]

\* The agents in a collision: they get new candidates.
Touched == UNION {{v[2], v[3]} : v \in {w \in found : w[1] \in {"vertex", "swap"}}}

\* An agent's menu after new candidates: the ones it had, and new ones until the
\* menu is full.  The search may find nothing new.
GrownMenus(a) ==
    IF Cardinality(pools[a]) >= MenuCap THEN {pools[a]}
    ELSE {m \in {pools[a] \cup fresh : fresh \in Menus(a)} : Cardinality(m) <= MenuCap}

-----------------------------------------------------------------------------
NoResult ==
    [success |-> FALSE, plan |-> <<>>, verification |-> {}, iterations |-> 0, infeasible |-> FALSE]

Init ==
    /\ pc = "generate"
    /\ task \in Instances
    /\ pools = [a \in Agents |-> {}]
    /\ found = {}
    /\ fewest = SizeMax
    /\ result = NoResult

\* Round 0: a menu for every agent.
Generate ==
    /\ pc = "generate"
    /\ pools' \in Families([a \in Agents |-> FirstMenus(a)])
    /\ pc' = "round"
    /\ UNCHANGED <<task, found, fewest, result>>

\* Some agent has no path at all, or none is asked for.
GenerateFails ==
    /\ pc = "generate"
    /\ \E a \in Agents : FirstMenus(a) = {}
    /\ result' = [result EXCEPT !.infeasible = TRUE]
    /\ pc' = "done"
    /\ UNCHANGED <<task, pools, found, fewest>>

\* Anneal, decode, verify, and keep the plan when it has fewer violations.
Select ==
    /\ pc = "round" /\ result.iterations < MaxIterations
    /\ \E chosen \in Families(pools) :
       \E plan \in {BuildPlan(chosen)} :
         /\ found' = Verify(task.start, task.goal, plan)
         /\ result' = Keep(plan, found')
    /\ fewest' = Min({fewest, Cardinality(found')})
    /\ pc' = IF found' = {} THEN "done" ELSE "grow"
    /\ UNCHANGED <<task, pools>>

\* Mutant of Grow: candidates the menu already has count as growth.
GrowOnDuplicates ==
    /\ pc = "grow"
    /\ pools' \in Families([a \in Agents |-> IF a \in Touched THEN GrownMenus(a) ELSE {pools[a]}])
    /\ pc' = IF \E a \in Touched : Cardinality(pools[a]) < MenuCap THEN "round" ELSE "done"
    /\ UNCHANGED <<task, found, fewest, result>>

\* More candidates for the touched agents; the loop ends when nobody got any.
Grow ==
    /\ pc = "grow"
    /\ pools' \in Families([a \in Agents |-> IF a \in Touched THEN GrownMenus(a) ELSE {pools[a]}])
    /\ pc' = IF pools' = pools THEN "done" ELSE "round"
    /\ UNCHANGED <<task, found, fewest, result>>

\* The rounds are used up.
GiveUp ==
    /\ pc = "round" /\ result.iterations >= MaxIterations
    /\ pc' = "done"
    /\ UNCHANGED <<task, pools, found, fewest, result>>

Next == Generate \/ GenerateFails \/ Select \/ Grow \/ GiveUp

Spec == Init /\ [][Next]_vars
=============================================================================
