------------------------------ MODULE MapfPlan ------------------------------
(***************************************************************************)
(* Joint motion of several agents: what a plan is (mapf/plan.hpp), when    *)
(* one joint step is free of collisions (rolling.hpp's step_ok), when two  *)
(* whole paths collide (conflict_qubo.hpp's paths_conflict) and what the   *)
(* independent verifier reports (mapf/verifier.hpp).                       *)
(*                                                                         *)
(* Times are the code's: a path p covers the times 0 .. Len(p) - 1 and its *)
(* agent stays on the last cell afterwards.                                *)
(***************************************************************************)
EXTENDS MapfGrid, FiniteSets, FiniteSetsExt

CONSTANT Agents     \* the agents' identities

ASSUME AgentsAssumption == IsFiniteSet(Agents) /\ Agents # {}

\* detail::path_at and Plan::position_at
PathAt(p, t) == IF t < Len(p) THEN p[t + 1] ELSE p[Len(p)]

\* Two agents trade cells across one step.
Swaps(i, j, prev, cur) == cur[i] = prev[j] /\ cur[j] = prev[i]

\* detail::step_ok
StepOk(prev, cur) ==
    \A i, j \in Agents : i # j => cur[i] # cur[j] /\ ~Swaps(i, j, prev, cur)

\* paths_conflict: replay both paths in lockstep, no further than window.
PathsConflict(p, q, window) ==
    LET longest == Max({Len(p), Len(q)}) - 1
        horizon == IF window < longest THEN window ELSE longest
    IN  /\ p # <<>> /\ q # <<>>
        /\ \E t \in 0 .. horizon :
             \/ PathAt(p, t) = PathAt(q, t)
             \/ /\ t > 0
                /\ PathAt(p, t) = PathAt(q, t - 1)
                /\ PathAt(q, t) = PathAt(p, t - 1)

\* Plan::makespan
Makespan(paths) == Max({0} \cup {Len(paths[a]) - 1 : a \in Agents})

\* Plan::sum_of_costs for one agent: one more than the last time off its goal.
PathCost(p, goal) == Max({0} \cup {t \in 1 .. Len(p) : p[t] # goal})

\* verify: the violations of a plan whose paths are all non-empty, each as
\* <<type, agent, other agent, time>>.
Verify(start, goal, paths) ==
    {<<"endpoint", a, a, 0>> : a \in {b \in Agents :
        PathAt(paths[b], 0) # start[b] \/ paths[b][Len(paths[b])] # goal[b]}}
    \cup
    {<<"move", v[1], v[1], v[2]>> : v \in {w \in Agents \X (0 .. Makespan(paths)) :
        /\ w[2] < Len(paths[w[1]])
        /\ \/ PathAt(paths[w[1]], w[2]) \notin Free
           \/ /\ w[2] > 0
              /\ Manhattan(PathAt(paths[w[1]], w[2] - 1), PathAt(paths[w[1]], w[2])) > 1}}
    \cup
    {<<"vertex", v[1], v[2], v[3]>> : v \in {w \in Agents \X Agents \X (0 .. Makespan(paths)) :
        /\ w[1] # w[2]
        /\ PathAt(paths[w[1]], w[3]) = PathAt(paths[w[2]], w[3])}}
    \cup
    {<<"swap", v[1], v[2], v[3]>> : v \in {w \in Agents \X Agents \X (1 .. Makespan(paths)) :
        /\ w[1] # w[2]
        /\ PathAt(paths[w[1]], w[3]) # PathAt(paths[w[2]], w[3])
        /\ PathAt(paths[w[1]], w[3]) = PathAt(paths[w[2]], w[3] - 1)
        /\ PathAt(paths[w[2]], w[3]) = PathAt(paths[w[1]], w[3] - 1)}}
=============================================================================
