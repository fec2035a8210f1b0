------------------------------ MODULE PathGen -------------------------------
(***************************************************************************)
(* The candidate menu of mapf/path_gen.hpp, as the set of paths the timed  *)
(* A* may return.  Costs, penalties and random tie-breaking decide which   *)
(* of them a menu holds, so a menu is any choice among them; what every    *)
(* returned path satisfies whatever the costs is kept exactly:             *)
(*   - it starts at the agent's cell and makes legal moves only;           *)
(*   - it ends the first time it reaches the goal (the search returns when *)
(*     it pops the goal), at the latest at the horizon;                    *)
(*   - at a time k the occupancy covers, it never ENTERS a cell of occ[k]. *)
(* A search that starts on its goal returns the one-cell path at once.     *)
(***************************************************************************)
EXTENDS MapfPlan

CONSTANT Detour     \* a menu's paths are at most this much longer than a shortest one

ASSUME DetourAssumption == Detour \in Nat

\* generate_candidates' default when the caller gives no horizon
Horizon == 4 * (Width + Height)

\* dynamic_blocked: only times below its size are checked, and cells, not swaps.
MayEnter(occ, k, c) == k \in DOMAIN occ => c \notin occ[k]

\* Reached(start, goal, occ)[k]: the cells the search can hold at time k; it
\* returns at the goal, so it goes no further from there.
Reached(start, goal, occ) ==
    LET F[k \in 0 .. Horizon] ==
            IF k = 0 THEN {start}
            ELSE {c \in UNION {MovesFrom(d) : d \in F[k - 1] \ {goal}} : MayEnter(occ, k, c)}
    IN  F

\* The times at which the goal can be reached for the first time.
Arrivals(start, goal, occ) == {h \in 0 .. Horizon : goal \in Reached(start, goal, occ)[h]}

\* Reaching(goal, occ, h)[k]: the cells from which an agent that is there at
\* time k can still be on the goal by time h.  Moves between free cells can be
\* made both ways.
Reaching(goal, occ, h) ==
    LET R[k \in 0 .. h] ==
            IF k = h THEN {goal}
            ELSE {goal} \cup UNION {MovesFrom(d) :
                    d \in {c \in R[k + 1] \cap Free : MayEnter(occ, k + 1, c)}}
    IN  [k \in 0 .. h |-> R[k]]

\* The cells a path may still use to arrive, time by time, when it may take
\* Detour more steps than a shortest one; none when the goal is out of reach.
Timetables(start, goal, occ) ==
    {Reaching(goal, occ, Min({Horizon, Min(times) + Detour})) :
        times \in {Arrivals(start, goal, occ)} \ {{}}}

\* The first len moves of the paths that keep to a timetable: shorter than len
\* only when the path ends, on the goal, before.
PathPrefixes(start, goal, occ, len, reach) ==
    {p \in UNION {[1 .. m -> Cells] : m \in 1 .. len + 1} :
        /\ p[1] = start
        /\ \A k \in 1 .. Len(p) - 1 :
             /\ p[k] # goal
             /\ p[k + 1] \in MovesFrom(p[k])
             /\ MayEnter(occ, k, p[k + 1])
        /\ p[Len(p)] = goal \/ Len(p) = len + 1
        /\ Len(p) - 1 \in DOMAIN reach
        /\ p[Len(p)] \in reach[Len(p) - 1]}

\* The first len moves of the paths a menu may hold.
Candidates(start, goal, occ, len) ==
    UNION {PathPrefixes(start, goal, occ, len, reach) : reach \in Timetables(start, goal, occ)}

\* Walks(start, goal, timetable)[k]: the walks of k moves on a timetable that
\* have not been on the goal before.
Walks(start, goal, timetable) ==
    LET F[k \in DOMAIN timetable] ==
            IF k = 0 THEN {<<start>>}
            ELSE UNION {{Append(p, c) : c \in MovesFrom(p[k]) \cap timetable[k]} :
                            p \in {q \in F[k - 1] : q[k] # goal}}
    IN  UNION {F[k] : k \in DOMAIN timetable}

\* Mutant of WholePaths: a search that runs out of time returns where it got to.
WholePathsUnfinished(start, goal, occ) ==
    UNION {Walks(start, goal, timetable) : timetable \in Timetables(start, goal, occ)}

\* The paths a menu may hold, from start to goal.
WholePaths(start, goal, occ) ==
    UNION {{p \in Walks(start, goal, timetable) : p[Len(p)] = goal} :
             timetable \in Timetables(start, goal, occ)}
=============================================================================
