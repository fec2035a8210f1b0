---------------------------- MODULE SolveStream -----------------------------
(***************************************************************************)
(* The live solver process (src/solve_stream.cpp, rolling mode): it runs   *)
(* the rolling driver with a callback that keeps a running cost, and emits *)
(* one "meta" event, one "cycle" event per replan cycle and a final "done" *)
(* event.  The callback runs inside the driver's Arrive step.              *)
(***************************************************************************)
EXTENDS RollingProps

\* patrol_vertical: up and down column x, from a given phase on.
Patrol(x, ymin, ymax, length, offset) ==
    LET span     == Max({1, ymax - ymin})
        phase(t) == (t + offset) % (2 * span)
    IN  [k \in 1 .. length |->
            <<x, IF phase(k - 1) <= span THEN ymin + phase(k - 1)
                 ELSE ymax - (phase(k - 1) - span)>>]

\* random_walk: any legal move or wait at each step.
IsRandomWalk(w, length) ==
    /\ Len(w) = length /\ w[1] \in Free
    /\ \A k \in 1 .. length - 1 : w[k + 1] \in MovesFrom(w[k])

\* traj_len
WalkLength == MaxSteps + Window + 4

\* The column obstacle o patrols, of n.
Column(o, n) == Min({1 + ((o + 1) * Width) \div (n + 1), Width - 1})

\* --obstacles n, --motion scripted: their future is known.
Scripted(n) ==
    [paths |-> [o \in 0 .. n - 1 |-> Patrol(Column(o, n), 0, Height - 1, WalkLength, 3 * o)],
     perfect |-> TRUE, radius |-> 0]

\* --motion random: the planner keeps away from where they could go.
Random(walks) == [paths |-> walks, perfect |-> FALSE, radius |-> 1]

NoObstacle == [paths |-> <<>>, perfect |-> TRUE, radius |-> 0]

\* The obstacles main can build.  On a grid of one row a patrol would leave the grid.
IsBuilt(model) ==
    \/ model = NoObstacle
    \/ Height > 1 /\ \E n \in 1 .. Cardinality(Obstacles) : model = Scripted(n)
    \/ /\ model = Random(model.paths)
       /\ \A o \in DOMAIN model.paths : IsRandomWalk(model.paths[o], WalkLength)

VARIABLES
    lastOff,    \* last_off: per agent, -1 until it is seen off its goal
    globalT,    \* global_t: the number given to the next frame
    events      \* the events written to the pipe, oldest first

streamVars == <<lastOff, globalT, events>>

\* The frames of the cycle that ends: the driver hands over only these.
NewFrames == SubSeq(frames', Len(frames) + 1, Len(frames'))

\* Mutant of LastOffAfter: the running cost of one cycle replaces the last one.
LastOffAfterForgetful(a) ==
    Max({-1} \cup {globalT + k - 1 : k \in {i \in 1 .. Len(NewFrames) : NewFrames[i][a] # goalHistory[1][a]}})

\* last_off[a] after the callback: frames are numbered on from globalT.
LastOffAfter(a) ==
    Max({lastOff[a]} \cup
        {globalT + k - 1 : k \in {i \in 1 .. Len(NewFrames) : NewFrames[i][a] # goalHistory[1][a]}})

\* cost_so_far
CostSoFar(off) == SumFunction([a \in Agents |-> off[a] + 1])

\* The progress callback.
Callback ==
    /\ lastOff' = [a \in Agents |-> LastOffAfter(a)]
    /\ globalT' = globalT + Len(NewFrames)
    /\ events' = Append(events, [event |-> "cycle", step |-> steps, frames |-> NewFrames,
                                 cost |-> CostSoFar(lastOff')])

\* sum_of_costs of the verified history
FinalCost == SumFunction([a \in Agents |-> PathCost(HistoryPlan[a], goalHistory[1][a])])

\* The driver returns and main writes the final event.
Finish ==
    /\ pc = "loop" /\ pc' = "done"
    /\ events' = Append(events, [event |-> "done", success |-> allDone', steps |-> steps,
                                 cost |-> FinalCost, paths |-> HistoryPlan])
    /\ UNCHANGED <<lastOff, globalT>>

\* main hands over no goal provider: the live driver runs one-shot.
StreamInit ==
    /\ Init
    /\ ~lifelong /\ IsBuilt(obs)
    /\ lastOff = [a \in Agents |-> -1]
    /\ globalT = 0
    /\ events = <<[event |-> "meta", start |-> cur, goal |-> goals]>>

StreamNext ==
    \/ (PlanCycle \/ CommitStep \/ Hold \/ EndCommit) /\ UNCHANGED streamVars
    \/ Arrive /\ Callback
    \/ (CapReached \/ AllArrived) /\ Finish

StreamSpec == StreamInit /\ [][StreamNext]_<<vars, streamVars>>

-----------------------------------------------------------------------------
Final == events[Len(events)]

\* What a client draws that starts from the positions of the first event and appends
\* the frames of every other one.
Part(e) == CASE e.event = "meta"  -> <<e.start>>
             [] e.event = "cycle" -> e.frames
             [] OTHER             -> <<>>

Drawn(es) ==
    LET drawn[k \in 0 .. Len(es)] == IF k = 0 THEN <<>> ELSE drawn[k - 1] \o Part(es[k])
    IN  drawn[Len(es)]

\* Whoever draws the events ends with exactly the paths of the final event, which
\* comes once and last (rolling.hpp:104-110, solve_stream.cpp:228-276).
EventsTellTheHistory ==
    pc = "done" =>
        /\ Final.event = "done" /\ \A k \in 1 .. Len(events) - 1 : events[k].event # "done"
        /\ Final.steps = Len(Drawn(events)) - 1
        /\ \A a \in Agents :
             Final.paths[a] = [t \in 1 .. Len(Drawn(events)) |-> Drawn(events)[t][a]]

\* The cost shown live grows towards the final cost and never exceeds it: a
\* cost once reported is never taken back.
LiveCostIsALowerBound ==
    \A j, k \in DOMAIN events :
        j < k /\ events[j].event = "cycle" /\ events[k].event # "meta"
            => events[j].cost <= events[k].cost
=============================================================================
