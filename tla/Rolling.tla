------------------------------ MODULE Rolling -------------------------------
(***************************************************************************)
(* The rolling-horizon driver, simulate_rolling in mapf/rolling.hpp.       *)
(*                                                                         *)
(* Each cycle plans from the current cells (PlanCycle), commits planned    *)
(* steps one at a time until one of them would make agents collide or      *)
(* Execute of them are committed (CommitStep, EndCommit, Hold), and then   *)
(* handles arrivals and reports the cycle to the listener (Arrive).  The   *)
(* annealer that selects one candidate per agent runs under a deadline and *)
(* is never trusted by the driver: here it may select anything.            *)
(***************************************************************************)
EXTENDS PathGen

CONSTANTS
    Window,             \* W: look-ahead of the obstacle prediction
    Execute,            \* E: most steps committed in a cycle
    MaxSteps,           \* max_steps, small here so that runs end
    Tasks,              \* the goals the provider hands out
    Obstacles,          \* identities a scenario's moving obstacles may have
    Scenarios           \* inputs: start and goal per agent, obs, lifelong

\* ObstacleModel: a true trajectory for each obstacle there is, and how well
\* the planner predicts them.
IsObstacleModel(m) ==
    /\ DOMAIN m.paths \subseteq Obstacles
    /\ m \in [paths : [DOMAIN m.paths -> Seq(Cells)],
              perfect : BOOLEAN,        \* perfect_prediction
              radius : Nat]             \* prediction_radius

ASSUME RollingAssumption ==
    /\ Window \in Nat /\ Execute \in Nat /\ MaxSteps \in Nat
    /\ Tasks \subseteq Cells /\ Tasks # {}
    /\ IsFiniteSet(Obstacles)

ASSUME ScenarioAssumption ==
    \A s \in Scenarios :
        /\ s.start \in [Agents -> Cells]
        /\ s.goal \in [Agents -> Cells]
        /\ IsObstacleModel(s.obs) /\ s.lifelong \in BOOLEAN
        /\ \A i, j \in Agents : i # j => s.start[i] # s.start[j]

VARIABLES
    pc,             \* "loop", "commit", "arrive" or "done"
    obs,            \* the obstacle model, an input
    lifelong,       \* is there a goal provider, an input
    history,        \* result.history: joint positions, history[t + 1] at time t
    goalHistory,    \* result.goal_history
    cur,            \* positions at the start of the cycle, then at its end
    goals,          \* goal of each agent
    done,           \* one-shot: the agents that have arrived for good
    steps,          \* result.steps, the global clock
    cycle,          \* replan cycles run
    goalsReached,   \* result.goals_reached
    obstacleHits,   \* result.obstacle_hits
    allDone,        \* result.all_done
    clock,          \* global time at cycle start
    histLenBefore,  \* length of the history at cycle start
    chosen,         \* the selected path of each agent (its first Execute moves)
    prev,           \* positions after the steps committed in this cycle
    committed,      \* how many they are
    frames,         \* every frame the listener has received, oldest first
    report          \* the last cycle's other figures

inputs   == <<obs, lifelong>>
recorded == <<history, goalHistory, obstacleHits>>
plan     == <<clock, histLenBefore, chosen>>
result   == <<goals, done, cycle, goalsReached, frames, report>>
vars     == <<pc, inputs, recorded, cur, steps, allDone, plan, prev, committed, result>>

\* ObstacleModel::at, beyond the trajectory's end its last cell
ObstacleAt(o, t) ==
    IF obs.paths[o] = <<>> THEN <<-1, -1>> ELSE PathAt(obs.paths[o], t)

\* The obstacles there are.
Present == DOMAIN obs.paths

\* detail::obstacle_on
ObstacleOn(t, c) == \E o \in Present : ObstacleAt(o, t) = c

\* detail::predict_occupancy at the relative time k of a cycle that starts at
\* time t: a ball (a square) around the true future cell, or around the present
\* cell with a radius that grows with k.
Predicted(t, k) ==
    LET radius == IF obs.perfect THEN obs.radius ELSE obs.radius + k
        seen   == IF obs.perfect THEN t + k ELSE t
    IN  {c \in Cells : \E o \in Present :
            /\ Distance(c[1], ObstacleAt(o, seen)[1]) <= radius
            /\ Distance(c[2], ObstacleAt(o, seen)[2]) <= radius}

\* No grid at all is passed to the search when there is no obstacle.
Occupancy(t) ==
    IF Present = {} THEN <<>> ELSE [k \in 0 .. Window |-> Predicted(t, k)]

\* An agent without any candidate waits where it is.
Menu(a) ==
    LET found == Candidates(cur[a], goals[a], Occupancy(steps), Execute)
    IN  IF found = {} THEN {<<cur[a]>>} ELSE found

\* Mutant of MeetsObstacle: trading cells with an obstacle is not seen.
MeetsObstacleNoSwap(a, c, t) == ObstacleOn(t, c)

\* The move of agent a from prev to c, at global time t, meets an obstacle.
MeetsObstacle(a, c, t) ==
    \/ ObstacleOn(t, c)
    \/ \E o \in Present : ObstacleAt(o, t) = prev[a] /\ ObstacleAt(o, t - 1) = c

\* The positions the next step of the cycle would lead to: the next cell of
\* each chosen path, except that an agent about to meet an obstacle brakes.
NextStep ==
    [a \in Agents |->
        LET c == PathAt(chosen[a], committed + 1)
        IN  IF MeetsObstacle(a, c, clock + committed + 1) THEN prev[a] ELSE c]

\* Agents an obstacle overlaps in the joint position p at time t.
Overlaps(p, t) == {a \in Agents : ObstacleOn(t, p[a])}

\* Mutant of Record: overlaps are counted only for agents that have left the
\* cell the cycle started on, as if an agent that holds could not be hit.
RecordMovingOnly(p, t) ==
    /\ history' = Append(history, p)
    /\ goalHistory' = Append(goalHistory, goals)
    /\ obstacleHits' = obstacleHits + Cardinality({a \in Overlaps(p, t) : p[a] # cur[a]})

\* One joint position is appended, with the goals of the moment.
Record(p, t) ==
    /\ history' = Append(history, p)
    /\ goalHistory' = Append(goalHistory, goals)
    /\ obstacleHits' = obstacleHits + Cardinality(Overlaps(p, t))

Init ==
    /\ pc = "loop"
    /\ \E s \in Scenarios :
         /\ obs = s.obs /\ lifelong = s.lifelong /\ cur = s.start /\ goals = s.goal
         /\ history = <<s.start>> /\ goalHistory = <<s.goal>> /\ prev = s.start
    /\ done = {} /\ allDone = FALSE
    /\ steps = 0 /\ cycle = 0 /\ goalsReached = 0 /\ obstacleHits = 0
    /\ clock = 0 /\ histLenBefore = 1 /\ committed = 0
    /\ chosen = [a \in Agents |-> <<>>]
    /\ frames = <<>>
    /\ report = [step |-> 0, goalsReached |-> 0, active |-> Cardinality(Agents)]

\* The loop's condition fails: the clock has reached its cap.
CapReached ==
    /\ pc = "loop" /\ steps >= MaxSteps
    /\ pc' = "done"
    /\ UNCHANGED <<inputs, recorded, cur, steps, allDone, plan, prev, committed, result>>

\* One-shot termination: everyone is parked.
AllArrived ==
    /\ pc = "loop" /\ steps < MaxSteps
    /\ ~lifelong /\ done = Agents
    /\ allDone' = TRUE /\ pc' = "done"
    /\ UNCHANGED <<inputs, recorded, cur, steps, plan, prev, committed, result>>

\* Menus, QUBO, annealing and decoding: one candidate per agent.
PlanCycle ==
    /\ pc = "loop" /\ steps < MaxSteps
    /\ lifelong \/ done # Agents
    /\ clock' = steps
    /\ histLenBefore' = Len(history)
    /\ \E pools \in {[a \in Agents |-> Menu(a)]} :
         chosen' \in {f \in [Agents -> UNION {pools[a] : a \in Agents}] :
                         \A a \in Agents : f[a] \in pools[a]}
    /\ prev' = cur /\ committed' = 0
    /\ pc' = "commit"
    /\ UNCHANGED <<inputs, recorded, cur, steps, allDone, result>>

\* Mutant of CanCommit: the step is validated before the brakes are applied.
CanCommitBeforeBraking ==
    committed < Execute /\ StepOk(prev, [a \in Agents |-> PathAt(chosen[a], committed + 1)])

\* Is there another step to commit in this cycle?
CanCommit == committed < Execute /\ StepOk(prev, NextStep)

CommitStep ==
    /\ pc = "commit" /\ CanCommit
    /\ Record(NextStep, clock + committed + 1)
    /\ prev' = NextStep
    /\ committed' = committed + 1
    /\ UNCHANGED <<pc, inputs, cur, steps, allDone, plan, result>>

\* Mutant of Hold: nobody waits, the cycle is simply tried again.
HoldRetry ==
    /\ pc = "commit" /\ ~CanCommit /\ committed = 0
    /\ pc' = "loop"
    /\ UNCHANGED <<inputs, recorded, cur, steps, allDone, plan, prev, committed, result>>

\* Not even the first step could be committed: everyone waits one step.
Hold ==
    /\ pc = "commit" /\ ~CanCommit /\ committed = 0
    /\ Record(cur, clock + 1)
    /\ steps' = steps + 1
    /\ pc' = "arrive"
    /\ UNCHANGED <<inputs, cur, allDone, plan, prev, committed, result>>

\* Mutant of EndCommit: the clock moves by the whole window.
EndCommitFullWindow ==
    /\ pc = "commit" /\ ~CanCommit /\ committed > 0
    /\ cur' = prev
    /\ steps' = steps + Execute
    /\ pc' = "arrive"
    /\ UNCHANGED <<inputs, recorded, allDone, plan, prev, committed, result>>

\* Mutant of EndCommit: the next cycle plans from where this one started.
EndCommitStale ==
    /\ pc = "commit" /\ ~CanCommit /\ committed > 0
    /\ steps' = steps + committed
    /\ pc' = "arrive"
    /\ UNCHANGED <<inputs, recorded, cur, allDone, plan, prev, committed, result>>

\* The agents and the clock move by what was committed.
EndCommit ==
    /\ pc = "commit" /\ ~CanCommit /\ committed > 0
    /\ cur' = prev
    /\ steps' = steps + committed
    /\ pc' = "arrive"
    /\ UNCHANGED <<inputs, recorded, allDone, plan, prev, committed, result>>

\* Mutant of AtGoal: arrival is read off the plan, not off the committed steps.
AtGoalPlanned == {a \in Agents : chosen[a][Len(chosen[a])] = goals[a]}

\* The agents whose position, at the end of the cycle, is their goal.
AtGoal == {a \in Agents : cur[a] = goals[a]}

\* Arrivals: in lifelong mode the provider hands out a new goal, in one-shot
\* mode the agent is done.
Settle ==
    IF lifelong
    THEN /\ goals' \in {g \in [Agents -> Tasks \cup {goals[a] : a \in Agents}] :
                          \A a \in Agents : IF a \in AtGoal THEN g[a] \in Tasks ELSE g[a] = goals[a]}
         /\ goalsReached' = goalsReached + Cardinality(AtGoal)
         /\ UNCHANGED done
    ELSE /\ done' = done \cup AtGoal
         /\ goalsReached' = goalsReached + Cardinality(AtGoal \ done)
         /\ UNCHANGED goals

\* Mutant of Notify: the slice starts one position too early.
NotifyOverlapping ==
    /\ frames' = frames \o SubSeq(history, histLenBefore, Len(history))
    /\ report' = [step |-> steps, goalsReached |-> goalsReached',
                  active |-> Cardinality({a \in Agents : cur[a] # goals'[a]})]

\* Mutant of Notify: the arrivals are counted after the figures are taken.
NotifyEarly ==
    /\ frames' = frames \o SubSeq(history, histLenBefore + 1, Len(history))
    /\ report' = [step |-> steps, goalsReached |-> goalsReached,
                  active |-> Cardinality({a \in Agents : cur[a] # goals[a]})]

\* The listener receives the history's new part and the cycle's figures.
Notify ==
    /\ frames' = frames \o SubSeq(history, histLenBefore + 1, Len(history))
    /\ report' = [step |-> steps, goalsReached |-> goalsReached',
                  active |-> Cardinality({a \in Agents : cur[a] # goals'[a]})]

Arrive ==
    /\ pc = "arrive"
    /\ Settle
    /\ Notify
    /\ cycle' = cycle + 1
    /\ chosen' = [a \in Agents |-> <<>>]    \* the cycle's locals go out of scope
    /\ prev' = cur /\ committed' = 0
    /\ pc' = "loop"
    /\ UNCHANGED <<inputs, recorded, cur, steps, allDone, clock, histLenBefore>>

Next ==
    \/ CapReached \/ AllArrived
    \/ PlanCycle \/ CommitStep \/ Hold \/ EndCommit \/ Arrive

\* One thread runs the loop, and A* and the annealer are bounded: it never
\* stops between two steps.
Spec == Init /\ [][Next]_vars /\ WF_vars(Next)
=============================================================================
