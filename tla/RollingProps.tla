---------------------------- MODULE RollingProps ----------------------------
(***************************************************************************)
(* What the rolling driver must guarantee, and what its documentation says *)
(* it guarantees.                                                          *)
(***************************************************************************)
EXTENDS Rolling

Latest == history[Len(history)]

\* The history as a Plan: one path per agent.
HistoryPlan == [a \in Agents |-> [t \in 1 .. Len(history) |-> history[t][a]]]

\* The variables hold what the program's variables can hold.
TypeOK ==
    /\ pc \in {"loop", "commit", "arrive", "done"}
    /\ IsObstacleModel(obs) /\ lifelong \in BOOLEAN
    /\ history \in Seq([Agents -> Cells]) /\ history # <<>>
    /\ goalHistory \in Seq([Agents -> Cells])
    /\ cur \in [Agents -> Cells] /\ prev \in [Agents -> Cells]
    /\ goals \in [Agents -> Cells]
    /\ done \subseteq Agents
    /\ steps \in Nat /\ cycle \in Nat /\ clock \in Nat /\ histLenBefore \in Nat
    /\ goalsReached \in Nat /\ obstacleHits \in Nat
    /\ allDone \in BOOLEAN
    /\ chosen \in [Agents -> Seq(Cells)]
    /\ pc = "commit" => \A a \in Agents : chosen[a] # <<>>
    /\ committed \in 0 .. Execute
    /\ frames \in Seq([Agents -> Cells])
    /\ report \in [step : Nat, goalsReached : Nat, active : Nat]

\* Moving together from p to q, no two agents meet on a cell or on an edge.
Clear(p, q) ==
    \A i, j \in Agents : i # j => /\ q[i] # q[j]
                                  /\ q[i] = p[j] => q[j] # p[i]

\* No two agents ever share a cell or trade cells, anywhere in the committed
\* history, whatever the annealer selected and whoever braked or held
\* (rolling.hpp:26-32, README.md "The committed history is always
\* collision-free").
AgentsNeverCollide ==
    /\ \A i, j \in Agents : i # j => history[1][i] # history[1][j]
    /\ \A t \in 1 .. Len(history) - 1 : Clear(history[t], history[t + 1])

\* The clock, the history, the goal history and the positions the driver plans
\* from stay in step through commits, partial commits and holds: nothing is
\* recorded twice or skipped, and planning starts where the history ends.
HistoryInStep ==
    /\ Len(goalHistory) = Len(history)
    /\ IF pc = "commit"
       THEN Len(history) = clock + committed + 1 /\ clock = steps /\ Latest = prev
       ELSE Len(history) = steps + 1 /\ Latest = cur

\* A cycle always moves the clock, if only by the step everyone holds, so the
\* loop cannot spin without reaching its cap (rolling.hpp:285-288).
CyclesAdvanceClock ==
    (IF pc = "arrive" THEN cycle + 1 ELSE cycle) <= steps

DoneUnmoved == \A a \in done : a \in done' /\ Latest'[a] = Latest[a]

\* An agent that is done is never moved again, by a plan or by a brake.
DoneStays == [][DoneUnmoved]_vars

\* The figures of a report agree with what the listener can see in the frames:
\* the agents still active are those whose last frame is not on their goal, and
\* every other one has been counted as an arrival.  Only the last cycle may run past
\* the cap, by less than it commits at once, and the driver calls the run done only
\* when nobody is active; arrivals in that cycle come too late to be called done
\* (rolling.hpp:202-207, 290, 330-334).
ReportIsConsistent ==
    pc \in {"loop", "done"} /\ ~lifelong /\ cycle > 0 =>
        /\ report.step = Len(frames)
        /\ report.active = Cardinality({a \in Agents : frames[Len(frames)][a] # goalHistory[1][a]})
        /\ report.active + report.goalsReached = Cardinality(Agents)
        /\ report.step < MaxSteps + Max({1, Execute})
        /\ pc = "done" => IF report.active > 0 THEN ~allDone /\ report.step >= MaxSteps
                          ELSE allDone \/ report.step >= MaxSteps

\* An agent that has reached its goal never steps off it before it gets another
\* one, in lifelong mode at the end of the cycle (rolling.hpp:303-318).
StaysUntilRetasked ==
    \A t \in 1 .. Len(history) - 1 : \A a \in Agents :
        history[t][a] = goalHistory[t][a] /\ goalHistory[t + 1][a] = goalHistory[t][a]
            => history[t + 1][a] = history[t][a]

\* An agent is never moved into an obstacle or through one: it brakes instead,
\* so only an obstacle can cause an overlap (rolling.hpp:243-248).
NeverMovesIntoObstacle ==
    \A t \in 1 .. Len(history) - 1 : \A a \in Agents :
        history[t + 1][a] # history[t][a] =>
            /\ ~ObstacleOn(t, history[t + 1][a])
            /\ \A o \in Present : ~(/\ ObstacleAt(o, t) = history[t][a]
                                    /\ ObstacleAt(o, t - 1) = history[t + 1][a])

\* obstacle_hits is the number of (time, agent) pairs after the start at which
\* the history and the true trajectories overlap, over commits and holds alike.
HitsAreExact ==
    obstacleHits = Cardinality({v \in (1 .. Len(history) - 1) \X Agents :
                                    ObstacleOn(v[1], history[v[1] + 1][v[2]])})

\* With no obstacle the independent verifier accepts every step of the history,
\* and the whole of it, endpoints included, once the driver reports all_done.
VerifierAccepts ==
    Present = {} =>
        \A v \in Verify(history[1], goalHistory[1], HistoryPlan) :
            v[1] = "endpoint" /\ ~allDone

\* The driver implements the abstract fleet: its history is a trace, its goals
\* and its done agents are the fleet's goals and parked agents.
Fleet == INSTANCE FleetMotion WITH trace <- history, goal <- goals, parked <- done
ImplementsFleet == Fleet!FleetSpec

\* The loop ends: at the cap at the latest, since every cycle moves the clock.
Terminates == <>(pc = "done")

-----------------------------------------------------------------------------
(* What the documentation says, and the code does not do.                  *)

\* rolling.hpp:30-31, test_rolling.cpp:3-5: "The produced history therefore
\* always passes the verifier" (no vertex, swap or invalid move).
HistoryPassesVerifier ==
    \A v \in Verify(history[1], goalHistory[1], HistoryPlan) : v[1] = "endpoint"
=============================================================================
