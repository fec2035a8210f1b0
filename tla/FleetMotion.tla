---------------------------- MODULE FleetMotion -----------------------------
(***************************************************************************)
(* What the rolling driver promises about the fleet, with no window, menu, *)
(* annealer or obstacle in it: a trace of joint positions that only ever   *)
(* grows by collision-free joint steps, in which a parked agent never      *)
(* leaves its goal, and in which an agent is parked, or handed another     *)
(* goal, only while the trace's last position has it on the goal it was    *)
(* heading to.                                                             *)
(***************************************************************************)
EXTENDS MapfPlan

VARIABLES
    trace,      \* joint positions so far, oldest first
    goal,       \* the goal each agent is heading to
    parked      \* agents that have arrived for good

fleetVars == <<trace, goal, parked>>

Here == trace[Len(trace)]

OnGoal == {a \in Agents : Here[a] = goal[a]}

\* Moving together from p to q, no two agents meet on a cell or on an edge.
Clear(p, q) ==
    \A i, j \in Agents : i # j => /\ q[i] # q[j]
                                  /\ q[i] = p[j] => q[j] # p[i]

FleetInit ==
    /\ \E start \in [Agents -> Cells] :
         /\ \A i, j \in Agents : i # j => start[i] # start[j]
         /\ trace = <<start>>
    /\ goal \in [Agents -> Cells]
    /\ parked = {}

\* Everybody makes one step, together, without colliding.
Advance ==
    /\ \E next \in [Agents -> Cells] :
         /\ Clear(Here, next)
         /\ \A a \in parked : next[a] = Here[a]
         /\ trace' = Append(trace, next)
    /\ UNCHANGED <<goal, parked>>

\* Agents that stand on their goal stop there for good.
Park ==
    /\ parked' \in SUBSET Agents
    /\ parked \subseteq parked'
    /\ parked' \ parked \subseteq OnGoal
    /\ UNCHANGED <<trace, goal>>

\* Agents that stand on their goal, and have not parked, get another one.
Retask ==
    /\ goal' \in [Agents -> Cells]
    /\ \A a \in Agents : goal'[a] # goal[a] => a \in OnGoal \ parked
    /\ UNCHANGED <<trace, parked>>

FleetNext == Advance \/ Park \/ Retask

FleetSpec == FleetInit /\ [][FleetNext]_fleetVars
=============================================================================
