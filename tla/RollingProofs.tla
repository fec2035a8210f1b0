--------------------------- MODULE RollingProofs ----------------------------
(***************************************************************************)
(* Theorems about the rolling driver, for every grid, fleet, window, menu  *)
(* and obstacle trajectory, and about the live solver that runs it.        *)
(***************************************************************************)
EXTENDS SolveStream, BqmTheorems, SequenceTheorems

(* The cycle's locals: a cycle that has committed nothing is still where it *)
(* started, and one that has ended has moved the clock.                     *)
CycleShape ==
    /\ pc = "commit" => histLenBefore = clock + 1 /\ (committed = 0 => prev = cur)
    /\ pc = "arrive" => histLenBefore = clock + 1 /\ clock < steps

(* An agent that is done stands on its goal, and is planned to stay there.  *)
Parking ==
    /\ lifelong => done = {}
    /\ \A a \in done : Latest[a] = goals[a]
    /\ pc = "commit" => \A a \in done : chosen[a] = <<goals[a]>>

IInv == TypeOK /\ HistoryInStep /\ AgentsNeverCollide /\ CycleShape /\ Parking

-----------------------------------------------------------------------------
(* Whatever the searches return, a menu holds non-empty paths of cells: a   *)
(* selected path can always be followed.                                    *)
LEMMA MenuType ==
    ASSUME NEW a \in Agents, cur \in [Agents -> Cells]
    PROVE  Menu(a) \subseteq Seq(Cells) \ {<<>>}
<1>1. ASSUME NEW p \in Candidates(cur[a], goals[a], Occupancy(steps), Execute)
      PROVE  p \in Seq(Cells) \ {<<>>}
  <2>1. PICK reach : p \in PathPrefixes(cur[a], goals[a], Occupancy(steps), Execute, reach)
    BY DEF Candidates
  <2>2. PICK m \in 1 .. Execute + 1 : p \in [1 .. m -> Cells]
    BY <2>1 DEF PathPrefixes
  <2> QED  BY <2>2, RollingAssumption
<1>2. <<cur[a]>> \in Seq(Cells) \ {<<>>}
  OBVIOUS
<1> QED  BY <1>1, <1>2 DEF Menu

(* An agent that stands on its goal has nothing to choose from but staying. *)
LEMMA MenuAtGoal ==
    ASSUME NEW a \in Agents, cur \in [Agents -> Cells], cur[a] = goals[a],
           NEW p \in Menu(a)
    PROVE  p = <<goals[a]>>
<1>1. CASE p \in Candidates(cur[a], goals[a], Occupancy(steps), Execute)
  <2>1. PICK reach : p \in PathPrefixes(cur[a], goals[a], Occupancy(steps), Execute, reach)
    BY <1>1 DEF Candidates
  <2>2. PICK m \in 1 .. Execute + 1 : p \in [1 .. m -> Cells]
    BY <2>1 DEF PathPrefixes
  <2>3. p \in Seq(Cells) /\ Len(p) = m /\ m \in Nat
    BY <2>2, RollingAssumption
  <2>4. p[1] = goals[a] /\ \A k \in 1 .. Len(p) - 1 : p[k] # goals[a]
    BY <2>1 DEF PathPrefixes
  <2>5. Len(p) = 1
    BY <2>2, <2>3, <2>4
  <2> QED  BY <2>3, <2>4, <2>5
<1>2. CASE p = <<cur[a]>>
  BY <1>2
<1> QED  BY <1>1, <1>2 DEF Menu

(* Following a non-empty path of cells leads to a cell at every time.       *)
LEMMA PathAtType ==
    ASSUME NEW S, NEW p \in Seq(S), p # <<>>, NEW t \in Nat
    PROVE  PathAt(p, t) \in S
<1>1. Len(p) \in Nat /\ Len(p) > 0
  OBVIOUS
<1>2. CASE t < Len(p)
  BY <1>1, <1>2 DEF PathAt
<1>3. CASE ~(t < Len(p))
  BY <1>1, <1>3 DEF PathAt
<1> QED  BY <1>2, <1>3

(* The next joint step is a joint position.                                 *)
LEMMA NextStepType ==
    ASSUME TypeOK, pc = "commit"
    PROVE  NextStep \in [Agents -> Cells]
<1>1. \A a \in Agents : PathAt(chosen[a], committed + 1) \in Cells
  <2> TAKE a \in Agents
  <2>1. committed + 1 \in Nat /\ chosen[a] \in Seq(Cells) /\ chosen[a] # <<>>
    BY RollingAssumption DEF TypeOK
  <2> QED  BY <2>1, PathAtType
<1>2. \A a \in Agents : prev[a] \in Cells
  BY DEF TypeOK
<1> QED  BY <1>1, <1>2 DEF NextStep

(* Counting the overlaps of a joint position gives a number.                *)
LEMMA OverlapsType ==
    ASSUME NEW p, NEW t
    PROVE  Cardinality(Overlaps(p, t)) \in Nat
<1>1. Overlaps(p, t) \subseteq Agents
  BY DEF Overlaps
<1> QED  BY <1>1, AgentsAssumption, FS_Subset, FS_CardinalityType

(* A step that records a position extends both histories by one.            *)
LEMMA RecordType ==
    ASSUME TypeOK, NEW p \in [Agents -> Cells], NEW t, Record(p, t)
    PROVE  /\ history' \in Seq([Agents -> Cells]) /\ history' # <<>>
           /\ goalHistory' \in Seq([Agents -> Cells])
           /\ obstacleHits' \in Nat
           /\ Len(history') = Len(history) + 1
           /\ Len(goalHistory') = Len(goalHistory) + 1
           /\ Latest' = p
           /\ \A k \in 1 .. Len(history) : history'[k] = history[k]
<1>1. history \in Seq([Agents -> Cells]) /\ goalHistory \in Seq([Agents -> Cells])
  BY DEF TypeOK
<1>2. obstacleHits' \in Nat
  BY OverlapsType DEF Record, TypeOK
<1>3. history' = Append(history, p)
  BY DEF Record
<1>4. goalHistory' \in Seq([Agents -> Cells]) /\ Len(goalHistory') = Len(goalHistory) + 1
  BY <1>1 DEF Record, TypeOK
<1>5. /\ history' \in Seq([Agents -> Cells]) /\ Len(history') = Len(history) + 1
      /\ history'[Len(history) + 1] = p
      /\ \A k \in 1 .. Len(history) : history'[k] = history[k]
  BY <1>1, <1>3
<1>6. history' # <<>> /\ Latest' = p
  BY <1>1, <1>5 DEF Latest
<1> QED  BY <1>2, <1>4, <1>5, <1>6

-----------------------------------------------------------------------------
(* The invariant holds at the start.                                        *)
LEMMA InitIInv == Init => IInv
<1> SUFFICES ASSUME Init PROVE IInv
  OBVIOUS
<1>1. PICK s \in Scenarios :
        /\ obs = s.obs /\ lifelong = s.lifelong /\ cur = s.start /\ goals = s.goal
        /\ history = <<s.start>> /\ goalHistory = <<s.goal>> /\ prev = s.start
  BY DEF Init
<1>2. /\ s.start \in [Agents -> Cells] /\ s.goal \in [Agents -> Cells]
      /\ IsObstacleModel(s.obs) /\ s.lifelong \in BOOLEAN
      /\ \A i, j \in Agents : i # j => s.start[i] # s.start[j]
  BY ScenarioAssumption
<1>3. Cardinality(Agents) \in Nat
  BY AgentsAssumption, FS_CardinalityType
<1>4. TypeOK
  <2>1. /\ IsObstacleModel(obs) /\ lifelong \in BOOLEAN /\ history \in Seq([Agents -> Cells]) /\ history # <<>>
        /\ goalHistory \in Seq([Agents -> Cells])
        /\ cur \in [Agents -> Cells] /\ prev \in [Agents -> Cells]
        /\ goals \in [Agents -> Cells]
    BY <1>1, <1>2
  <2>2. /\ chosen \in [Agents -> Seq(Cells)] /\ frames \in Seq([Agents -> Cells])
        /\ report \in [step : Nat, goalsReached : Nat, active : Nat]
    BY <1>3 DEF Init
  <2>3. committed \in 0 .. Execute
    BY RollingAssumption DEF Init
  <2> QED  BY <2>1, <2>2, <2>3 DEF Init, TypeOK
<1>5. Len(history) = 1 /\ Len(goalHistory) = 1 /\ Latest = s.start
  BY <1>1 DEF Latest
<1>6. HistoryInStep
  BY <1>1, <1>5 DEF Init, HistoryInStep
<1>7. AgentsNeverCollide
  BY <1>1, <1>2, <1>5 DEF AgentsNeverCollide
<1>8. CycleShape /\ Parking
  BY DEF Init, CycleShape, Parking
<1> QED  BY <1>4, <1>6, <1>7, <1>8 DEF IInv

(* Nothing the invariant speaks about changes in a step that leaves the     *)
(* variables alone.                                                         *)
LEMMA StutterIInv == IInv /\ UNCHANGED vars => IInv'
<1> SUFFICES ASSUME IInv, UNCHANGED vars PROVE IInv'
  OBVIOUS
<1> USE DEF vars, inputs, recorded, plan, result
<1>1. TypeOK'
  BY DEF IInv, TypeOK
<1>2. Latest' = Latest
  BY DEF Latest
<1>3. HistoryInStep'
  BY <1>2 DEF IInv, HistoryInStep
<1>4. AgentsNeverCollide'
  BY DEF IInv, AgentsNeverCollide, Clear
<1>5. CycleShape' /\ Parking'
  BY <1>2 DEF IInv, CycleShape, Parking
<1> QED  BY <1>1, <1>3, <1>4, <1>5 DEF IInv

(* What the driver checks before it commits a step is that nobody meets.    *)
LEMMA StepOkIsClear ==
    ASSUME NEW p, NEW q, StepOk(p, q)
    PROVE  Clear(p, q)
BY DEF StepOk, Swaps, Clear

(* Agents that do not collide in the history do not share a cell in its     *)
(* last position, so everybody can stay there.                              *)
LEMMA LatestApart ==
    ASSUME TypeOK, AgentsNeverCollide
    PROVE  Clear(Latest, Latest)
<1> DEFINE n == Len(history)
<1>1. n \in Nat /\ n >= 1 /\ Latest = history[n]
  BY DEF TypeOK, Latest
<1>2. /\ \A i, j \in Agents : i # j => history[1][i] # history[1][j]
      /\ \A t \in 1 .. n - 1 : Clear(history[t], history[t + 1])
  BY DEF AgentsNeverCollide
<1> HIDE DEF n
<1>3. \A i, j \in Agents : i # j => Latest[i] # Latest[j]
  <2>1. CASE n = 1
    BY <1>1, <1>2, <2>1
  <2>2. CASE n > 1
    <3>1. Clear(history[n - 1], history[(n - 1) + 1])
      BY <1>1, <1>2, <2>2
    <3>2. (n - 1) + 1 = n
      BY <1>1
    <3> QED  BY <1>1, <3>1, <3>2 DEF Clear
  <2> QED  BY <1>1, <2>1, <2>2
<1> QED  BY <1>3 DEF Clear

(* Recording a position nobody collides on the way to keeps the history     *)
(* free of collisions.                                                      *)
LEMMA RecordApart ==
    ASSUME TypeOK, AgentsNeverCollide, NEW p \in [Agents -> Cells], NEW t,
           Record(p, t), Clear(Latest, p)
    PROVE  AgentsNeverCollide'
<1>1. Len(history) \in Nat /\ Len(history) >= 1
  BY DEF TypeOK
<1>2. /\ Len(history') = Len(history) + 1 /\ Latest' = p
      /\ \A k \in 1 .. Len(history) : history'[k] = history[k]
  BY RecordType
<1>3. history'[1] = history[1]
  BY <1>1, <1>2
<1>4. ASSUME NEW k \in 1 .. Len(history') - 1
      PROVE  Clear(history'[k], history'[k + 1])
  <2>1. CASE k < Len(history)
    BY <1>1, <1>2, <2>1 DEF AgentsNeverCollide
  <2>2. CASE k = Len(history)
    BY <1>1, <1>2, <2>2 DEF Latest
  <2> QED  BY <1>1, <1>2, <2>1, <2>2
<1> QED  BY <1>3, <1>4 DEF AgentsNeverCollide, Clear

-----------------------------------------------------------------------------
(* Each action preserves the invariant.                                     *)
LEMMA LoopExitIInv == IInv /\ (CapReached \/ AllArrived) => IInv'
<1> SUFFICES ASSUME IInv, CapReached \/ AllArrived PROVE IInv'
  OBVIOUS
<1> USE DEF inputs, recorded, plan, result
<1>1. /\ pc = "loop" /\ pc' = "done" /\ allDone' \in BOOLEAN
      /\ UNCHANGED <<inputs, recorded, cur, steps, plan, prev, committed, result>>
  BY DEF CapReached, AllArrived, IInv, TypeOK
<1>2. TypeOK'
  BY <1>1 DEF IInv, TypeOK
<1>3. Latest' = Latest
  BY <1>1 DEF Latest
<1>4. HistoryInStep' /\ CycleShape' /\ Parking'
  BY <1>1, <1>3 DEF IInv, HistoryInStep, CycleShape, Parking
<1>5. AgentsNeverCollide'
  BY <1>1 DEF IInv, AgentsNeverCollide, Clear
<1> QED  BY <1>2, <1>4, <1>5 DEF IInv

LEMMA PlanCycleIInv == IInv /\ PlanCycle => IInv'
<1> SUFFICES ASSUME IInv, PlanCycle PROVE IInv'
  OBVIOUS
<1> USE DEF inputs, recorded, result
<1>1. \A a \in Agents : chosen'[a] \in Menu(a)
  BY DEF PlanCycle
<1>2. DOMAIN chosen' = Agents /\ chosen' = [a \in Agents |-> chosen'[a]]
  BY DEF PlanCycle
<1>3. cur \in [Agents -> Cells]
  BY DEF IInv, TypeOK
<1>4. \A a \in Agents : chosen'[a] \in Seq(Cells) /\ chosen'[a] # <<>>
  BY <1>1, <1>3, MenuType
<1>5. chosen' \in [Agents -> Seq(Cells)]
  BY <1>2, <1>4
<1>6. TypeOK'
  <2>1. Len(history) \in Nat /\ committed' \in 0 .. Execute
    BY RollingAssumption DEF IInv, TypeOK, PlanCycle
  <2> QED  BY <1>4, <1>5, <2>1 DEF IInv, TypeOK, PlanCycle
<1>7. Latest' = Latest
  BY DEF PlanCycle, Latest
<1>8. HistoryInStep'
  BY <1>7 DEF IInv, TypeOK, HistoryInStep, PlanCycle
<1>9. AgentsNeverCollide'
  BY DEF IInv, AgentsNeverCollide, Clear, PlanCycle
<1>10. CycleShape'
  BY DEF IInv, TypeOK, HistoryInStep, CycleShape, PlanCycle
<1>11. Parking'
  <2>1. ASSUME NEW a \in done PROVE chosen'[a] = <<goals[a]>>
    <3>1. a \in Agents /\ cur[a] = goals[a]
      BY DEF IInv, TypeOK, HistoryInStep, Parking, PlanCycle
    <3> QED  BY <1>1, <1>3, <3>1, MenuAtGoal
  <2> QED  BY <1>7, <2>1 DEF IInv, Parking, PlanCycle
<1> QED  BY <1>6, <1>8, <1>9, <1>10, <1>11 DEF IInv

(* A done agent has nowhere else to go in the next step, braking or not.    *)
LEMMA DoneNext ==
    ASSUME IInv, pc = "commit", NEW a \in done
    PROVE  NextStep[a] = goals[a]
<1>1. a \in Agents /\ chosen[a] = <<goals[a]>> /\ prev[a] = goals[a]
  BY DEF IInv, TypeOK, HistoryInStep, Parking
<1>2. committed + 1 \in Nat /\ committed + 1 >= 1
  BY RollingAssumption DEF IInv, TypeOK
<1>3. PathAt(chosen[a], committed + 1) = goals[a]
  BY <1>1, <1>2 DEF PathAt
<1> QED  BY <1>1, <1>3 DEF NextStep

LEMMA CommitStepIInv == IInv /\ CommitStep => IInv'
<1> SUFFICES ASSUME IInv, CommitStep PROVE IInv'
  OBVIOUS
<1> USE DEF inputs, plan, result
<1>1. pc = "commit" /\ pc' = "commit" /\ TypeOK
  BY DEF CommitStep, IInv
<1>2. NextStep \in [Agents -> Cells]
  BY <1>1, NextStepType
<1>3. Record(NextStep, clock + committed + 1)
  BY DEF CommitStep
<1>4. /\ history' \in Seq([Agents -> Cells]) /\ history' # <<>>
      /\ goalHistory' \in Seq([Agents -> Cells])
      /\ obstacleHits' \in Nat
      /\ Len(history') = Len(history) + 1
      /\ Len(goalHistory') = Len(goalHistory) + 1
      /\ Latest' = NextStep
  BY <1>1, <1>2, <1>3, RecordType
<1>5. committed' \in 0 .. Execute /\ committed' = committed + 1 /\ committed \in Nat
  BY <1>1, RollingAssumption DEF CommitStep, CanCommit, TypeOK
<1>6. TypeOK'
  BY <1>1, <1>2, <1>4, <1>5 DEF CommitStep, TypeOK
<1>7. HistoryInStep'
  <2>1. Len(history) \in Nat /\ Len(goalHistory) \in Nat /\ clock \in Nat
    BY <1>1 DEF TypeOK
  <2> QED  BY <1>1, <1>4, <1>5, <2>1 DEF IInv, HistoryInStep, CommitStep
<1>8. AgentsNeverCollide'
  <2>1. Clear(Latest, NextStep)
    BY <1>1, StepOkIsClear DEF IInv, HistoryInStep, CommitStep, CanCommit
  <2> QED  BY <1>1, <1>2, <1>3, <2>1, RecordApart DEF IInv
<1>9. CycleShape'
  BY <1>1, <1>5 DEF IInv, CycleShape, CommitStep
<1>10. Parking'
  BY <1>1, <1>4, DoneNext DEF IInv, Parking, CommitStep
<1> QED  BY <1>6, <1>7, <1>8, <1>9, <1>10 DEF IInv

LEMMA HoldIInv == IInv /\ Hold => IInv'
<1> SUFFICES ASSUME IInv, Hold PROVE IInv'
  OBVIOUS
<1> USE DEF inputs, plan, result
<1>1. pc = "commit" /\ pc' = "arrive" /\ committed = 0 /\ TypeOK /\ cur \in [Agents -> Cells]
  BY DEF Hold, IInv, TypeOK
<1>2. Record(cur, clock + 1)
  BY DEF Hold
<1>3. Latest = cur
  BY <1>1 DEF IInv, HistoryInStep, CycleShape
<1>4. /\ history' \in Seq([Agents -> Cells]) /\ history' # <<>>
      /\ goalHistory' \in Seq([Agents -> Cells])
      /\ obstacleHits' \in Nat
      /\ Len(history') = Len(history) + 1
      /\ Len(goalHistory') = Len(goalHistory) + 1
      /\ Latest' = cur
  BY <1>1, <1>2, RecordType
<1>5. TypeOK'
  BY <1>1, <1>4 DEF Hold, TypeOK
<1>6. HistoryInStep'
  <2>1. Len(history) \in Nat /\ Len(goalHistory) \in Nat /\ clock \in Nat
    BY <1>1 DEF TypeOK
  <2> QED  BY <1>1, <1>4, <2>1 DEF IInv, HistoryInStep, Hold
<1>7. AgentsNeverCollide'
  <2>1. Clear(Latest, cur)
    BY <1>1, <1>3, LatestApart DEF IInv
  <2> QED  BY <1>1, <1>2, <2>1, RecordApart DEF IInv
<1>8. CycleShape'
  BY <1>1 DEF IInv, TypeOK, HistoryInStep, CycleShape, Hold
<1>9. Parking'
  BY <1>1, <1>3, <1>4 DEF IInv, Parking, Hold
<1> QED  BY <1>5, <1>6, <1>7, <1>8, <1>9 DEF IInv

LEMMA EndCommitIInv == IInv /\ EndCommit => IInv'
<1> SUFFICES ASSUME IInv, EndCommit PROVE IInv'
  OBVIOUS
<1> USE DEF inputs, recorded, plan, result
<1>1. /\ pc = "commit" /\ pc' = "arrive" /\ committed > 0 /\ TypeOK
      /\ committed \in Nat /\ steps \in Nat /\ clock \in Nat
  BY RollingAssumption DEF EndCommit, IInv, TypeOK
<1>2. TypeOK'
  BY <1>1 DEF EndCommit, TypeOK
<1>3. Latest' = Latest
  BY DEF EndCommit, Latest
<1>4. HistoryInStep' /\ CycleShape'
  BY <1>1, <1>3 DEF IInv, HistoryInStep, CycleShape, EndCommit
<1>5. AgentsNeverCollide'
  BY DEF IInv, AgentsNeverCollide, Clear, EndCommit
<1>6. Parking'
  BY <1>1, <1>3 DEF IInv, Parking, EndCommit
<1> QED  BY <1>2, <1>4, <1>5, <1>6 DEF IInv

(* Arrivals leave goals of cells, a set of done agents and a counter.       *)
LEMMA SettleType ==
    ASSUME TypeOK, Settle
    PROVE  /\ goals' \in [Agents -> Cells] /\ done' \subseteq Agents /\ goalsReached' \in Nat
           /\ Cardinality({a \in Agents : cur[a] # goals'[a]}) \in Nat
<1>1. AtGoal \subseteq Agents
  BY DEF AtGoal
<1>2. Cardinality(AtGoal) \in Nat /\ Cardinality(AtGoal \ done) \in Nat
  <2>1. AtGoal \ done \subseteq Agents
    BY <1>1
  <2> QED  BY <1>1, <2>1, AgentsAssumption, FS_Subset, FS_CardinalityType
<1>3. Cardinality({a \in Agents : cur[a] # goals'[a]}) \in Nat
  <2>1. {a \in Agents : cur[a] # goals'[a]} \subseteq Agents
    OBVIOUS
  <2> QED  BY <2>1, AgentsAssumption, FS_Subset, FS_CardinalityType
<1>4. goals' \in [Agents -> Cells]
  <2>1. CASE lifelong
    <3>1. Tasks \cup {goals[a] : a \in Agents} \subseteq Cells
      BY RollingAssumption DEF TypeOK
    <3>2. goals' \in [Agents -> Tasks \cup {goals[a] : a \in Agents}]
      BY <2>1 DEF Settle
    <3> QED  BY <3>1, <3>2
  <2>2. CASE ~lifelong
    BY <2>2 DEF Settle, TypeOK
  <2> QED  BY <2>1, <2>2
<1>5. done' \subseteq Agents
  BY <1>1 DEF Settle, TypeOK
<1>6. goalsReached' \in Nat
  BY <1>2 DEF Settle, TypeOK
<1> QED  BY <1>3, <1>4, <1>5, <1>6

LEMMA ArriveIInv == IInv /\ Arrive => IInv'
<1> SUFFICES ASSUME IInv, Arrive PROVE IInv'
  OBVIOUS
<1> USE DEF inputs, recorded
<1>1. pc = "arrive" /\ pc' = "loop" /\ TypeOK /\ Settle /\ Notify /\ lifelong' = lifelong
  BY DEF Arrive, IInv
<1>2. /\ goals' \in [Agents -> Cells] /\ done' \subseteq Agents /\ goalsReached' \in Nat
      /\ Cardinality({a \in Agents : cur[a] # goals'[a]}) \in Nat
  BY <1>1, SettleType
<1>3. frames' \in Seq([Agents -> Cells])
  <2>1. history \in Seq([Agents -> Cells]) /\ frames \in Seq([Agents -> Cells])
    BY <1>1 DEF TypeOK
  <2>2. /\ histLenBefore + 1 \in 1 .. Len(history) + 1
        /\ Len(history) \in (histLenBefore + 1) - 1 .. Len(history)
    BY <1>1 DEF IInv, TypeOK, HistoryInStep, CycleShape
  <2>3. SubSeq(history, histLenBefore + 1, Len(history)) \in Seq([Agents -> Cells])
    BY <2>1, <2>2, SubSeqProperties
  <2> QED  BY <1>1, <2>1, <2>3 DEF Notify
<1>4. report' \in [step : Nat, goalsReached : Nat, active : Nat]
  BY <1>1, <1>2 DEF Notify, TypeOK
<1>5. chosen' \in [Agents -> Seq(Cells)] /\ committed' \in 0 .. Execute
  BY RollingAssumption DEF Arrive
<1>6. TypeOK'
  BY <1>1, <1>2, <1>3, <1>4, <1>5 DEF Arrive, TypeOK
<1>7. Latest' = Latest
  BY DEF Arrive, Latest
<1>8. HistoryInStep' /\ CycleShape'
  BY <1>1, <1>7 DEF Arrive, IInv, HistoryInStep, CycleShape
<1>9. AgentsNeverCollide'
  BY DEF IInv, AgentsNeverCollide, Clear, Arrive
<1>10. Parking'
  <2>1. Latest = cur
    BY <1>1 DEF IInv, HistoryInStep
  <2>2. CASE lifelong
    <3>1. done' = {}
      BY <1>1, <2>2 DEF Settle, IInv, Parking
    <3> QED  BY <1>1, <3>1 DEF Parking
  <2>3. CASE ~lifelong
    <3>1. done' = done \cup AtGoal /\ goals' = goals
      BY <1>1, <2>3 DEF Settle
    <3>2. \A a \in AtGoal : Latest[a] = goals[a]
      BY <2>1 DEF AtGoal
    <3> QED  BY <1>1, <1>7, <2>3, <3>1, <3>2 DEF IInv, Parking
  <2> QED  BY <2>2, <2>3
<1> QED  BY <1>6, <1>8, <1>9, <1>10 DEF IInv

(* The inductive invariant: what a cycle's locals are worth between the     *)
(* steps of a cycle is what makes the safety properties inductive.          *)
LEMMA StepIInv == IInv /\ [Next]_vars => IInv'
<1> SUFFICES ASSUME IInv, [Next]_vars PROVE IInv'
  OBVIOUS
<1>1. CASE CapReached \/ AllArrived
  BY <1>1, LoopExitIInv
<1>2. CASE PlanCycle
  BY <1>2, PlanCycleIInv
<1>3. CASE CommitStep
  BY <1>3, CommitStepIInv
<1>4. CASE Hold
  BY <1>4, HoldIInv
<1>5. CASE EndCommit
  BY <1>5, EndCommitIInv
<1>6. CASE Arrive
  BY <1>6, ArriveIInv
<1>7. CASE UNCHANGED vars
  BY <1>7, StutterIInv
<1> QED  BY <1>1, <1>2, <1>3, <1>4, <1>5, <1>6, <1>7 DEF Next

(* The inductive invariant holds, for every grid, fleet and input.          *)
THEOREM Invariance == Spec => []IInv
BY InitIInv, StepIInv, PTL DEF Spec

(* The variables keep their types, for every grid, fleet and input.         *)
THEOREM TypeCorrect == Spec => []TypeOK
BY Invariance, PTL DEF IInv

(* However the annealer selects, and whoever brakes or holds, no two agents *)
(* collide anywhere in the committed history (rolling.hpp:26-32).           *)
THEOREM Safety == Spec => []AgentsNeverCollide
BY Invariance, PTL DEF IInv

(* The clock, both histories and the positions planned from never drift     *)
(* apart (rolling.hpp:271-301).                                             *)
THEOREM InStep == Spec => []HistoryInStep
BY Invariance, PTL DEF IInv

-----------------------------------------------------------------------------
(* An agent that is done is never moved again, neither by a plan nor by a   *)
(* brake: its menu is one path long.                                        *)
LEMMA DoneStaysStep ==
    IInv /\ [Next]_vars => [DoneUnmoved]_vars
<1> SUFFICES ASSUME IInv, Next PROVE DoneUnmoved
  OBVIOUS
<1> USE DEF inputs, recorded, plan, result, DoneUnmoved
<1>1. CASE CapReached \/ AllArrived
  BY <1>1 DEF CapReached, AllArrived, Latest
<1>2. CASE PlanCycle \/ EndCommit
  BY <1>2 DEF PlanCycle, EndCommit, Latest
<1>3. CASE CommitStep
  <2>1. NextStep \in [Agents -> Cells] /\ TypeOK /\ pc = "commit"
    BY <1>3, NextStepType DEF CommitStep, IInv
  <2>2. Latest' = NextStep /\ done' = done
    BY <1>3, <2>1, RecordType DEF CommitStep
  <2> QED  BY <2>1, <2>2, DoneNext DEF IInv, Parking
<1>4. CASE Hold
  <2>1. TypeOK /\ cur \in [Agents -> Cells] /\ Latest = cur
    BY <1>4 DEF Hold, IInv, TypeOK, HistoryInStep, CycleShape
  <2>2. Latest' = cur /\ done' = done
    BY <1>4, <2>1, RecordType DEF Hold
  <2> QED  BY <2>1, <2>2
<1>5. CASE Arrive
  BY <1>5 DEF Arrive, Settle, Latest
<1> QED  BY <1>1, <1>2, <1>3, <1>4, <1>5 DEF Next

(* Once done, an agent stays done and stays where it is (rolling.hpp:193).  *)
THEOREM DoneForGood == Spec => DoneStays
BY Invariance, DoneStaysStep, PTL DEF DoneStays, Spec

(* A cycle always moves the clock (rolling.hpp:285-301).                    *)
THEOREM ClockAdvances == Spec => []CyclesAdvanceClock
<1>1. Init => CyclesAdvanceClock
  BY DEF Init, CyclesAdvanceClock
<1>2. IInv /\ CyclesAdvanceClock /\ [Next]_vars => CyclesAdvanceClock'
  BY DEF IInv, TypeOK, CyclesAdvanceClock, Next, CapReached, AllArrived, PlanCycle, CommitStep, Hold,
         EndCommit, Arrive, vars, result
<1> QED  BY Invariance, <1>1, <1>2, PTL DEF Spec

-----------------------------------------------------------------------------
(* Recording a position that moves nobody into an obstacle, or through one.  *)
LEMMA RecordClearOfObstacles ==
    ASSUME TypeOK, NeverMovesIntoObstacle, NEW p \in [Agents -> Cells], NEW t,
           t = Len(history), Record(p, t), obs' = obs,
           \A a \in Agents : p[a] # Latest[a] =>
               /\ ~ObstacleOn(t, p[a])
               /\ \A o \in Present : ~(ObstacleAt(o, t) = Latest[a] /\ ObstacleAt(o, t - 1) = p[a])
    PROVE  NeverMovesIntoObstacle'
<1>1. Len(history) \in Nat /\ Len(history) >= 1
  BY DEF TypeOK
<1>2. /\ Len(history') = Len(history) + 1 /\ Latest' = p
      /\ \A k \in 1 .. Len(history) : history'[k] = history[k]
  BY RecordType
<1>3. /\ Present' = Present
      /\ \A o, k : ObstacleAt(o, k)' = ObstacleAt(o, k)
      /\ \A k, c : ObstacleOn(k, c)' = ObstacleOn(k, c)
  BY DEF Present, ObstacleAt, ObstacleOn
<1>4. ASSUME NEW k \in 1 .. Len(history') - 1, NEW a \in Agents,
             history'[k + 1][a] # history'[k][a]
      PROVE  /\ ~ObstacleOn(k, history'[k + 1][a])
             /\ \A o \in Present : ~(/\ ObstacleAt(o, k) = history'[k][a]
                                     /\ ObstacleAt(o, k - 1) = history'[k + 1][a])
  <2>1. CASE k < Len(history)
    BY <1>1, <1>2, <1>4, <2>1 DEF NeverMovesIntoObstacle
  <2>2. CASE k = Len(history)
    <3>1. history'[k + 1] = p /\ history'[k] = Latest
      BY <1>1, <1>2, <2>2 DEF Latest
    <3> QED  BY <1>4, <2>2, <3>1
  <2> QED  BY <1>1, <1>2, <2>1, <2>2
<1> QED  BY <1>3, <1>4 DEF NeverMovesIntoObstacle

(* A step of the driver moves nobody into an obstacle: who would meet one   *)
(* brakes, and who holds does not move.                                     *)
LEMMA ObstacleStep == IInv /\ NeverMovesIntoObstacle /\ [Next]_vars => NeverMovesIntoObstacle'
<1> SUFFICES ASSUME IInv, NeverMovesIntoObstacle, [Next]_vars PROVE NeverMovesIntoObstacle'
  OBVIOUS
<1> USE DEF inputs, plan, result
<1>1. CASE CapReached \/ AllArrived \/ PlanCycle \/ EndCommit \/ Arrive \/ UNCHANGED vars
  <2>1. history' = history /\ obs' = obs
    BY <1>1 DEF CapReached, AllArrived, PlanCycle, EndCommit, Arrive, vars, recorded
  <2> QED  BY <2>1 DEF NeverMovesIntoObstacle, ObstacleOn, ObstacleAt, Present
<1>2. CASE CommitStep
  <2>1. /\ pc = "commit" /\ TypeOK /\ Latest = prev /\ obs' = obs
        /\ Record(NextStep, clock + committed + 1)
    BY <1>2 DEF CommitStep, IInv, HistoryInStep
  <2>2. clock + committed + 1 = Len(history)
    BY <2>1 DEF IInv, HistoryInStep
  <2>3. NextStep \in [Agents -> Cells]
    BY <2>1, NextStepType
  <2>4. ASSUME NEW a \in Agents, NextStep[a] # prev[a]
        PROVE  ~MeetsObstacle(a, NextStep[a], clock + committed + 1)
    BY <2>4 DEF NextStep
  <2> QED  BY <2>1, <2>2, <2>3, <2>4, RecordClearOfObstacles DEF MeetsObstacle
<1>3. CASE Hold
  <2>1. /\ TypeOK /\ cur \in [Agents -> Cells] /\ Latest = cur /\ obs' = obs
        /\ Record(cur, clock + 1) /\ clock + 1 = Len(history)
    BY <1>3 DEF Hold, IInv, TypeOK, HistoryInStep, CycleShape
  <2> QED  BY <2>1, RecordClearOfObstacles
<1> QED  BY <1>1, <1>2, <1>3 DEF Next

(* No agent is ever moved into an obstacle or through one, however wrong the *)
(* prediction was that its path was planned with (rolling.hpp:243-266).      *)
THEOREM ObstacleSafety == Spec => []NeverMovesIntoObstacle
<1>1. Init => NeverMovesIntoObstacle
  BY DEF Init, NeverMovesIntoObstacle
<1> QED  BY Invariance, <1>1, ObstacleStep, PTL DEF Spec

-----------------------------------------------------------------------------
(* Only the last cell of a chosen path can be the goal, so an agent that has *)
(* got there, braking or not on its way, has nowhere else to go.             *)
Arriving ==
    pc = "commit" => \A a \in Agents :
        /\ \A k \in 1 .. Len(chosen[a]) - 1 : chosen[a][k] # goals[a]
        /\ prev[a] = goals[a] =>
             \A k \in 0 .. Execute : k > committed => PathAt(chosen[a], k) = goals[a]

(* A menu's paths end where they first meet the goal.                        *)
LEMMA MenuEndsAtGoal ==
    ASSUME NEW a \in Agents, NEW p \in Menu(a)
    PROVE  \A k \in 1 .. Len(p) - 1 : p[k] # goals[a]
<1>1. CASE p \in Candidates(cur[a], goals[a], Occupancy(steps), Execute)
  BY <1>1 DEF Candidates, PathPrefixes
<1>2. CASE p = <<cur[a]>>
  BY <1>2
<1> QED  BY <1>1, <1>2 DEF Menu

(* A path that is at the goal at some time is there from then on.            *)
LEMMA StaysAtGoal ==
    ASSUME NEW S, NEW p \in Seq(S), p # <<>>, NEW g, \A k \in 1 .. Len(p) - 1 : p[k] # g,
           NEW i \in Nat, PathAt(p, i) = g, NEW k \in Nat, k >= i
    PROVE  PathAt(p, k) = g
<1>1. Len(p) \in Nat /\ Len(p) > 0
  OBVIOUS
<1>2. i + 1 >= Len(p) /\ p[Len(p)] = g
  <2>1. CASE i < Len(p)
    <3>1. p[i + 1] = g /\ i + 1 \in 1 .. Len(p)
      BY <1>1, <2>1 DEF PathAt
    <3>2. i + 1 \notin 1 .. Len(p) - 1
      BY <3>1
    <3> QED  BY <1>1, <3>1, <3>2
  <2>2. CASE ~(i < Len(p))
    BY <1>1, <2>2 DEF PathAt
  <2> QED  BY <2>1, <2>2
<1>3. k + 1 >= Len(p)
  BY <1>1, <1>2
<1>4. CASE k < Len(p)
  BY <1>1, <1>2, <1>3, <1>4 DEF PathAt
<1>5. CASE ~(k < Len(p))
  BY <1>2, <1>5 DEF PathAt
<1> QED  BY <1>4, <1>5

(* An agent on its goal stays there in the next step of the cycle.           *)
LEMMA GoalNext ==
    ASSUME TypeOK, Arriving, pc = "commit", committed < Execute,
           NEW a \in Agents, prev[a] = goals[a]
    PROVE  NextStep[a] = goals[a]
<1>1. committed + 1 \in 0 .. Execute /\ committed + 1 > committed
  BY RollingAssumption DEF TypeOK
<1> QED  BY <1>1 DEF Arriving, NextStep

LEMMA ArrivingNext == IInv /\ Arriving /\ [Next]_vars => Arriving'
<1> SUFFICES ASSUME IInv, Arriving, [Next]_vars PROVE Arriving'
  OBVIOUS
<1> USE DEF inputs, recorded, plan, result
<1>1. CASE CapReached \/ AllArrived \/ Hold \/ EndCommit \/ Arrive
  BY <1>1 DEF CapReached, AllArrived, Hold, EndCommit, Arrive, Arriving
<1>2. CASE UNCHANGED vars
  BY <1>2 DEF vars, Arriving, PathAt
<1>3. CASE PlanCycle
  <2>1. /\ \A a \in Agents : chosen'[a] \in Menu(a)
        /\ prev' = cur /\ goals' = goals /\ committed' = 0 /\ cur \in [Agents -> Cells]
    BY <1>3 DEF PlanCycle, IInv, TypeOK
  <2>2. ASSUME NEW a \in Agents
        PROVE  \A k \in 1 .. Len(chosen'[a]) - 1 : chosen'[a][k] # goals[a]
    BY <2>1, MenuEndsAtGoal
  <2>3. ASSUME NEW a \in Agents, cur[a] = goals[a], NEW k \in 0 .. Execute
        PROVE  PathAt(chosen'[a], k) = goals[a]
    <3>1. chosen'[a] = <<goals[a]>>
      BY <2>1, <2>3, MenuAtGoal
    <3>2. k \in Nat
      BY RollingAssumption
    <3> QED  BY <3>1, <3>2 DEF PathAt
  <2> QED  BY <2>1, <2>2, <2>3 DEF Arriving, PathAt
<1>4. CASE CommitStep
  <2>1. /\ pc = "commit" /\ TypeOK /\ committed < Execute /\ committed' = committed + 1
        /\ prev' = NextStep /\ chosen' = chosen /\ goals' = goals
    BY <1>4 DEF CommitStep, CanCommit, IInv
  <2>2. committed \in Nat /\ Execute \in Nat
    BY <2>1, RollingAssumption DEF TypeOK
  <2>3. ASSUME NEW a \in Agents, NextStep[a] = goals[a],
               NEW k \in 0 .. Execute, k > committed + 1
        PROVE  PathAt(chosen[a], k) = goals[a]
    <3>1. CASE prev[a] = goals[a]
      BY <2>1, <2>2, <2>3, <3>1 DEF Arriving
    <3>2. CASE prev[a] # goals[a]
      <4>1. PathAt(chosen[a], committed + 1) = goals[a]
        BY <2>3, <3>2 DEF NextStep
      <4>2. chosen[a] \in Seq(Cells) /\ chosen[a] # <<>>
        BY <2>1 DEF TypeOK
      <4>3. \A j \in 1 .. Len(chosen[a]) - 1 : chosen[a][j] # goals[a]
        BY <2>1 DEF Arriving
      <4>4. committed + 1 \in Nat /\ k \in Nat /\ k >= committed + 1
        BY <2>2, <2>3
      <4> QED  BY <4>1, <4>2, <4>3, <4>4, StaysAtGoal
    <3> QED  BY <3>1, <3>2
  <2> QED  BY <2>1, <2>3 DEF Arriving, PathAt
<1> QED  BY <1>1, <1>2, <1>3, <1>4 DEF Next

(* Recording a position in which agents on an unchanged goal stay.           *)
LEMMA RecordStays ==
    ASSUME TypeOK, HistoryInStep, StaysUntilRetasked, NEW p \in [Agents -> Cells], NEW t,
           Record(p, t), \A a \in Agents : Latest[a] = goals[a] => p[a] = goals[a]
    PROVE  StaysUntilRetasked'
<1>1. Len(history) \in Nat /\ Len(history) >= 1 /\ Len(goalHistory) = Len(history)
  BY DEF TypeOK, HistoryInStep
<1>2. /\ Len(history') = Len(history) + 1 /\ Latest' = p
      /\ \A k \in 1 .. Len(history) : history'[k] = history[k]
  BY RecordType
<1>3. /\ goalHistory'[Len(history) + 1] = goals
      /\ \A k \in 1 .. Len(history) : goalHistory'[k] = goalHistory[k]
  BY <1>1 DEF TypeOK, Record
<1>4. ASSUME NEW k \in 1 .. Len(history') - 1, NEW a \in Agents,
             history'[k][a] = goalHistory'[k][a], goalHistory'[k + 1][a] = goalHistory'[k][a]
      PROVE  history'[k + 1][a] = history'[k][a]
  <2>1. CASE k < Len(history)
    BY <1>1, <1>2, <1>3, <1>4, <2>1 DEF StaysUntilRetasked
  <2>2. CASE k = Len(history)
    <3>1. history'[k + 1] = p /\ history'[k] = Latest /\ goalHistory'[k + 1] = goals
      BY <1>1, <1>2, <1>3, <2>2 DEF Latest
    <3> QED  BY <1>4, <3>1
  <2> QED  BY <1>1, <1>2, <2>1, <2>2
<1> QED  BY <1>4 DEF StaysUntilRetasked

(* An agent that has reached its goal does not step off it before it gets    *)
(* another one, although it is planned for in every cycle and its path, after *)
(* a brake, runs ahead of it (rolling.hpp:223-270, 303-318).                 *)
THEOREM NoLeaving == Spec => []StaysUntilRetasked
<1>1. Init => Arriving /\ StaysUntilRetasked
  BY DEF Init, Arriving, StaysUntilRetasked
<1>2. IInv /\ Arriving /\ StaysUntilRetasked /\ [Next]_vars => StaysUntilRetasked'
  <2> SUFFICES ASSUME IInv, Arriving, StaysUntilRetasked, [Next]_vars PROVE StaysUntilRetasked'
    OBVIOUS
  <2>1. CASE CapReached \/ AllArrived \/ PlanCycle \/ EndCommit \/ Arrive \/ UNCHANGED vars
    <3>1. history' = history /\ goalHistory' = goalHistory
      BY <2>1 DEF CapReached, AllArrived, PlanCycle, EndCommit, Arrive, vars, recorded
    <3> QED  BY <3>1 DEF StaysUntilRetasked
  <2>2. CASE CommitStep
    <3>1. /\ pc = "commit" /\ TypeOK /\ HistoryInStep /\ Latest = prev /\ committed < Execute
          /\ Record(NextStep, clock + committed + 1)
      BY <2>2 DEF CommitStep, CanCommit, IInv, HistoryInStep
    <3> QED  BY <3>1, NextStepType, GoalNext, RecordStays
  <2>3. CASE Hold
    <3>1. /\ TypeOK /\ HistoryInStep /\ cur \in [Agents -> Cells] /\ Latest = cur
          /\ Record(cur, clock + 1)
      BY <2>3 DEF Hold, IInv, TypeOK, HistoryInStep, CycleShape
    <3> QED  BY <3>1, RecordStays
  <2> QED  BY <2>1, <2>2, <2>3 DEF Next
<1> QED  BY Invariance, ArrivingNext, <1>1, <1>2, PTL DEF Spec

-----------------------------------------------------------------------------
(* Every step of the driver is a step of the abstract fleet, or none.       *)
LEMMA FleetStep == IInv /\ [Next]_vars => [Fleet!FleetNext]_(Fleet!fleetVars)
<1> SUFFICES ASSUME IInv, [Next]_vars, ~UNCHANGED <<history, goals, done>>
             PROVE  Fleet!FleetNext
  BY DEF Fleet!fleetVars
<1> USE DEF inputs, recorded, plan, result
<1>1. Fleet!Here = Latest /\ Fleet!OnGoal = {a \in Agents : Latest[a] = goals[a]}
  BY DEF Fleet!Here, Fleet!OnGoal, Latest
<1>2. ASSUME NEW p \in [Agents -> Cells], NEW t, Record(p, t), Clear(Latest, p),
             \A a \in done : p[a] = Latest[a], UNCHANGED <<goals, done>>
      PROVE  Fleet!Advance
  <2>1. history' = Append(history, p)
    BY <1>2 DEF Record
  <2>2. Fleet!Clear(Latest, p)
    BY <1>2 DEF Clear, Fleet!Clear
  <2> QED  BY <1>1, <1>2, <2>1, <2>2 DEF Fleet!Advance, Fleet!Cells, Cells
<1>3. CASE CommitStep
  <2>1. /\ NextStep \in [Agents -> Cells] /\ pc = "commit" /\ Latest = prev
        /\ Clear(prev, NextStep)
    BY <1>3, NextStepType, StepOkIsClear DEF CommitStep, CanCommit, IInv, HistoryInStep
  <2>2. \A a \in done : NextStep[a] = Latest[a]
    BY <2>1, DoneNext DEF IInv, Parking
  <2>3. Fleet!Advance
    BY <1>2, <1>3, <2>1, <2>2 DEF CommitStep
  <2> QED  BY <2>3 DEF Fleet!FleetNext
<1>4. CASE Hold
  <2>1. cur \in [Agents -> Cells] /\ Latest = cur /\ Clear(Latest, cur)
    BY <1>4, LatestApart DEF Hold, IInv, TypeOK, HistoryInStep, CycleShape
  <2>2. Fleet!Advance
    BY <1>2, <1>4, <2>1 DEF Hold
  <2> QED  BY <2>2 DEF Fleet!FleetNext
<1>5. CASE Arrive
  <2>1. TypeOK /\ Settle /\ history' = history /\ AtGoal = Fleet!OnGoal
    BY <1>1, <1>5 DEF Arrive, IInv, HistoryInStep, AtGoal
  <2>2. goals' \in [Agents -> Cells] /\ done' \subseteq Agents
    BY <2>1, SettleType
  <2>3. CASE lifelong
    <3>1. \A a \in Agents : goals'[a] # goals[a] => a \in AtGoal \ done
      BY <2>1, <2>3 DEF Settle, IInv, Parking
    <3>2. done' = done
      BY <2>1, <2>3 DEF Settle
    <3> QED  BY <2>1, <2>2, <3>1, <3>2 DEF Fleet!Retask, Fleet!FleetNext, Fleet!Cells, Cells
  <2>4. CASE ~lifelong
    <3>1. goals' = goals /\ done' = done \cup AtGoal
      BY <2>1, <2>4 DEF Settle
    <3> QED  BY <2>1, <2>2, <3>1 DEF Fleet!Park, Fleet!FleetNext
  <2> QED  BY <2>3, <2>4
<1>6. CASE CapReached \/ AllArrived \/ PlanCycle \/ EndCommit \/ UNCHANGED vars
  BY <1>6 DEF CapReached, AllArrived, PlanCycle, EndCommit, vars
<1> QED  BY <1>3, <1>4, <1>5, <1>6 DEF Next

(* The driver implements the abstract fleet: whatever window, menus, QUBO,  *)
(* annealer and obstacles do, the history is a collision-free trace in      *)
(* which agents park, or get another goal, only on their goal.              *)
THEOREM Refinement == Spec => ImplementsFleet
<1>1. Init => Fleet!FleetInit
  <2> SUFFICES ASSUME Init PROVE Fleet!FleetInit
    OBVIOUS
  <2>1. PICK s \in Scenarios : history = <<s.start>> /\ goals = s.goal
    BY DEF Init
  <2> QED  BY <2>1, ScenarioAssumption DEF Init, Fleet!FleetInit, Fleet!Cells, Cells
<1> QED  BY <1>1, Invariance, FleetStep, PTL DEF ImplementsFleet, Fleet!FleetSpec, Spec

-----------------------------------------------------------------------------
(* The overlaps of the history with the obstacles, one by one.              *)
Hits == {v \in (1 .. Len(history) - 1) \X Agents : ObstacleOn(v[1], history[v[1] + 1][v[2]])}

LEMMA RecordCounts ==
    ASSUME TypeOK, NEW p \in [Agents -> Cells], NEW t, t = Len(history), Record(p, t), obs' = obs
    PROVE  IsFiniteSet(Hits) /\ Cardinality(Hits') = Cardinality(Hits) + Cardinality(Overlaps(p, t))
<1> DEFINE O == Overlaps(p, t)
           N == {t} \X O
<1>1. Len(history) \in Nat /\ Len(history) >= 1
  BY DEF TypeOK
<1>2. /\ Len(history') = Len(history) + 1
      /\ history'[Len(history) + 1] = p
      /\ \A k \in 1 .. Len(history) : history'[k] = history[k]
  BY <1>1, RecordType DEF Latest
<1>3. \A k, c : ObstacleOn(k, c)' = ObstacleOn(k, c)
  BY DEF Present, ObstacleAt, ObstacleOn
<1>4. Hits' = Hits \cup N
  <2>1. ASSUME NEW k \in 1 .. Len(history) - 1, NEW a \in Agents
        PROVE  history'[k + 1][a] = history[k + 1][a]
    <3>1. k + 1 \in 1 .. Len(history)
      BY <1>1
    <3> QED  BY <1>2, <3>1
  <2>2. O = {a \in Agents : ObstacleOn(t, p[a])}
    BY DEF Overlaps
  <2>3. Hits' = {v \in (1 .. Len(history)) \X Agents : ObstacleOn(v[1], history'[v[1] + 1][v[2]])}
    BY <1>1, <1>2, <1>3 DEF Hits
  <2>4. ASSUME NEW v \in (1 .. Len(history)) \X Agents
        PROVE  ObstacleOn(v[1], history'[v[1] + 1][v[2]]) <=> v \in Hits \/ v \in N
    <3>1. v[1] \in 1 .. Len(history) /\ v[2] \in Agents /\ v = <<v[1], v[2]>>
      OBVIOUS
    <3>2. CASE v[1] = t
      <4>1. v \notin Hits
        BY <1>1, <3>2 DEF Hits
      <4>2. history'[v[1] + 1] = p
        BY <1>2, <3>2
      <4>3. v \in N <=> v[2] \in O
        BY <3>1, <3>2
      <4> HIDE DEF N, O
      <4> QED  BY <2>2, <3>1, <3>2, <4>1, <4>2, <4>3
    <3>3. CASE v[1] # t
      <4>1. v[1] \in 1 .. Len(history) - 1
        BY <1>1, <3>1, <3>3
      <4>2. v \notin N
        BY <3>3
      <4>3. history'[v[1] + 1][v[2]] = history[v[1] + 1][v[2]]
        BY <2>1, <3>1, <4>1
      <4>4. v \in Hits <=> ObstacleOn(v[1], history[v[1] + 1][v[2]])
        BY <3>1, <4>1 DEF Hits
      <4> HIDE DEF N
      <4> QED  BY <4>2, <4>3, <4>4
    <3> QED  BY <3>2, <3>3
  <2>5. Hits \subseteq (1 .. Len(history)) \X Agents
    BY <1>1 DEF Hits
  <2>6. N \subseteq (1 .. Len(history)) \X Agents
    BY <1>1, <2>2
  <2> HIDE DEF N
  <2> QED  BY <2>3, <2>4, <2>5, <2>6
<1>5. IsFiniteSet(Hits)
  <2> DEFINE D == 1 .. Len(history) - 1
  <2>1. IsFiniteSet(D)
    BY <1>1, FS_Interval
  <2> HIDE DEF D
  <2>2. IsFiniteSet(D \X Agents)
    BY <2>1, AgentsAssumption, FS_Product
  <2>3. Hits \subseteq D \X Agents
    BY DEF Hits, D
  <2> QED  BY <2>2, <2>3, FS_Subset
<1>6. IsFiniteSet(O) /\ Cardinality(O) \in Nat
  <2>1. O \subseteq Agents
    BY DEF Overlaps
  <2> HIDE DEF O
  <2> QED  BY <2>1, AgentsAssumption, FS_Subset, FS_CardinalityType
<1>7. IsFiniteSet(N) /\ Cardinality(N) = Cardinality(O)
  <2>1. IsFiniteSet({t}) /\ Cardinality({t}) = 1
    BY FS_Singleton
  <2> HIDE DEF O
  <2>2. IsFiniteSet(N) /\ Cardinality(N) = Cardinality({t}) * Cardinality(O)
    BY <1>6, <2>1, FS_Product
  <2> QED  BY <1>6, <2>1, <2>2
<1>8. Hits \cap N = {}
  BY <1>1 DEF Hits
<1> HIDE DEF O, N
<1>9. Cardinality(Hits \cup N) = Cardinality(Hits) + Cardinality(N) - Cardinality(Hits \cap N)
  BY <1>5, <1>7, FS_Union
<1>10. Cardinality(Hits) \in Nat /\ Cardinality({}) = 0
  BY <1>5, FS_CardinalityType, FS_EmptySet
<1>11. Cardinality(Hits') = Cardinality(Hits) + Cardinality(N)
  <2>1. Cardinality(Hits \cap N) = 0
    BY <1>8, <1>10
  <2>2. Cardinality(N) \in Nat
    BY <1>7, FS_CardinalityType
  <2>3. Cardinality(Hits') = Cardinality(Hits \cup N)
    BY <1>4
  <2> QED  BY <1>9, <1>10, <2>1, <2>2, <2>3
<1>12. Cardinality(O) = Cardinality(Overlaps(p, t))
  BY DEF O
<1> QED  BY <1>5, <1>7, <1>11, <1>12

(* obstacle_hits counts each overlap of an agent with an obstacle once, over *)
(* commits and holds alike (rolling.hpp:262-266, 291-296).                   *)
THEOREM ExactHits == Spec => []HitsAreExact
<1>1. HitsAreExact <=> obstacleHits = Cardinality(Hits)
  BY DEF HitsAreExact, Hits
<1>2. Init => HitsAreExact
  <2> SUFFICES ASSUME Init PROVE HitsAreExact
    OBVIOUS
  <2>1. Len(history) = 1 /\ obstacleHits = 0
    BY DEF Init
  <2>2. Hits = {}
    BY <2>1 DEF Hits
  <2> QED  BY <1>1, <2>1, <2>2, FS_EmptySet
<1>3. IInv /\ HitsAreExact /\ [Next]_vars => HitsAreExact'
  <2> SUFFICES ASSUME IInv, HitsAreExact, [Next]_vars PROVE HitsAreExact'
    OBVIOUS
  <2> USE DEF inputs, plan, result
  <2>1. CASE CapReached \/ AllArrived \/ PlanCycle \/ EndCommit \/ Arrive \/ UNCHANGED vars
    <3>1. history' = history /\ obs' = obs /\ obstacleHits' = obstacleHits
      BY <2>1 DEF CapReached, AllArrived, PlanCycle, EndCommit, Arrive, vars, recorded
    <3> QED  BY <3>1 DEF HitsAreExact, ObstacleOn, ObstacleAt, Present
  <2>2. ASSUME NEW p \in [Agents -> Cells], Record(p, Len(history)), obs' = obs
        PROVE  HitsAreExact'
    <3>1. Cardinality(Hits') = Cardinality(Hits) + Cardinality(Overlaps(p, Len(history)))
      BY <2>2, RecordCounts DEF IInv
    <3>2. obstacleHits' = obstacleHits + Cardinality(Overlaps(p, Len(history)))
      BY <2>2 DEF Record
    <3>3. obstacleHits' = Cardinality(Hits')
      BY <1>1, <3>1, <3>2
    <3> QED  BY <3>3 DEF HitsAreExact, Hits
  <2>3. CASE CommitStep
    <3>1. /\ pc = "commit" /\ TypeOK /\ obs' = obs
          /\ Record(NextStep, clock + committed + 1)
      BY <2>3 DEF CommitStep, IInv
    <3>2. clock + committed + 1 = Len(history)
      BY <3>1 DEF IInv, HistoryInStep
    <3>3. NextStep \in [Agents -> Cells]
      BY <3>1, NextStepType
    <3> QED  BY <2>2, <3>1, <3>2, <3>3
  <2>4. CASE Hold
    <3>1. /\ cur \in [Agents -> Cells] /\ obs' = obs
          /\ Record(cur, clock + 1) /\ clock + 1 = Len(history)
      BY <2>4 DEF Hold, IInv, TypeOK, HistoryInStep, CycleShape
    <3> QED  BY <2>2, <3>1
  <2> QED  BY <2>1, <2>3, <2>4 DEF Next
<1> QED  BY Invariance, <1>2, <1>3, PTL DEF Spec

-----------------------------------------------------------------------------
(* Agents start on passable cells, as they do in every benchmark scenario    *)
(* (test_mapf_io.cpp:112-117) and in the instances the demo draws            *)
(* (demo_rolling.cpp:82).  simulate_rolling does not check it, and the       *)
(* verifier looks at the start too.                                          *)
StartsAreFree == \A s \in Scenarios : s.start \in [Agents -> Free]

(* Without obstacles nobody brakes: agents make the moves of their paths, or *)
(* wait, and keep to passable cells.                                         *)
Walking ==
    Present = {} =>
        /\ \A a \in Agents : history[1][a] \in Free
        /\ \A t \in 1 .. Len(history) - 1 : \A a \in Agents :
             history[t + 1][a] \in MovesFrom(history[t][a])
        /\ pc = "commit" => \A a \in Agents :
             /\ \A k \in 1 .. Len(chosen[a]) - 1 : chosen[a][k + 1] \in MovesFrom(chosen[a][k])
             /\ prev[a] = PathAt(chosen[a], committed)

(* A one-shot fleet keeps its goals, and all_done means what it says.        *)
Finished ==
    /\ ~lifelong => goals = goalHistory[1]
    /\ allDone => ~lifelong /\ pc = "done" /\ done = Agents

LEMMA MaxIsLargest ==
    ASSUME NEW S \in SUBSET Int, NEW m \in S, \A x \in S : m >= x
    PROVE  Max(S) = m
<1>1. \A x \in S : (\A y \in S : x >= y) => x = m
  OBVIOUS
<1> QED  BY <1>1 DEF Max

LEMMA WaitingIsLegal ==
    ASSUME NEW c \in Free
    PROVE  c \in MovesFrom(c)
<1>1. Distance(c[1], c[1]) = 0 /\ Distance(c[2], c[2]) = 0
  BY GridAssumption DEF Distance, Free, Cells
<1> QED  BY <1>1 DEF MovesFrom, Manhattan

(* Moving on along a path whose steps are legal is a legal move.             *)
LEMMA FollowIsLegal ==
    ASSUME NEW p \in Seq(Cells), p # <<>>, NEW k \in Nat, PathAt(p, k) \in Free,
           \A j \in 1 .. Len(p) - 1 : p[j + 1] \in MovesFrom(p[j])
    PROVE  PathAt(p, k + 1) \in MovesFrom(PathAt(p, k))
<1>1. Len(p) \in Nat /\ Len(p) > 0
  OBVIOUS
<1>2. CASE k + 1 < Len(p)
  <2>1. PathAt(p, k) = p[k + 1] /\ PathAt(p, k + 1) = p[(k + 1) + 1] /\ k + 1 \in 1 .. Len(p) - 1
    BY <1>1, <1>2 DEF PathAt
  <2> QED  BY <2>1
<1>3. CASE ~(k + 1 < Len(p))
  <2>1. PathAt(p, k + 1) = PathAt(p, k)
    BY <1>1, <1>3 DEF PathAt
  <2> QED  BY <2>1, WaitingIsLegal
<1> QED  BY <1>2, <1>3

(* Menus hold paths of legal moves.                                          *)
LEMMA MenuWalks ==
    ASSUME NEW a \in Agents, NEW p \in Menu(a)
    PROVE  /\ p[1] = cur[a]
           /\ \A k \in 1 .. Len(p) - 1 : p[k + 1] \in MovesFrom(p[k])
<1>1. CASE p \in Candidates(cur[a], goals[a], Occupancy(steps), Execute)
  BY <1>1 DEF Candidates, PathPrefixes
<1>2. CASE p = <<cur[a]>>
  BY <1>2
<1> QED  BY <1>1, <1>2 DEF Menu

(* Where the history ends is a passable cell.                                *)
LEMMA LatestIsFree ==
    ASSUME TypeOK, Walking, Present = {}, NEW a \in Agents
    PROVE  Latest[a] \in Free
<1>1. Len(history) \in Nat /\ Len(history) >= 1
  BY DEF TypeOK
<1>2. CASE Len(history) = 1
  BY <1>2 DEF Latest, Walking
<1>3. CASE Len(history) # 1
  <2> DEFINE n == Len(history) - 1
  <2>1. n \in 1 .. Len(history) - 1 /\ n + 1 = Len(history)
    <3>1. \A m \in Nat : m >= 1 /\ m # 1 => m - 1 \in 1 .. m - 1 /\ (m - 1) + 1 = m
      OBVIOUS
    <3> QED  BY <1>1, <1>3, <3>1
  <2>2. history[n + 1][a] \in MovesFrom(history[n][a])
    BY <2>1 DEF Walking
  <2> QED  BY <2>1, <2>2 DEF Latest, MovesFrom
<1> QED  BY <1>2, <1>3

(* Recording a position every agent can move to.                             *)
LEMMA RecordWalks ==
    ASSUME TypeOK, Walking, Present = {}, NEW p \in [Agents -> Cells], NEW t, Record(p, t),
           \A a \in Agents : p[a] \in MovesFrom(Latest[a])
    PROVE  /\ \A a \in Agents : history'[1][a] \in Free
           /\ \A k \in 1 .. Len(history') - 1 : \A a \in Agents :
                history'[k + 1][a] \in MovesFrom(history'[k][a])
<1>1. Len(history) \in Nat /\ Len(history) >= 1
  BY DEF TypeOK
<1>2. /\ Len(history') = Len(history) + 1 /\ Latest' = p
      /\ \A k \in 1 .. Len(history) : history'[k] = history[k]
  BY RecordType
<1>3. ASSUME NEW k \in 1 .. Len(history') - 1, NEW a \in Agents
      PROVE  history'[k + 1][a] \in MovesFrom(history'[k][a])
  <2>1. CASE k < Len(history)
    <3>1. history'[k] = history[k] /\ history'[k + 1] = history[k + 1] /\ k \in 1 .. Len(history) - 1
      BY <1>1, <1>2, <2>1
    <3> QED  BY <3>1 DEF Walking
  <2>2. CASE k = Len(history)
    <3>1. history'[k + 1] = p /\ history'[k] = Latest
      BY <1>1, <1>2, <2>2 DEF Latest
    <3> QED  BY <3>1
  <2> QED  BY <1>1, <1>2, <2>1, <2>2
<1>4. history'[1] = history[1]
  BY <1>1, <1>2
<1> QED  BY <1>3, <1>4 DEF Walking

LEMMA WalkingNext == IInv /\ Walking /\ [Next]_vars => Walking'
<1> SUFFICES ASSUME IInv, Walking, [Next]_vars, Present' = {} PROVE Walking'
  BY DEF Walking
<1> USE DEF inputs, plan, result
<1>1. obs' = obs
  BY DEF Next, CapReached, AllArrived, PlanCycle, CommitStep, Hold, EndCommit, Arrive, vars
<1>2. Present = {} /\ TypeOK
  BY <1>1 DEF Present, IInv
<1>3. CASE CapReached \/ AllArrived \/ EndCommit \/ Arrive
  <2>1. history' = history /\ pc' # "commit"
    BY <1>3 DEF CapReached, AllArrived, EndCommit, Arrive, recorded
  <2> QED  BY <1>2, <2>1 DEF Walking
<1>4. CASE UNCHANGED vars
  BY <1>2, <1>4 DEF vars, recorded, Walking, PathAt
<1>5. CASE PlanCycle
  <2>1. /\ \A a \in Agents : chosen'[a] \in Menu(a)
        /\ history' = history /\ prev' = cur /\ committed' = 0
    BY <1>5 DEF PlanCycle, recorded
  <2>2. ASSUME NEW a \in Agents
        PROVE  /\ \A k \in 1 .. Len(chosen'[a]) - 1 : chosen'[a][k + 1] \in MovesFrom(chosen'[a][k])
               /\ cur[a] = PathAt(chosen'[a], 0)
    <3>1. chosen'[a] \in Menu(a)
      BY <2>1
    <3>2. chosen'[a][1] = cur[a]
      BY <3>1, MenuWalks
    <3>3. chosen'[a] \in Seq(Cells) /\ chosen'[a] # <<>>
      BY <1>2, <3>1, MenuType DEF TypeOK
    <3>4. PathAt(chosen'[a], 0) = chosen'[a][1]
      BY <3>3 DEF PathAt
    <3> QED  BY <3>1, <3>2, <3>4, MenuWalks
  <2>3. \A a \in Agents : PathAt(chosen[a], committed)' = PathAt(chosen'[a], 0)
    BY <2>1 DEF PathAt
  <2> QED  BY <1>2, <2>1, <2>2, <2>3 DEF Walking
<1>6. CASE CommitStep
  <2>1. /\ pc = "commit" /\ Latest = prev /\ Record(NextStep, clock + committed + 1)
        /\ prev' = NextStep /\ chosen' = chosen /\ committed' = committed + 1
        /\ committed \in Nat
    BY <1>2, <1>6, RollingAssumption DEF CommitStep, IInv, HistoryInStep, TypeOK
  <2>2. NextStep \in [Agents -> Cells]
    BY <1>2, <2>1, NextStepType
  <2>3. \A a \in Agents : NextStep[a] = PathAt(chosen[a], committed + 1)
    BY <1>2 DEF NextStep, MeetsObstacle, ObstacleOn
  <2>4. ASSUME NEW a \in Agents
        PROVE  NextStep[a] \in MovesFrom(Latest[a])
    <3>1. chosen[a] \in Seq(Cells) /\ chosen[a] # <<>>
      BY <1>2, <2>1 DEF TypeOK
    <3>2. /\ Latest[a] = PathAt(chosen[a], committed)
          /\ \A k \in 1 .. Len(chosen[a]) - 1 : chosen[a][k + 1] \in MovesFrom(chosen[a][k])
      BY <1>2, <2>1 DEF Walking
    <3>3. PathAt(chosen[a], committed) \in Free
      BY <1>2, <3>2, LatestIsFree
    <3> QED  BY <2>1, <2>3, <3>1, <3>2, <3>3, FollowIsLegal
  <2>5. \A a \in Agents : PathAt(chosen[a], committed)' = PathAt(chosen[a], committed + 1)
    BY <2>1 DEF PathAt
  <2>6. /\ \A a \in Agents : history'[1][a] \in Free
        /\ \A k \in 1 .. Len(history') - 1 : \A a \in Agents :
             history'[k + 1][a] \in MovesFrom(history'[k][a])
    BY <1>2, <2>1, <2>2, <2>4, RecordWalks
  <2>7. \A a \in Agents : /\ \A k \in 1 .. Len(chosen'[a]) - 1 : chosen'[a][k + 1] \in MovesFrom(chosen'[a][k])
                          /\ prev'[a] = PathAt(chosen[a], committed)'
    BY <1>2, <2>1, <2>3, <2>5 DEF Walking
  <2> QED  BY <2>6, <2>7 DEF Walking
<1>7. CASE Hold
  <2>1. /\ cur \in [Agents -> Cells] /\ Latest = cur /\ Record(cur, clock + 1) /\ pc' # "commit"
    BY <1>7 DEF Hold, IInv, TypeOK, HistoryInStep, CycleShape
  <2>2. \A a \in Agents : cur[a] \in MovesFrom(Latest[a])
    BY <1>2, <2>1, LatestIsFree, WaitingIsLegal
  <2> QED  BY <1>2, <2>1, <2>2, RecordWalks DEF Walking
<1> QED  BY <1>3, <1>4, <1>5, <1>6, <1>7 DEF Next

LEMMA FinishedNext == IInv /\ Finished /\ [Next]_vars => Finished'
<1> SUFFICES ASSUME IInv, Finished, [Next]_vars PROVE Finished'
  OBVIOUS
<1> USE DEF inputs, plan, result
<1>1. Len(goalHistory) \in Nat /\ Len(goalHistory) >= 1 /\ goalHistory \in Seq([Agents -> Cells])
  BY DEF IInv, TypeOK, HistoryInStep
<1>2. goalHistory'[1] = goalHistory[1]
  <2>1. CASE goalHistory' = Append(goalHistory, goals)
    BY <1>1, <2>1
  <2>2. CASE goalHistory' = goalHistory
    BY <2>2
  <2> QED  BY <2>1, <2>2 DEF Next, CapReached, AllArrived, PlanCycle, CommitStep, Hold, EndCommit, Arrive,
                             vars, recorded, Record
<1>3. lifelong' = lifelong
  BY DEF Next, CapReached, AllArrived, PlanCycle, CommitStep, Hold, EndCommit, Arrive, vars
<1>4. ~lifelong => goals' = goals
  BY DEF Next, CapReached, AllArrived, PlanCycle, CommitStep, Hold, EndCommit, Arrive, vars, Settle
<1>5. allDone' => ~lifelong /\ pc' = "done" /\ done' = Agents
  BY DEF Finished, Next, CapReached, AllArrived, PlanCycle, CommitStep, Hold, EndCommit, Arrive, vars
<1> QED  BY <1>2, <1>3, <1>4, <1>5 DEF Finished

(* The history, seen as a plan: every path is as long as the history.        *)
LEMMA HistoryAsPlan ==
    ASSUME TypeOK
    PROVE  /\ \A a \in Agents : /\ Len(HistoryPlan[a]) = Len(history)
                                /\ HistoryPlan[a][Len(history)] = Latest[a]
           /\ \A a \in Agents, t \in 0 .. Len(history) - 1 :
                PathAt(HistoryPlan[a], t) = history[t + 1][a]
           /\ Makespan(HistoryPlan) = Len(history) - 1
<1> DEFINE n == Len(history)
<1>1. n \in Nat /\ n >= 1
  BY DEF TypeOK
<1>2. ASSUME NEW a \in Agents
      PROVE  /\ Len(HistoryPlan[a]) = n /\ DOMAIN HistoryPlan[a] = 1 .. n
             /\ \A t \in 1 .. n : HistoryPlan[a][t] = history[t][a]
  <2>1. HistoryPlan[a] = [t \in 1 .. n |-> history[t][a]]
    BY DEF HistoryPlan
  <2> HIDE DEF n
  <2> QED  BY <1>1, <2>1
<1>3. \A a \in Agents : HistoryPlan[a][n] = Latest[a]
  BY <1>1, <1>2 DEF Latest
<1> HIDE DEF n
<1>4. \A a \in Agents, t \in 0 .. n - 1 : PathAt(HistoryPlan[a], t) = history[t + 1][a]
  BY <1>1, <1>2 DEF PathAt
<1>5. Makespan(HistoryPlan) = n - 1
  <2> DEFINE S == {0} \cup {Len(HistoryPlan[a]) - 1 : a \in Agents}
  <2>1. \A x \in S : x = 0 \/ x = n - 1
    BY <1>2
  <2>2. n - 1 \in S
    BY <1>2, AgentsAssumption
  <2>3. S \in SUBSET Int /\ \A x \in S : n - 1 >= x
    BY <1>1, <2>1
  <2>4. Makespan(HistoryPlan) = Max(S)
    BY DEF Makespan
  <2> HIDE DEF S
  <2> QED  BY <2>2, <2>3, <2>4, MaxIsLargest
<1> QED  BY <1>2, <1>3, <1>4, <1>5 DEF n

(* What the verifier can find in a history of legal moves nobody collides in. *)
LEMMA NothingToObjectTo == IInv /\ Walking /\ Finished => VerifierAccepts
<1> SUFFICES ASSUME IInv, Walking, Finished, Present = {},
                    NEW v \in Verify(history[1], goalHistory[1], HistoryPlan)
             PROVE  v[1] = "endpoint" /\ ~allDone
  BY DEF VerifierAccepts
<1> DEFINE n == Len(history)
           At(a, t) == PathAt(HistoryPlan[a], t)
<1>1. TypeOK /\ n \in Nat /\ n >= 1
  BY DEF IInv, TypeOK
<1>2. /\ \A a \in Agents : Len(HistoryPlan[a]) = n /\ HistoryPlan[a][n] = Latest[a]
      /\ \A a \in Agents, t \in 0 .. n - 1 : At(a, t) = history[t + 1][a]
      /\ Makespan(HistoryPlan) = n - 1
  BY <1>1, HistoryAsPlan
<1>3. \A a \in Agents, t \in 0 .. n - 1 : At(a, t) \in Free
  <2> TAKE a \in Agents, t \in 0 .. n - 1
  <2>1. CASE t = 0
    BY <1>2, <2>1 DEF Walking
  <2>2. CASE t # 0
    <3>1. t \in 1 .. Len(history) - 1
      BY <1>1, <2>2
    <3>2. history[t + 1][a] \in MovesFrom(history[t][a])
      BY <3>1 DEF Walking
    <3> QED  BY <1>2, <3>2 DEF MovesFrom
  <2> QED  BY <2>1, <2>2
<1>4. \A a \in Agents, t \in 1 .. n - 1 : ~(Manhattan(At(a, t - 1), At(a, t)) > 1)
  <2> TAKE a \in Agents, t \in 1 .. n - 1
  <2>1. t - 1 \in 0 .. n - 1 /\ t \in 0 .. n - 1 /\ (t - 1) + 1 = t
    BY <1>1
  <2>2. At(a, t - 1) = history[t][a] /\ At(a, t) = history[t + 1][a]
    BY <1>2, <2>1
  <2>3. history[t + 1][a] \in MovesFrom(history[t][a])
    BY DEF Walking
  <2>4. At(a, t - 1) \in Cells /\ At(a, t) \in Cells
    BY <1>3, <2>1 DEF Free
  <2> HIDE DEF At
  <2>5. Manhattan(At(a, t - 1), At(a, t)) \in Int
    BY <2>4, GridAssumption DEF Cells, Manhattan, Distance
  <2>6. Manhattan(At(a, t - 1), At(a, t)) <= 1
    BY <2>2, <2>3 DEF MovesFrom
  <2> QED  BY <2>5, <2>6
<1>5. \A i, j \in Agents : i # j => \A t \in 1 .. n - 1 :
        /\ history[t + 1][i] # history[t + 1][j]
        /\ history[t + 1][i] = history[t][j] => history[t + 1][j] # history[t][i]
  BY DEF IInv, AgentsNeverCollide, Clear
<1>6. \A i, j \in Agents : i # j => history[1][i] # history[1][j]
  BY DEF IInv, AgentsNeverCollide
<1> HIDE DEF n
<1>7. CASE v \in {<<"endpoint", a, a, 0>> : a \in {b \in Agents :
                At(b, 0) # history[1][b] \/ HistoryPlan[b][Len(HistoryPlan[b])] # goalHistory[1][b]}}
  <2>1. PICK b \in Agents : /\ v = <<"endpoint", b, b, 0>>
                            /\ At(b, 0) # history[1][b] \/ HistoryPlan[b][Len(HistoryPlan[b])] # goalHistory[1][b]
    BY <1>7
  <2>2. At(b, 0) = history[1][b]
    BY <1>1, <1>2
  <2>3. Latest[b] # goalHistory[1][b]
    BY <1>2, <2>1, <2>2
  <2>4. allDone => Latest[b] = goals[b] /\ goals = goalHistory[1]
    BY DEF Finished, IInv, Parking
  <2> QED  BY <2>1, <2>3, <2>4
<1>8. v \notin {<<"move", u[1], u[1], u[2]>> : u \in {w \in Agents \X (0 .. n - 1) :
        /\ w[2] < Len(HistoryPlan[w[1]])
        /\ \/ At(w[1], w[2]) \notin Free
           \/ /\ w[2] > 0
              /\ Manhattan(At(w[1], w[2] - 1), At(w[1], w[2])) > 1}}
  <2>1. ASSUME NEW a \in Agents, NEW t \in 0 .. n - 1
        PROVE  ~(\/ At(a, t) \notin Free
                 \/ t > 0 /\ Manhattan(At(a, t - 1), At(a, t)) > 1)
    <3>1. t > 0 => t \in 1 .. n - 1
      BY <1>1
    <3> HIDE DEF At
    <3> QED  BY <1>3, <1>4, <3>1
  <2> HIDE DEF At
  <2> QED  BY <2>1
<1>9. v \notin {<<"vertex", u[1], u[2], u[3]>> : u \in {w \in Agents \X Agents \X (0 .. n - 1) :
        w[1] # w[2] /\ At(w[1], w[3]) = At(w[2], w[3])}}
  <2>1. ASSUME NEW i \in Agents, NEW j \in Agents, i # j, NEW t \in 0 .. n - 1
        PROVE  At(i, t) # At(j, t)
    <3>1. CASE t = 0
      BY <1>2, <1>6, <2>1, <3>1
    <3>2. CASE t # 0
      <4>1. t \in 1 .. n - 1
        BY <1>1, <3>2
      <4> QED  BY <1>2, <1>5, <2>1, <4>1
    <3> QED  BY <3>1, <3>2
  <2> HIDE DEF At
  <2> QED  BY <2>1
<1>10. v \notin {<<"swap", u[1], u[2], u[3]>> : u \in {w \in Agents \X Agents \X (1 .. n - 1) :
        /\ w[1] # w[2]
        /\ At(w[1], w[3]) # At(w[2], w[3])
        /\ At(w[1], w[3]) = At(w[2], w[3] - 1)
        /\ At(w[2], w[3]) = At(w[1], w[3] - 1)}}
  <2>1. ASSUME NEW i \in Agents, NEW j \in Agents, i # j, NEW t \in 1 .. n - 1
        PROVE  ~(At(i, t) = At(j, t - 1) /\ At(j, t) = At(i, t - 1))
    <3>1. t \in 0 .. n - 1 /\ t - 1 \in 0 .. n - 1 /\ (t - 1) + 1 = t
      BY <1>1
    <3>2. /\ At(i, t) = history[t + 1][i] /\ At(j, t) = history[t + 1][j]
          /\ At(i, t - 1) = history[t][i] /\ At(j, t - 1) = history[t][j]
      BY <1>2, <3>1
    <3> HIDE DEF At
    <3> QED  BY <1>5, <2>1, <3>2
  <2> HIDE DEF At
  <2> QED  BY <2>1
<1> QED  BY <1>2, <1>7, <1>8, <1>9, <1>10 DEF Verify

(* With no obstacle, and agents that start on passable cells, the verifier   *)
(* finds neither a collision nor an illegal move in the committed history,   *)
(* and nothing at all once the driver says all_done (rolling.hpp:26-32,      *)
(* verifier.hpp:44-117).                                                     *)
THEOREM VerifiedHistory ==
    ASSUME StartsAreFree
    PROVE  Spec => []VerifierAccepts
<1>1. Init => Walking /\ Finished
  <2> SUFFICES ASSUME Init PROVE Walking /\ Finished
    OBVIOUS
  <2>1. PICK s \in Scenarios : /\ goals = s.goal /\ history = <<s.start>> /\ goalHistory = <<s.goal>>
    BY DEF Init
  <2>2. s.start \in [Agents -> Free]
    BY StartsAreFree DEF StartsAreFree
  <2> QED  BY <2>1, <2>2 DEF Init, Walking, Finished
<1> QED  BY Invariance, WalkingNext, FinishedNext, NothingToObjectTo, <1>1, PTL DEF Spec

-----------------------------------------------------------------------------
(* What the listener has received, cycle by cycle: the whole history but its *)
(* start, and figures that agree with it.                                    *)
Delivered ==
    /\ Len(frames) = IF pc \in {"loop", "done"} THEN steps ELSE clock
    /\ pc \in {"loop", "done"} /\ steps > 0 => frames[Len(frames)] = cur

(* The figures of the last report.  An agent that is done has been counted   *)
(* once, and after a cycle the agents that are done are those on their goal. *)
Counted ==
    /\ ~lifelong => goalsReached = Cardinality(done)
    /\ pc \in {"loop", "done"} /\ cycle > 0 =>
         /\ report.step = steps
         /\ report.goalsReached = goalsReached
         /\ report.active = Cardinality({a \in Agents : cur[a] # goals[a]})
         /\ ~lifelong => done = {a \in Agents : cur[a] = goals[a]}

(* Every cycle starts before the cap, and commits at most Execute steps.     *)
Capped ==
    /\ pc = "commit" => clock < MaxSteps
    /\ steps < MaxSteps + Max({1, Execute})
    /\ pc = "done" => allDone \/ steps >= MaxSteps

LEMMA CommitLimit == /\ Max({1, Execute}) \in Nat
                     /\ Max({1, Execute}) >= 1 /\ Max({1, Execute}) >= Execute
<1>1. Execute \in Nat
  BY RollingAssumption
<1>2. CASE Execute <= 1
  <2>1. Max({1, Execute}) = 1
    BY <1>1, <1>2, MaxIsLargest
  <2> QED  BY <1>1, <1>2, <2>1
<1>3. CASE ~(Execute <= 1)
  <2>1. Max({1, Execute}) = Execute
    BY <1>1, <1>3, MaxIsLargest
  <2> QED  BY <1>1, <1>3, <2>1
<1> QED  BY <1>2, <1>3

LEMMA CappedNext == IInv /\ Capped /\ [Next]_vars => Capped'
<1> SUFFICES ASSUME IInv, Capped, [Next]_vars PROVE Capped'
  OBVIOUS
<1> USE DEF inputs, plan, result
<1> DEFINE M == Max({1, Execute})
<1>1. M \in Nat /\ M >= 1 /\ M >= Execute
  BY CommitLimit
<1>2. /\ MaxSteps \in Nat /\ steps \in Nat /\ clock \in Nat
      /\ committed \in Nat /\ committed <= Execute /\ Execute \in Nat
      /\ pc = "commit" => clock = steps
  BY RollingAssumption DEF IInv, TypeOK, HistoryInStep
<1>3. /\ pc = "commit" => clock < MaxSteps
      /\ steps < MaxSteps + M
      /\ pc = "done" => allDone \/ steps >= MaxSteps
  BY DEF Capped
<1> HIDE DEF M
<1>4. /\ pc' = "commit" => clock' < MaxSteps
      /\ steps' < MaxSteps + M
      /\ pc' = "done" => allDone' \/ steps' >= MaxSteps
  <2>1. CASE Hold
    <3>1. pc = "commit" /\ pc' = "arrive" /\ steps' = steps + 1
      BY <2>1 DEF Hold
    <3> QED  BY <1>1, <1>2, <1>3, <3>1
  <2>2. CASE EndCommit
    <3>1. pc = "commit" /\ pc' = "arrive" /\ steps' = steps + committed
      BY <2>2 DEF EndCommit
    <3> QED  BY <1>1, <1>2, <1>3, <3>1
  <2>3. CASE CapReached \/ AllArrived
    BY <1>3, <2>3 DEF CapReached, AllArrived
  <2>4. CASE PlanCycle
    BY <1>3, <2>4 DEF PlanCycle
  <2>5. CASE CommitStep
    BY <1>3, <2>5 DEF CommitStep
  <2>6. CASE Arrive
    BY <1>3, <2>6 DEF Arrive
  <2>7. CASE UNCHANGED vars
    BY <1>3, <2>7 DEF vars
  <2> QED  BY <2>1, <2>2, <2>3, <2>4, <2>5, <2>6, <2>7 DEF Next
<1> QED  BY <1>4 DEF Capped, M

LEMMA DeliveredNext == IInv /\ Delivered /\ [Next]_vars => Delivered'
<1> SUFFICES ASSUME IInv, Delivered, [Next]_vars PROVE Delivered'
  OBVIOUS
<1> USE DEF inputs, result
<1>1. CASE CapReached \/ AllArrived
  BY <1>1 DEF CapReached, AllArrived, Delivered, plan
<1>2. CASE PlanCycle
  BY <1>2 DEF PlanCycle, Delivered
<1>3. CASE CommitStep \/ Hold \/ EndCommit
  BY <1>3 DEF CommitStep, Hold, EndCommit, Delivered, plan
<1>4. CASE Arrive
  <2>1. /\ pc = "arrive" /\ pc' = "loop" /\ Notify /\ steps' = steps /\ cur' = cur
        /\ histLenBefore = clock + 1 /\ clock < steps /\ Len(frames) = clock
        /\ Len(history) = steps + 1 /\ Latest = cur
    BY <1>4 DEF Arrive, IInv, CycleShape, HistoryInStep, Delivered
  <2>2. /\ history \in Seq([Agents -> Cells]) /\ frames \in Seq([Agents -> Cells])
        /\ steps \in Nat /\ clock \in Nat
    BY DEF IInv, TypeOK
  <2> DEFINE S == SubSeq(history, histLenBefore + 1, Len(history))
  <2>3. /\ histLenBefore + 1 \in 1 .. Len(history) + 1
        /\ Len(history) \in (histLenBefore + 1) - 1 .. Len(history)
    BY <2>1, <2>2
  <2>4. /\ S \in Seq([Agents -> Cells])
        /\ Len(S) = Len(history) - (histLenBefore + 1) + 1
        /\ \A k \in 1 .. Len(history) - (histLenBefore + 1) + 1 : S[k] = history[(histLenBefore + 1) + k - 1]
    BY <2>2, <2>3, SubSeqProperties
  <2>5. frames' = frames \o S
    BY <2>1 DEF Notify
  <2> HIDE DEF S
  <2>6. Len(S) = steps - clock /\ Len(S) \in 1 .. Len(S)
    BY <2>1, <2>2, <2>4
  <2>7. S[Len(S)] = cur
    <3>1. S[Len(S)] = history[(histLenBefore + 1) + Len(S) - 1]
      BY <2>1, <2>2, <2>4, <2>6
    <3>2. (histLenBefore + 1) + Len(S) - 1 = Len(history)
      BY <2>1, <2>2, <2>6
    <3> QED  BY <2>1, <3>1, <3>2 DEF Latest
  <2>8. Len(frames') = steps /\ frames'[Len(frames')] = S[Len(S)]
    <3>1. Len(frames') = Len(frames) + Len(S)
      BY <2>2, <2>4, <2>5, ConcatProperties
    <3>2. Len(frames') = steps
      BY <2>1, <2>2, <2>6, <3>1
    <3>3. frames'[steps] = S[steps - clock]
      BY <2>1, <2>2, <2>4, <2>5, <2>6, ConcatProperties
    <3> QED  BY <2>6, <3>2, <3>3
  <2> QED  BY <2>1, <2>7, <2>8 DEF Delivered
<1>5. CASE UNCHANGED vars
  BY <1>5 DEF vars, Delivered, plan
<1> QED  BY <1>1, <1>2, <1>3, <1>4, <1>5 DEF Next

LEMMA CountedNext == IInv /\ Counted /\ [Next]_vars => Counted'
<1> SUFFICES ASSUME IInv, Counted, [Next]_vars PROVE Counted'
  OBVIOUS
<1> USE DEF inputs, result
<1>1. CASE CapReached \/ AllArrived
  <2>1. UNCHANGED <<lifelong, goalsReached, done, cycle, report, steps, cur, goals>> /\ pc = "loop"
    BY <1>1 DEF CapReached, AllArrived
  <2> QED  BY <2>1 DEF Counted
<1>2. CASE PlanCycle \/ CommitStep \/ Hold \/ EndCommit
  <2>1. /\ UNCHANGED <<lifelong, goalsReached, done>>
        /\ pc' \notin {"loop", "done"}
    BY <1>2 DEF PlanCycle, CommitStep, Hold, EndCommit
  <2> QED  BY <2>1 DEF Counted
<1>3. CASE Arrive
  <2>1. /\ pc = "arrive" /\ pc' = "loop" /\ TypeOK /\ Settle /\ Notify
        /\ steps' = steps /\ cur' = cur /\ lifelong' = lifelong /\ Latest = cur
    BY <1>3 DEF Arrive, IInv, HistoryInStep
  <2>2. /\ report'.step = steps /\ report'.goalsReached = goalsReached'
        /\ report'.active = Cardinality({a \in Agents : cur[a] # goals'[a]})
    BY <2>1 DEF Notify
  <2>3. CASE lifelong
    BY <2>1, <2>2, <2>3 DEF Counted
  <2>4. CASE ~lifelong
    <3>1. /\ done' = done \cup AtGoal /\ goals' = goals
          /\ goalsReached' = goalsReached + Cardinality(AtGoal \ done)
      BY <2>1, <2>4 DEF Settle
    <3>2. done \subseteq AtGoal
      BY <2>1 DEF IInv, TypeOK, Parking, AtGoal
    <3>3. done' = AtGoal
      BY <3>1, <3>2
    <3>4. IsFiniteSet(AtGoal)
      BY AgentsAssumption, FS_Subset DEF AtGoal
    <3>5. Cardinality(AtGoal) = Cardinality(done) + Cardinality(AtGoal \ done)
      <4>1. IsFiniteSet(done) /\ Cardinality(done) \in Nat /\ Cardinality(AtGoal) \in Nat
        BY <3>2, <3>4, FS_Subset, FS_CardinalityType
      <4>2. Cardinality(AtGoal \ done) = Cardinality(AtGoal) - Cardinality(AtGoal \cap done)
        BY <3>4, FS_Difference
      <4>3. AtGoal \cap done = done
        BY <3>2
      <4> QED  BY <4>1, <4>2, <4>3
    <3>6. goalsReached' = Cardinality(done')
      BY <2>4, <3>1, <3>3, <3>5 DEF Counted
    <3>7. done' = {a \in Agents : cur[a] = goals'[a]}
      BY <3>1, <3>3 DEF AtGoal
    <3> QED  BY <2>1, <2>2, <2>4, <3>6, <3>7 DEF Counted
  <2> QED  BY <2>3, <2>4
<1>4. CASE UNCHANGED vars
  <2>1. UNCHANGED <<pc, lifelong, goalsReached, done, cycle, report, steps, cur, goals>>
    BY <1>4 DEF vars
  <2> QED  BY <2>1 DEF Counted
<1> QED  BY <1>1, <1>2, <1>3, <1>4 DEF Next

(* The agents that are on their goal and those that are not, together.       *)
LEMMA ActiveAndDone ==
    ASSUME NEW A \in SUBSET Agents
    PROVE  /\ Cardinality(A) \in Nat /\ Cardinality(Agents \ A) \in Nat
           /\ Cardinality(Agents \ A) + Cardinality(A) = Cardinality(Agents)
           /\ A = Agents => Cardinality(Agents \ A) = 0
<1>1. /\ IsFiniteSet(A) /\ IsFiniteSet(Agents \ A)
      /\ Cardinality(A) \in Nat /\ Cardinality(Agents \ A) \in Nat /\ Cardinality(Agents) \in Nat
  BY AgentsAssumption, FS_Subset, FS_CardinalityType, FS_Difference
<1>2. Cardinality(Agents \ A) = Cardinality(Agents) - Cardinality(Agents \cap A)
  BY AgentsAssumption, FS_Difference
<1>3. Agents \cap A = A
  OBVIOUS
<1>4. Cardinality(Agents \ A) + Cardinality(A) = Cardinality(Agents)
  <2>1. Cardinality(Agents \cap A) = Cardinality(A)
    BY <1>3
  <2> QED  BY <1>1, <1>2, <2>1
<1>5. ASSUME A = Agents PROVE Cardinality(Agents \ A) = 0
  <2>1. Agents \ A = {}
    BY <1>5
  <2> QED  BY <2>1, FS_EmptySet
<1> QED  BY <1>1, <1>4, <1>5

LEMMA ReportHolds ==
    IInv /\ Finished /\ Capped /\ Delivered /\ Counted /\ CyclesAdvanceClock => ReportIsConsistent
<1> SUFFICES ASSUME IInv, Finished, Capped, Delivered, Counted, CyclesAdvanceClock,
                    pc \in {"loop", "done"}, ~lifelong, cycle > 0
             PROVE  /\ report.step = Len(frames)
                    /\ report.active = Cardinality({a \in Agents : frames[Len(frames)][a] # goalHistory[1][a]})
                    /\ report.active + report.goalsReached = Cardinality(Agents)
                    /\ report.step < MaxSteps + Max({1, Execute})
                    /\ pc = "done" => IF report.active > 0 THEN ~allDone /\ report.step >= MaxSteps
                                      ELSE allDone \/ report.step >= MaxSteps
  BY DEF ReportIsConsistent
<1> DEFINE Active == {a \in Agents : cur[a] # goals[a]}
<1>1. steps \in Nat /\ cycle \in Nat /\ done \subseteq Agents
  BY DEF IInv, TypeOK
<1>2. steps > 0
  BY <1>1 DEF CyclesAdvanceClock
<1>3. report.step = steps /\ Len(frames) = steps /\ frames[Len(frames)] = cur
  BY <1>2 DEF Counted, Delivered
<1>4. goals = goalHistory[1]
  BY DEF Finished
<1>5. /\ report.active = Cardinality(Active) /\ report.goalsReached = Cardinality(done)
      /\ done = {a \in Agents : cur[a] = goals[a]}
  BY DEF Counted
<1>6. Active = Agents \ done
  BY <1>5
<1> HIDE DEF Active
<1>7. /\ Cardinality(done) \in Nat /\ Cardinality(Agents \ done) \in Nat
      /\ Cardinality(Agents \ done) + Cardinality(done) = Cardinality(Agents)
      /\ done = Agents => Cardinality(Agents \ done) = 0
  BY <1>1, ActiveAndDone
<1>8. report.active = Cardinality({a \in Agents : frames[Len(frames)][a] # goalHistory[1][a]})
  BY <1>3, <1>4, <1>5 DEF Active
<1>9. report.active + report.goalsReached = Cardinality(Agents)
  BY <1>5, <1>6, <1>7
<1>10. report.step < MaxSteps + Max({1, Execute})
  BY <1>3 DEF Capped
<1>11. pc = "done" => allDone \/ report.step >= MaxSteps
  BY <1>3 DEF Capped
<1>12. allDone => ~(report.active > 0)
  <2>1. allDone => done = Agents
    BY DEF Finished
  <2>2. done = Agents => report.active = 0
    BY <1>5, <1>6, <1>7
  <2> QED  BY <2>1, <2>2
<1> QED  BY <1>3, <1>8, <1>9, <1>10, <1>11, <1>12

(* What a report says agrees with the frames delivered so far, and the last  *)
(* one with how the run ended: nobody is counted twice or forgotten, and the *)
(* clock passes its cap only within one cycle (rolling.hpp:202-207, 290,     *)
(* 303-334).                                                                 *)
THEOREM ConsistentReports == Spec => []ReportIsConsistent
<1>1. Init => Finished /\ Capped /\ Delivered /\ Counted
  <2> SUFFICES ASSUME Init PROVE Finished /\ Capped /\ Delivered /\ Counted
    OBVIOUS
  <2>1. goals = goalHistory[1]
    BY DEF Init
  <2>2. Capped
    BY CommitLimit, RollingAssumption DEF Init, Capped
  <2>3. Delivered
    BY DEF Init, Delivered
  <2>4. Counted
    BY FS_EmptySet DEF Init, Counted
  <2> QED  BY <2>1, <2>2, <2>3, <2>4 DEF Init, Finished
<1> QED  BY Invariance, ClockAdvances, FinishedNext, CappedNext, DeliveredNext, CountedNext,
            ReportHolds, <1>1, PTL DEF Spec
-----------------------------------------------------------------------------
(* The live solver process: what a client draws from the events.            *)
IsDrawing(g, es, n) ==
    g = [k \in 0 .. n |-> IF k = 0 THEN <<>> ELSE g[k - 1] \o Part(es[k])]

LEMMA DrawnUnfolds ==
    ASSUME NEW es
    PROVE  Drawn(es) = (CHOOSE g : IsDrawing(g, es, Len(es)))[Len(es)]
BY DEF Drawn, IsDrawing

LEMMA DrawingExists ==
    ASSUME NEW es, NEW h \in Nat
    PROVE  \E g : IsDrawing(g, es, h)
<1> DEFINE T == {n \in Nat : \E g : IsDrawing(g, es, n)}
<1>1. 0 \in T
  <2> DEFINE g == [k \in 0 .. 0 |-> <<>>]
  <2>1. IsDrawing(g, es, 0)
    BY DEF IsDrawing
  <2> QED  BY <2>1
<1>2. ASSUME NEW n \in Nat, n \in T PROVE n + 1 \in T
  <2>1. PICK g : IsDrawing(g, es, n)
    BY <1>2
  <2> DEFINE f == [k \in 0 .. n + 1 |-> IF k <= n THEN g[k] ELSE g[n] \o Part(es[n + 1])]
  <2>2. ASSUME NEW k \in 0 .. n + 1
        PROVE  f[k] = IF k = 0 THEN <<>> ELSE f[k - 1] \o Part(es[k])
    <3>1. CASE k <= n
      <4>1. k \in 0 .. n /\ (k # 0 => k - 1 \in 0 .. n /\ f[k - 1] = g[k - 1]) /\ f[k] = g[k]
        BY <3>1
      <4>2. g[k] = IF k = 0 THEN <<>> ELSE g[k - 1] \o Part(es[k])
        BY <2>1, <4>1 DEF IsDrawing
      <4> QED  BY <4>1, <4>2
    <3>2. CASE k = n + 1
      BY <3>2
    <3> QED  BY <3>1, <3>2
  <2>3. IsDrawing(f, es, n + 1)
    <3>1. f = [k \in 0 .. n + 1 |-> IF k = 0 THEN <<>> ELSE f[k - 1] \o Part(es[k])]
      BY <2>2
    <3> HIDE DEF f
    <3> QED  BY <3>1 DEF IsDrawing
  <2> QED  BY <2>3
<1>3. Nat \subseteq T
  <2> HIDE DEF T
  <2> QED  BY <1>1, <1>2, NaturalInduction
<1> QED  BY <1>3

(* Drawings of event lists that agree at the start agree there.             *)
LEMMA DrawingsAgree ==
    ASSUME NEW es, NEW fs, NEW n \in Nat, NEW m \in Nat, n <= m,
           \A k \in 1 .. n : es[k] = fs[k],
           NEW g, IsDrawing(g, es, n), NEW h, IsDrawing(h, fs, m)
    PROVE  g[n] = h[n]
<1> DEFINE T == {k \in Nat : k <= n => g[k] = h[k]}
<1>1. \A k \in 0 .. n : g[k] = IF k = 0 THEN <<>> ELSE g[k - 1] \o Part(es[k])
  BY DEF IsDrawing
<1>2. \A k \in 0 .. m : h[k] = IF k = 0 THEN <<>> ELSE h[k - 1] \o Part(fs[k])
  BY DEF IsDrawing
<1>3. 0 \in T
  BY <1>1, <1>2
<1>4. ASSUME NEW k \in Nat, k \in T PROVE k + 1 \in T
  <2> SUFFICES ASSUME k + 1 <= n PROVE g[k + 1] = h[k + 1]
    OBVIOUS
  <2>1. g[k] = h[k] /\ es[k + 1] = fs[k + 1]
    BY <1>4
  <2>2. k + 1 \in 0 .. n /\ k + 1 \in 0 .. m /\ k + 1 # 0 /\ (k + 1) - 1 = k
    OBVIOUS
  <2>3. g[k + 1] = g[k] \o Part(es[k + 1])
    BY <1>1, <2>2
  <2>4. h[k + 1] = h[k] \o Part(fs[k + 1])
    BY <1>2, <2>2
  <2> QED  BY <2>1, <2>3, <2>4
<1>5. Nat \subseteq T
  <2> HIDE DEF T
  <2> QED  BY <1>3, <1>4, NaturalInduction
<1> QED  BY <1>5

(* One more event adds its part.                                            *)
LEMMA DrawnGrows ==
    ASSUME NEW S, NEW es \in Seq(S), NEW e \in S
    PROVE  Drawn(Append(es, e)) = Drawn(es) \o Part(e)
<1> DEFINE fs == Append(es, e)
           n == Len(es)
<1>1. n \in Nat /\ Len(fs) = n + 1 /\ fs[n + 1] = e /\ \A k \in 1 .. n : es[k] = fs[k]
  OBVIOUS
<1> HIDE DEF fs, n
<1> DEFINE g == CHOOSE g : IsDrawing(g, es, n)
           h == CHOOSE h : IsDrawing(h, fs, n + 1)
<1>2. IsDrawing(g, es, n)
  BY <1>1, DrawingExists
<1>3. IsDrawing(h, fs, n + 1)
  BY <1>1, DrawingExists
<1>4. Drawn(es) = g[n] /\ Drawn(fs) = h[n + 1]
  BY <1>1, DrawnUnfolds DEF n
<1> HIDE DEF g, h
<1>5. g[n] = h[n]
  BY <1>1, <1>2, <1>3, DrawingsAgree
<1>6. h[n + 1] = h[n] \o Part(fs[n + 1])
  <2>1. \A k \in 0 .. n + 1 : h[k] = IF k = 0 THEN <<>> ELSE h[k - 1] \o Part(fs[k])
    BY <1>3 DEF IsDrawing
  <2>2. n + 1 \in 0 .. n + 1 /\ n + 1 # 0 /\ (n + 1) - 1 = n
    BY <1>1
  <2> QED  BY <2>1, <2>2
<1> QED  BY <1>1, <1>4, <1>5, <1>6 DEF fs

-----------------------------------------------------------------------------
(* The events: what they are made of, what is drawn from them at any moment *)
(* of a cycle, and what the running cost is worth.                          *)
StreamEvents ==
    [event : {"meta"}, start : [Agents -> Cells], goal : [Agents -> Cells]]
    \cup [event : {"cycle"}, step : Nat, frames : Seq([Agents -> Cells]), cost : Int]
    \cup [event : {"done"}, success : BOOLEAN, steps : Nat, cost : Int,
          paths : [Agents -> Seq(Cells)]]

Story ==
    /\ events \in Seq(StreamEvents) /\ events # <<>>
    /\ events[1].event = "meta"
    /\ \A k \in 2 .. Len(events) :
         events[k].event = IF pc = "done" /\ k = Len(events) THEN "done" ELSE "cycle"
    /\ pc = "done" => Len(events) > 1 /\ Final.steps = steps /\ Final.paths = HistoryPlan

Picture ==
    Drawn(events) = IF pc \in {"loop", "done"} THEN history ELSE SubSeq(history, 1, histLenBefore)

(* last_off is a time at which the agent was off its goal.                  *)
Seen ==
    /\ globalT = Len(frames) /\ lastOff \in [Agents -> Int]
    /\ \A a \in Agents :
         \/ lastOff[a] = -1
         \/ /\ lastOff[a] + 2 \in 1 .. Len(history)
            /\ history[lastOff[a] + 2][a] # goalHistory[1][a]

Shown ==
    /\ \A k \in 2 .. Len(events) :
         events[k].event = "cycle" => events[k].cost <= CostSoFar(lastOff)
    /\ LiveCostIsALowerBound

StreamInv == IInv /\ Delivered /\ Story /\ Picture /\ Seen /\ Shown

-----------------------------------------------------------------------------
(* Costs.                                                                   *)
LEMMA CostsGrow ==
    ASSUME NEW f \in [Agents -> Int], NEW g \in [Agents -> Int],
           \A a \in Agents : f[a] <= g[a]
    PROVE  CostSoFar(f) \in Int /\ CostSoFar(f) <= CostSoFar(g)
<1> DEFINE F == [a \in Agents |-> f[a] + 1]
           G == [a \in Agents |-> g[a] + 1]
<1>1. DOMAIN F = Agents /\ DOMAIN G = Agents
      /\ \A a \in Agents : F[a] \in Int /\ G[a] \in Int /\ F[a] <= G[a]
  OBVIOUS
<1>2. CostSoFar(f) = SumFunction(F) /\ CostSoFar(g) = SumFunction(G)
  BY DEF CostSoFar
<1> HIDE DEF F, G
<1>3. SumFunction(F) = SumFunctionOnSet(F, Agents) /\ SumFunction(G) = SumFunctionOnSet(G, Agents)
  BY <1>1, SumWhole
<1>4. SumFunctionOnSet(F, Agents) \in Int
  BY <1>1, AgentsAssumption, SumType
<1>5. SumFunctionOnSet(F, Agents) <= SumFunctionOnSet(G, Agents)
  BY <1>1, AgentsAssumption, SumMonotone
<1> QED  BY <1>2, <1>3, <1>4, <1>5

(* sum_of_costs looks at the last time off the goal, waits before it count. *)
LEMMA PathCostBounds ==
    ASSUME NEW S, NEW p \in Seq(S), NEW goal
    PROVE  /\ PathCost(p, goal) \in Nat
           /\ \A t \in 1 .. Len(p) : p[t] # goal => t <= PathCost(p, goal)
<1> DEFINE D == {0} \cup {t \in 1 .. Len(p) : p[t] # goal}
<1>1. Len(p) \in Nat
  OBVIOUS
<1>2. D \subseteq 0 .. Len(p) /\ D # {}
  BY <1>1
<1>3. \A t \in 1 .. Len(p) : p[t] # goal => t \in D
  OBVIOUS
<1>4. PathCost(p, goal) = Max(D)
  BY DEF PathCost
<1> HIDE DEF D
<1>5. IsFiniteSet(D) /\ D \subseteq Int
  <2>1. IsFiniteSet(0 .. Len(p)) /\ 0 .. Len(p) \subseteq Int
    BY <1>1, FS_Interval
  <2> QED  BY <1>2, <2>1, FS_Subset
<1>6. Max(D) \in D /\ \A t \in D : t <= Max(D)
  BY <1>2, <1>5, LargestExists
<1>7. Max(D) \in Nat
  <2>1. Max(D) \in 0 .. Len(p)
    BY <1>2, <1>6
  <2> QED  BY <1>1, <2>1
<1>8. \A t \in 1 .. Len(p) : p[t] # goal => t <= Max(D)
  BY <1>3, <1>6
<1> QED  BY <1>4, <1>7, <1>8

LEMMA LastOffAfterIs ==
    ASSUME NEW a \in Agents, lastOff[a] \in Int, globalT \in Nat, Len(NewFrames) \in Nat
    PROVE  /\ LastOffAfter(a) \in Int /\ lastOff[a] <= LastOffAfter(a)
           /\ \/ LastOffAfter(a) = lastOff[a]
              \/ \E k \in 1 .. Len(NewFrames) :
                   /\ NewFrames[k][a] # goalHistory[1][a]
                   /\ LastOffAfter(a) = globalT + k - 1
<1> DEFINE n == Len(NewFrames)
           K == {i \in 1 .. n : NewFrames[i][a] # goalHistory[1][a]}
           L == {globalT + k - 1 : k \in K}
           D == {lastOff[a]} \cup L
<1>1. LastOffAfter(a) = Max(D)
  BY DEF LastOffAfter
<1> HIDE DEF n
<1>2. n \in Nat
  BY DEF n
<1>3. IsFiniteSet(L) /\ L \subseteq Int
  <2>1. L \subseteq 0 .. globalT + n
    BY <1>2
  <2>2. IsFiniteSet(0 .. globalT + n) /\ 0 .. globalT + n \subseteq Int
    BY <1>2, FS_Interval
  <2> HIDE DEF L
  <2>3. L \subseteq Int
    BY <2>1, <2>2
  <2> QED  BY <2>1, <2>2, <2>3, FS_Subset
<1>4. IsFiniteSet(D) /\ D \subseteq Int /\ D # {}
  <2>1. IsFiniteSet(L \cup {lastOff[a]})
    BY <1>3, FS_AddElement
  <2>2. D = L \cup {lastOff[a]}
    OBVIOUS
  <2>3. D \subseteq Int /\ D # {}
    <3> HIDE DEF L
    <3> QED  BY <1>3
  <2> QED  BY <2>1, <2>2, <2>3
<1>5. Max(D) \in D /\ \A x \in D : x <= Max(D)
  <2> HIDE DEF D
  <2> QED  BY <1>4, LargestExists
<1>6. lastOff[a] <= Max(D)
  BY <1>5
<1>7. Max(D) = lastOff[a] \/ Max(D) \in L
  BY <1>5
<1>8. Max(D) \in L => \E k \in 1 .. n : NewFrames[k][a] # goalHistory[1][a] /\ Max(D) = globalT + k - 1
  <2> HIDE DEF D
  <2> QED  OBVIOUS
<1>9. Max(D) \in Int
  BY <1>4, <1>5
<1> HIDE DEF D, L
<1> QED  BY <1>1, <1>6, <1>7, <1>8, <1>9 DEF n

LEMMA FinalCostBounds ==
    ASSUME TypeOK, Seen
    PROVE  FinalCost \in Int /\ CostSoFar(lastOff) <= FinalCost
<1> DEFINE F == [a \in Agents |-> lastOff[a] + 1]
           G == [a \in Agents |-> PathCost(HistoryPlan[a], goalHistory[1][a])]
<1>1. ASSUME NEW a \in Agents
      PROVE  PathCost(HistoryPlan[a], goalHistory[1][a]) \in Int
             /\ lastOff[a] \in Int /\ lastOff[a] + 1 <= PathCost(HistoryPlan[a], goalHistory[1][a])
  <2> DEFINE p == HistoryPlan[a]
             c == PathCost(p, goalHistory[1][a])
  <2>1. Len(history) \in Nat /\ history \in Seq([Agents -> Cells])
    BY DEF TypeOK
  <2>2. p = [t \in 1 .. Len(history) |-> history[t][a]]
    BY DEF HistoryPlan
  <2>3. p \in Seq(Cells) /\ Len(p) = Len(history) /\ \A t \in 1 .. Len(history) : p[t] = history[t][a]
    BY <2>1, <2>2
  <2> HIDE DEF p
  <2>4. c \in Nat /\ \A t \in 1 .. Len(p) : p[t] # goalHistory[1][a] => t <= c
    BY <2>3, PathCostBounds
  <2> HIDE DEF c
  <2>5. lastOff[a] \in Int
    BY DEF Seen
  <2>6. CASE lastOff[a] = -1
    BY <2>4, <2>6 DEF c, p
  <2>7. CASE lastOff[a] # -1
    <3>1. lastOff[a] + 2 \in 1 .. Len(p) /\ p[lastOff[a] + 2] # goalHistory[1][a]
      BY <2>3, <2>7 DEF Seen
    <3>2. lastOff[a] + 2 <= c
      BY <2>4, <3>1
    <3>3. lastOff[a] + 1 <= c
      BY <2>4, <2>5, <3>2
    <3> QED  BY <2>4, <2>5, <3>3 DEF c, p
  <2> QED  BY <2>6, <2>7
<1>2. DOMAIN F = Agents /\ DOMAIN G = Agents
      /\ \A a \in Agents : F[a] \in Int /\ G[a] \in Int /\ F[a] <= G[a]
  BY <1>1
<1>3. CostSoFar(lastOff) = SumFunction(F) /\ FinalCost = SumFunction(G)
  BY DEF CostSoFar, FinalCost
<1> HIDE DEF F, G
<1>4. SumFunction(F) = SumFunctionOnSet(F, Agents) /\ SumFunction(G) = SumFunctionOnSet(G, Agents)
  BY <1>2, SumWhole
<1>5. SumFunctionOnSet(G, Agents) \in Int
  BY <1>2, AgentsAssumption, SumType
<1>6. SumFunctionOnSet(F, Agents) <= SumFunctionOnSet(G, Agents)
  BY <1>2, AgentsAssumption, SumMonotone
<1> QED  BY <1>3, <1>4, <1>5, <1>6

-----------------------------------------------------------------------------
(* Each step of the process keeps this.                                     *)
LEMMA SamePrefix ==
    ASSUME NEW S, NEW s \in Seq(S), NEW t \in Seq(S), NEW h \in 0 .. Len(s),
           Len(s) <= Len(t), \A k \in 1 .. Len(s) : t[k] = s[k]
    PROVE  SubSeq(t, 1, h) = SubSeq(s, 1, h)
<1>1. h \in Int /\ 1 \in Int /\ h \in Nat /\ Len(s) \in Nat /\ Len(t) \in Nat
  OBVIOUS
<1>2. \A k \in 1 .. h : s[k] \in S /\ t[k] \in S /\ t[k] = s[k]
  BY <1>1
<1> DEFINE u == SubSeq(t, 1, h)
           v == SubSeq(s, 1, h)
<1>3. v \in Seq(S) /\ Len(v) = (IF 1 <= h THEN h - 1 + 1 ELSE 0) /\ \A k \in 1 .. h - 1 + 1 : v[k] = s[1 + k - 1]
  BY <1>1, <1>2, SubSeqProperties
<1>4. u \in Seq(S) /\ Len(u) = (IF 1 <= h THEN h - 1 + 1 ELSE 0) /\ \A k \in 1 .. h - 1 + 1 : u[k] = t[1 + k - 1]
  BY <1>1, <1>2, SubSeqProperties
<1> HIDE DEF u, v
<1>5. Len(u) = h /\ Len(v) = h
  BY <1>1, <1>3, <1>4
<1>6. ASSUME NEW k \in 1 .. Len(u) PROVE u[k] = v[k]
  <2>1. k \in 1 .. h - 1 + 1 /\ k \in 1 .. h /\ 1 + k - 1 = k
    BY <1>1, <1>5
  <2> QED  BY <1>2, <1>3, <1>4, <2>1
<1>7. u = v
  BY <1>3, <1>4, <1>5, <1>6, SeqEqual
<1> QED  BY <1>7 DEF u, v

LEMMA HistoryKept ==
    ASSUME IInv, [Next]_vars
    PROVE  /\ Len(history) \in Nat \ {0} /\ history' \in Seq([Agents -> Cells])
           /\ Len(history) <= Len(history') /\ \A k \in 1 .. Len(history) : history'[k] = history[k]
           /\ goalHistory'[1] = goalHistory[1]
<1> USE DEF inputs, recorded, plan, result
<1>1. /\ history \in Seq([Agents -> Cells]) /\ history # <<>>
      /\ goalHistory \in Seq([Agents -> Cells]) /\ Len(goalHistory) = Len(history)
      /\ history' \in Seq([Agents -> Cells])
  BY StepIInv DEF IInv, TypeOK, HistoryInStep
<1>2. CASE UNCHANGED <<history, goalHistory>>
  BY <1>1, <1>2
<1>3. CASE \E p, t : Record(p, t)
  <2>1. PICK p, t : Record(p, t)
    BY <1>3
  <2>2. history' = Append(history, p) /\ goalHistory' = Append(goalHistory, goals)
    BY <2>1 DEF Record
  <2>3. Len(history) \in Nat \ {0} /\ Len(history') = Len(history) + 1
    BY <1>1, <2>2
  <2>4. \A k \in 1 .. Len(history) : history'[k] = history[k]
    BY <1>1, <2>2
  <2>5. goalHistory'[1] = goalHistory[1]
    BY <1>1, <2>2, <2>3
  <2> QED  BY <1>1, <2>3, <2>4, <2>5
<1>4. UNCHANGED <<history, goalHistory>> \/ \E p, t : Record(p, t)
  BY DEF Next, CapReached, AllArrived, PlanCycle, CommitStep, Hold, EndCommit, Arrive, vars
<1> QED  BY <1>2, <1>3, <1>4

LEMMA StreamStepsDrive ==
    /\ [StreamNext]_<<vars, streamVars>> => [Next]_vars
    /\ StreamInit => Init
BY DEF StreamNext, StreamInit, Next, vars, streamVars, Finish, Callback

LEMMA EventFacts ==
    ASSUME Story
    PROVE  /\ Len(events) \in Nat \ {0} /\ DOMAIN events = 1 .. Len(events)
           /\ \A j \in 1 .. Len(events) : events[j].event = "cycle" => events[j].cost \in Int /\ j > 1
<1>1. events \in Seq(StreamEvents) /\ events # <<>> /\ events[1].event = "meta"
  BY DEF Story
<1>2. Len(events) \in Nat \ {0} /\ DOMAIN events = 1 .. Len(events)
  BY <1>1
<1>3. ASSUME NEW j \in 1 .. Len(events), events[j].event = "cycle"
      PROVE  events[j].cost \in Int /\ j > 1
  <2>1. events[j] \in StreamEvents
    BY <1>1
  <2>2. events[j].cost \in Int
    BY <1>3, <2>1 DEF StreamEvents
  <2>3. j # 1
    BY <1>1, <1>3
  <2> QED  BY <1>2, <2>2, <2>3
<1> QED  BY <1>2, <1>3

(* One more event, whose cost none before it exceeds.                       *)
LEMMA OneMoreEvent ==
    ASSUME Story, Shown, NEW e \in StreamEvents, e.cost \in Int,
           events' = Append(events, e),
           \A j \in 2 .. Len(events) : events[j].event = "cycle" => events[j].cost <= e.cost
    PROVE  /\ Len(events') = Len(events) + 1 /\ events' \in Seq(StreamEvents)
           /\ \A k \in 1 .. Len(events) : events'[k] = events[k]
           /\ events'[Len(events) + 1] = e
           /\ LiveCostIsALowerBound'
<1>1. /\ Len(events) \in Nat \ {0} /\ DOMAIN events = 1 .. Len(events)
      /\ \A j \in 1 .. Len(events) : events[j].event = "cycle" => events[j].cost \in Int /\ j > 1
  BY EventFacts
<1>2. events \in Seq(StreamEvents)
  BY DEF Story
<1>3. /\ Len(events') = Len(events) + 1 /\ events' \in Seq(StreamEvents)
      /\ \A k \in 1 .. Len(events) : events'[k] = events[k]
      /\ events'[Len(events) + 1] = e /\ DOMAIN events' = 1 .. Len(events) + 1
  BY <1>2
<1>4. ASSUME NEW j \in DOMAIN events', NEW k \in DOMAIN events', j < k,
             events'[j].event = "cycle", events'[k].event # "meta"
      PROVE  events'[j].cost <= events'[k].cost
  <2>1. j \in 1 .. Len(events) /\ j \in DOMAIN events /\ events'[j] = events[j]
    BY <1>1, <1>3, <1>4
  <2>2. CASE k = Len(events) + 1
    <3>1. j \in 2 .. Len(events)
      BY <1>1, <1>4, <2>1
    <3> QED  BY <1>3, <1>4, <2>1, <2>2, <3>1
  <2>3. CASE k # Len(events) + 1
    <3>1. k \in DOMAIN events /\ events'[k] = events[k]
      BY <1>1, <1>3, <1>4, <2>3
    <3> QED  BY <1>4, <2>1, <3>1 DEF Shown, LiveCostIsALowerBound
  <2> QED  BY <2>2, <2>3
<1> QED  BY <1>3, <1>4 DEF LiveCostIsALowerBound

(* While a cycle is planned and committed nothing is told.                  *)
LEMMA QuietStep ==
    ASSUME StreamInv, PlanCycle \/ CommitStep \/ Hold \/ EndCommit, UNCHANGED streamVars
    PROVE  StreamInv'
<1> USE DEF inputs, recorded, plan, result
<1>1. [Next]_vars /\ IInv /\ Delivered /\ Story /\ Picture /\ Seen /\ Shown
  BY DEF StreamInv, Next
<1>2. IInv' /\ Delivered'
  BY <1>1, StepIInv, DeliveredNext
<1>3. /\ Len(history) \in Nat \ {0} /\ history' \in Seq([Agents -> Cells])
      /\ Len(history) <= Len(history') /\ \A k \in 1 .. Len(history) : history'[k] = history[k]
      /\ goalHistory'[1] = goalHistory[1]
  BY <1>1, HistoryKept
<1>4. /\ pc \in {"loop", "commit"} /\ pc' \in {"commit", "arrive"} /\ frames' = frames
      /\ events' = events /\ lastOff' = lastOff /\ globalT' = globalT
  BY DEF PlanCycle, CommitStep, Hold, EndCommit, streamVars
<1>5. Story'
  BY <1>1, <1>4 DEF Story
<1>6. Picture'
  <2>1. Drawn(events') = Drawn(events)
    BY <1>4
  <2>2. history \in Seq([Agents -> Cells])
    BY <1>1 DEF IInv, TypeOK
  <2>3. CASE PlanCycle
    <3>1. pc = "loop" /\ history' = history /\ histLenBefore' = Len(history)
      BY <2>3 DEF PlanCycle
    <3>2. SubSeq(history, 1, Len(history)) = history
      BY <2>2, SubSeqFull
    <3> QED  BY <1>1, <1>4, <2>1, <3>1, <3>2 DEF Picture
  <2>4. CASE CommitStep \/ Hold \/ EndCommit
    <3>1. pc = "commit" /\ histLenBefore' = histLenBefore
      BY <2>4 DEF CommitStep, Hold, EndCommit
    <3>2. histLenBefore \in 0 .. Len(history)
      BY <1>1, <1>3, <3>1 DEF IInv, TypeOK, HistoryInStep, CycleShape
    <3>3. SubSeq(history', 1, histLenBefore) = SubSeq(history, 1, histLenBefore)
      BY <1>3, <2>2, <3>2, SamePrefix
    <3> QED  BY <1>1, <1>4, <2>1, <3>1, <3>3 DEF Picture
  <2> QED  BY <2>3, <2>4
<1>7. Seen'
  <2>1. ASSUME NEW a \in Agents, lastOff[a] # -1
        PROVE  /\ lastOff[a] + 2 \in 1 .. Len(history')
               /\ history'[lastOff[a] + 2][a] # goalHistory'[1][a]
    BY <1>1, <1>3, <2>1 DEF Seen
  <2> QED  BY <1>1, <1>4, <2>1 DEF Seen
<1>8. Shown'
  BY <1>1, <1>4 DEF Shown, LiveCostIsALowerBound
<1> QED  BY <1>2, <1>5, <1>6, <1>7, <1>8 DEF StreamInv

(* The callback is handed the part of the history the client has not seen.  *)
LEMMA NewFramesAre ==
    ASSUME IInv, Delivered, Arrive
    PROVE  /\ NewFrames = SubSeq(history, histLenBefore + 1, Len(history))
           /\ NewFrames \in Seq([Agents -> Cells]) /\ Len(NewFrames) = steps - clock
           /\ \A k \in 1 .. Len(NewFrames) : NewFrames[k] = history[histLenBefore + k]
           /\ Len(frames') = Len(frames) + Len(NewFrames)
<1>1. /\ pc = "arrive" /\ Notify
      /\ histLenBefore = clock + 1 /\ clock < steps /\ Len(frames) = clock
      /\ Len(history) = steps + 1
  BY DEF Arrive, IInv, CycleShape, HistoryInStep, Delivered
<1>2. /\ history \in Seq([Agents -> Cells]) /\ frames \in Seq([Agents -> Cells])
      /\ steps \in Nat /\ clock \in Nat
  BY DEF IInv, TypeOK
<1> DEFINE T == SubSeq(history, histLenBefore + 1, Len(history))
           n == steps - clock
<1>3. /\ histLenBefore + 1 \in Int /\ Len(history) \in Int /\ n \in Nat
      /\ \A k \in histLenBefore + 1 .. Len(history) : history[k] \in [Agents -> Cells]
      /\ histLenBefore + 1 <= Len(history)
      /\ Len(history) - (histLenBefore + 1) + 1 = n
  BY <1>1, <1>2
<1>4. /\ T \in Seq([Agents -> Cells])
      /\ Len(T) = Len(history) - (histLenBefore + 1) + 1
      /\ \A k \in 1 .. Len(history) - (histLenBefore + 1) + 1 : T[k] = history[(histLenBefore + 1) + k - 1]
  BY <1>3, SubSeqProperties
<1>5. frames' = frames \o T
  BY <1>1 DEF Notify
<1> HIDE DEF T, n
<1>6. Len(T) = n /\ \A k \in 1 .. n : T[k] = history[histLenBefore + k]
  <2>1. ASSUME NEW k \in 1 .. n PROVE (histLenBefore + 1) + k - 1 = histLenBefore + k
    BY <1>1, <1>2
  <2> QED  BY <1>3, <1>4, <2>1
<1>7. /\ frames' \in Seq([Agents -> Cells]) /\ Len(frames') = clock + n
      /\ \A i \in 1 .. clock + n : frames'[i] = IF i <= clock THEN frames[i] ELSE T[i - clock]
  BY <1>1, <1>2, <1>4, <1>5, <1>6, ConcatProperties
<1>8. NewFrames = T
  <2> DEFINE lo == clock + 1
             hi == clock + n
             N == SubSeq(frames', lo, hi)
  <2>1. NewFrames = N
    BY <1>1, <1>7 DEF NewFrames
  <2>2. lo \in Int /\ hi \in Int /\ hi - lo + 1 = n /\ lo \in Nat /\ lo >= 1 /\ (n > 0 => lo <= hi)
        /\ (n = 0 => ~(lo <= hi))
    BY <1>2, <1>3
  <2>3. \A i \in lo .. hi : frames'[i] \in [Agents -> Cells]
    BY <1>2, <1>3, <1>7
  <2> HIDE DEF lo, hi
  <2>4. /\ N \in Seq([Agents -> Cells])
        /\ Len(N) = IF lo <= hi THEN hi - lo + 1 ELSE 0
        /\ \A i \in 1 .. hi - lo + 1 : N[i] = frames'[lo + i - 1]
    BY <2>2, <2>3, SubSeqProperties
  <2> HIDE DEF N
  <2>5. Len(N) = n
    BY <1>2, <1>3, <2>2, <2>4
  <2>6. ASSUME NEW i \in 1 .. Len(N) PROVE N[i] = T[i]
    <3>1. N[i] = frames'[lo + i - 1]
      BY <2>2, <2>4, <2>5
    <3>2. lo + i - 1 = clock + i /\ clock + i \in 1 .. clock + n /\ ~(clock + i <= clock)
          /\ (clock + i) - clock = i
      BY <1>2, <1>3, <2>5 DEF lo
    <3> QED  BY <1>7, <3>1, <3>2
  <2>7. N = T
    BY <1>4, <1>6, <2>4, <2>5, <2>6, SeqEqual
  <2> QED  BY <2>1, <2>7
<1> QED  BY <1>1, <1>4, <1>6, <1>7, <1>8 DEF T, n

(* The callback at the end of a cycle.                                      *)
LEMMA CallbackStep ==
    ASSUME StreamInv, Arrive, Callback
    PROVE  StreamInv'
<1> USE DEF inputs, recorded, plan, result
<1> DEFINE e == [event |-> "cycle", step |-> steps, frames |-> NewFrames,
                 cost |-> CostSoFar(lastOff')]
           n == Len(NewFrames)
<1>1. [Next]_vars /\ IInv /\ Delivered /\ Story /\ Picture /\ Seen /\ Shown
  BY DEF StreamInv, Next
<1>2. IInv' /\ Delivered'
  BY <1>1, StepIInv, DeliveredNext
<1>3. /\ pc = "arrive" /\ pc' = "loop" /\ history' = history /\ goalHistory' = goalHistory
      /\ steps' = steps
      /\ lastOff' = [a \in Agents |-> LastOffAfter(a)] /\ globalT' = globalT + n
      /\ events' = Append(events, e)
  BY DEF Arrive, Callback
<1>4. /\ steps \in Nat /\ clock \in Nat /\ history \in Seq([Agents -> Cells])
      /\ Len(history) = steps + 1 /\ histLenBefore = clock + 1 /\ clock < steps
      /\ Len(frames) = clock /\ globalT = clock
  BY <1>1, <1>3 DEF IInv, TypeOK, HistoryInStep, CycleShape, Delivered, Seen
<1>5. /\ NewFrames = SubSeq(history, histLenBefore + 1, Len(history))
      /\ NewFrames \in Seq([Agents -> Cells]) /\ n = steps - clock
      /\ \A k \in 1 .. n : NewFrames[k] = history[histLenBefore + k]
      /\ Len(frames') = Len(frames) + n
  BY <1>1, NewFramesAre
<1>6. ASSUME NEW a \in Agents
      PROVE  /\ LastOffAfter(a) \in Int /\ lastOff[a] \in Int /\ lastOff[a] <= LastOffAfter(a)
             /\ \/ LastOffAfter(a) = lastOff[a]
                \/ \E k \in 1 .. n : /\ NewFrames[k][a] # goalHistory[1][a]
                                     /\ LastOffAfter(a) = globalT + k - 1
  <2>1. lastOff[a] \in Int /\ globalT \in Nat /\ n \in Nat
    BY <1>1, <1>4, <1>5 DEF Seen
  <2> QED  BY <2>1, LastOffAfterIs
<1>7. lastOff \in [Agents -> Int] /\ lastOff' \in [Agents -> Int]
      /\ \A a \in Agents : lastOff'[a] = LastOffAfter(a) /\ lastOff[a] <= lastOff'[a]
  BY <1>1, <1>3, <1>6 DEF Seen
<1>8. /\ CostSoFar(lastOff) \in Int /\ CostSoFar(lastOff') \in Int
      /\ CostSoFar(lastOff) <= CostSoFar(lastOff')
  <2>1. \A a \in Agents : lastOff[a] <= lastOff'[a] /\ lastOff'[a] <= lastOff'[a]
    BY <1>7
  <2>2. CostSoFar(lastOff) \in Int /\ CostSoFar(lastOff) <= CostSoFar(lastOff')
    BY <1>7, <2>1, CostsGrow
  <2>3. CostSoFar(lastOff') \in Int
    BY <1>7, <2>1, CostsGrow
  <2> QED  BY <2>2, <2>3
<1>9. e \in StreamEvents /\ e.event = "cycle" /\ e.cost = CostSoFar(lastOff') /\ e.frames = NewFrames
  BY <1>4, <1>5, <1>8 DEF StreamEvents
<1> HIDE DEF e, n
<1>10. /\ Len(events) \in Nat \ {0}
       /\ \A j \in 1 .. Len(events) : events[j].event = "cycle" => events[j].cost \in Int /\ j > 1
  BY <1>1, EventFacts
<1>11. /\ Len(events') = Len(events) + 1 /\ events' \in Seq(StreamEvents)
       /\ \A k \in 1 .. Len(events) : events'[k] = events[k]
       /\ events'[Len(events) + 1] = e
       /\ LiveCostIsALowerBound'
  <2>1. ASSUME NEW j \in 2 .. Len(events), events[j].event = "cycle" PROVE events[j].cost <= e.cost
    <3>1. events[j].cost <= CostSoFar(lastOff) /\ events[j].cost \in Int
      BY <1>1, <1>10, <2>1 DEF Shown
    <3> QED  BY <1>8, <1>9, <3>1
  <2>2. e.cost \in Int
    BY <1>8, <1>9
  <2> QED  BY <1>1, <1>3, <1>9, <2>1, <2>2, OneMoreEvent
<1>12. Story'
  <2>1. events' # <<>> /\ events'[1] = events[1]
    BY <1>10, <1>11
  <2>2. ASSUME NEW k \in 2 .. Len(events') PROVE events'[k].event = "cycle"
    <3>1. CASE k = Len(events) + 1
      BY <1>9, <1>11, <3>1
    <3>2. CASE k # Len(events) + 1
      <4>1. k \in 2 .. Len(events) /\ events'[k] = events[k]
        BY <1>10, <1>11, <3>2
      <4> QED  BY <1>1, <1>3, <4>1 DEF Story
    <3> QED  BY <3>1, <3>2
  <2> QED  BY <1>1, <1>3, <1>11, <2>1, <2>2 DEF Story
<1>13. Picture'
  <2>1. Drawn(events') = Drawn(events) \o Part(e)
    BY <1>1, <1>3, <1>9, DrawnGrows DEF Story
  <2>2. Part(e) = NewFrames
    BY <1>9 DEF Part
  <2>3. Drawn(events) = SubSeq(history, 1, histLenBefore)
    BY <1>1, <1>3 DEF Picture
  <2>4. /\ 1 \in 1 .. Len(history) + 1 /\ histLenBefore \in 1 - 1 .. Len(history)
        /\ Len(history) \in histLenBefore .. Len(history)
    BY <1>4
  <2>5. SubSeq(history, 1, histLenBefore) \o SubSeq(history, histLenBefore + 1, Len(history))
          = SubSeq(history, 1, Len(history))
    BY <1>4, <2>4, ConcatAdjacentSubSeq
  <2>6. SubSeq(history, 1, Len(history)) = history
    BY <1>4, SubSeqFull
  <2>7. Drawn(events') = history
    BY <1>5, <2>1, <2>2, <2>3, <2>5, <2>6
  <2> QED  BY <1>3, <2>7 DEF Picture
<1>14. Seen'
  <2>1. ASSUME NEW a \in Agents
        PROVE  \/ lastOff'[a] = -1
               \/ /\ lastOff'[a] + 2 \in 1 .. Len(history)
                  /\ history[lastOff'[a] + 2][a] # goalHistory[1][a]
    <3>1. CASE lastOff'[a] = lastOff[a]
      BY <1>1, <3>1 DEF Seen
    <3>2. CASE lastOff'[a] # lastOff[a]
      <4>1. PICK k \in 1 .. n : /\ NewFrames[k][a] # goalHistory[1][a]
                                /\ lastOff'[a] = globalT + k - 1
        BY <1>6, <1>7, <3>2
      <4>2. lastOff'[a] + 2 = histLenBefore + k /\ histLenBefore + k \in 1 .. Len(history)
        BY <1>4, <1>5, <4>1
      <4>3. NewFrames[k] = history[histLenBefore + k]
        BY <1>5
      <4> QED  BY <4>1, <4>2, <4>3
    <3> QED  BY <3>1, <3>2
  <2>2. globalT' = Len(frames')
    BY <1>3, <1>4, <1>5
  <2> QED  BY <1>3, <1>7, <2>1, <2>2 DEF Seen
<1>15. Shown'
  <2>1. ASSUME NEW k \in 2 .. Len(events'), events'[k].event = "cycle"
        PROVE  events'[k].cost <= CostSoFar(lastOff')
    <3>1. CASE k = Len(events) + 1
      BY <1>8, <1>9, <1>11, <3>1
    <3>2. CASE k # Len(events) + 1
      <4>1. k \in 2 .. Len(events) /\ events'[k] = events[k] /\ k \in 1 .. Len(events)
        BY <1>10, <1>11, <3>2
      <4>2. events[k].cost <= CostSoFar(lastOff) /\ events[k].cost \in Int
        BY <1>1, <1>10, <2>1, <4>1 DEF Shown
      <4> QED  BY <1>8, <4>1, <4>2
    <3> QED  BY <3>1, <3>2
  <2> QED  BY <1>11, <2>1 DEF Shown
<1> QED  BY <1>2, <1>12, <1>13, <1>14, <1>15 DEF StreamInv

(* The driver returns, and the last event is written.                       *)
LEMMA FinishStep ==
    ASSUME StreamInv, CapReached \/ AllArrived, Finish
    PROVE  StreamInv'
<1> USE DEF inputs, recorded, plan, result
<1> DEFINE e == [event |-> "done", success |-> allDone', steps |-> steps,
                 cost |-> FinalCost, paths |-> HistoryPlan]
<1>1. [Next]_vars /\ IInv /\ Delivered /\ Story /\ Picture /\ Seen /\ Shown
  BY DEF StreamInv, Next
<1>2. IInv' /\ Delivered'
  BY <1>1, StepIInv, DeliveredNext
<1>3. /\ pc = "loop" /\ pc' = "done" /\ history' = history /\ goalHistory' = goalHistory
      /\ steps' = steps /\ frames' = frames
      /\ lastOff' = lastOff /\ globalT' = globalT
      /\ events' = Append(events, e)
  BY DEF CapReached, AllArrived, Finish
<1>4. /\ steps \in Nat /\ history \in Seq([Agents -> Cells]) /\ allDone' \in BOOLEAN
  BY <1>1, <1>2 DEF IInv, TypeOK
<1>5. FinalCost \in Int /\ CostSoFar(lastOff) <= FinalCost
  BY <1>1, FinalCostBounds DEF IInv
<1>6. CostSoFar(lastOff) \in Int
  <2>1. lastOff \in [Agents -> Int]
    BY <1>1 DEF Seen
  <2>2. \A a \in Agents : lastOff[a] <= lastOff[a]
    BY <2>1
  <2> QED  BY <2>1, <2>2, CostsGrow
<1>7. HistoryPlan \in [Agents -> Seq(Cells)]
  <2>1. ASSUME NEW a \in Agents PROVE [t \in 1 .. Len(history) |-> history[t][a]] \in Seq(Cells)
    BY <1>4
  <2> QED  BY <2>1 DEF HistoryPlan
<1>8. e \in StreamEvents
  <2>1. e \in [event : {"done"}, success : BOOLEAN, steps : Nat, cost : Int,
               paths : [Agents -> Seq(Cells)]]
    BY <1>4, <1>5, <1>7
  <2> HIDE DEF e
  <2> QED  BY <2>1 DEF StreamEvents
<1>9. e.event = "done" /\ e.cost = FinalCost /\ e.steps = steps /\ e.paths = HistoryPlan
  OBVIOUS
<1> HIDE DEF e
<1>10. /\ Len(events) \in Nat \ {0}
       /\ \A j \in 1 .. Len(events) : events[j].event = "cycle" => events[j].cost \in Int /\ j > 1
  BY <1>1, EventFacts
<1>11. /\ Len(events') = Len(events) + 1 /\ events' \in Seq(StreamEvents)
       /\ \A k \in 1 .. Len(events) : events'[k] = events[k]
       /\ events'[Len(events) + 1] = e
       /\ LiveCostIsALowerBound'
  <2>1. ASSUME NEW j \in 2 .. Len(events), events[j].event = "cycle" PROVE events[j].cost <= e.cost
    <3>1. events[j].cost <= CostSoFar(lastOff) /\ events[j].cost \in Int
      BY <1>1, <1>10, <2>1 DEF Shown
    <3> QED  BY <1>5, <1>6, <1>9, <3>1
  <2>2. e.cost \in Int
    BY <1>5, <1>9
  <2> QED  BY <1>1, <1>3, <1>8, <2>1, <2>2, OneMoreEvent
<1>12. Story'
  <2>1. events' # <<>> /\ events'[1] = events[1] /\ Len(events') > 1
    BY <1>10, <1>11
  <2>2. Final' = e
    BY <1>11 DEF Final
  <2>3. HistoryPlan' = HistoryPlan
    BY <1>3 DEF HistoryPlan
  <2>4. ASSUME NEW k \in 2 .. Len(events')
        PROVE  events'[k].event = IF k = Len(events') THEN "done" ELSE "cycle"
    <3>1. CASE k = Len(events) + 1
      BY <1>9, <1>11, <3>1
    <3>2. CASE k # Len(events) + 1
      <4>1. k \in 2 .. Len(events) /\ events'[k] = events[k] /\ k # Len(events')
        BY <1>10, <1>11, <3>2
      <4> QED  BY <1>1, <1>3, <4>1 DEF Story
    <3> QED  BY <3>1, <3>2
  <2> QED  BY <1>1, <1>3, <1>9, <1>11, <2>1, <2>2, <2>3, <2>4 DEF Story
<1>13. Picture'
  <2>1. Drawn(events') = Drawn(events) \o Part(e)
    BY <1>1, <1>3, <1>8, DrawnGrows DEF Story
  <2>2. Part(e) = <<>>
    BY <1>9 DEF Part
  <2>3. Drawn(events) = history
    BY <1>1, <1>3 DEF Picture
  <2>4. history \o <<>> = history
    BY <1>4, ConcatEmptySeq
  <2> QED  BY <1>3, <2>1, <2>2, <2>3, <2>4 DEF Picture
<1>14. Seen'
  BY <1>1, <1>3 DEF Seen
<1>15. Shown'
  <2>1. ASSUME NEW k \in 2 .. Len(events'), events'[k].event = "cycle"
        PROVE  events'[k].cost <= CostSoFar(lastOff')
    <3>1. k # Len(events) + 1
      BY <1>9, <1>11, <2>1
    <3>2. k \in 2 .. Len(events) /\ events'[k] = events[k]
      BY <1>10, <1>11, <3>1
    <3> QED  BY <1>1, <1>3, <2>1, <3>2 DEF Shown
  <2> QED  BY <1>11, <2>1 DEF Shown
<1> QED  BY <1>2, <1>12, <1>13, <1>14, <1>15 DEF StreamInv

LEMMA InitStream == StreamInit => StreamInv
<1> SUFFICES ASSUME StreamInit PROVE StreamInv
  OBVIOUS
<1> DEFINE e == [event |-> "meta", start |-> cur, goal |-> goals]
<1>1. IInv
  BY StreamStepsDrive, InitIInv
<1>2. /\ pc = "loop" /\ steps = 0 /\ frames = <<>> /\ globalT = 0
      /\ lastOff = [a \in Agents |-> -1] /\ events = <<e>> /\ history = <<cur>>
  BY DEF StreamInit, Init
<1>3. cur \in [Agents -> Cells] /\ goals \in [Agents -> Cells]
  BY <1>1 DEF IInv, TypeOK
<1>4. e \in StreamEvents /\ e.event = "meta" /\ e.start = cur
  BY <1>3 DEF StreamEvents
<1> HIDE DEF e
<1>5. Delivered
  BY <1>2 DEF Delivered
<1>6. Len(events) = 1 /\ events[1] = e /\ events \in Seq(StreamEvents) /\ events # <<>>
  BY <1>2, <1>4
<1>7. Story
  <2>1. \A k \in 2 .. Len(events) : FALSE
    BY <1>6
  <2> QED  BY <1>2, <1>4, <1>6, <2>1 DEF Story
<1>8. Picture
  <2> DEFINE none == <<>>
  <2>1. none \in Seq(StreamEvents) /\ events = Append(none, e) /\ Len(none) = 0
    BY <1>2, <1>4
  <2>2. Drawn(none) = <<>>
    <3>1. \E g : IsDrawing(g, none, 0)
      BY DrawingExists
    <3>2. Drawn(none) = (CHOOSE g : IsDrawing(g, none, 0))[0]
      BY <2>1, DrawnUnfolds
    <3> HIDE DEF none
    <3>3. PICK g : g = (CHOOSE h : IsDrawing(h, none, 0)) /\ IsDrawing(g, none, 0)
      BY <3>1
    <3>4. g[0] = <<>>
      BY <3>3 DEF IsDrawing
    <3> QED  BY <3>2, <3>3, <3>4
  <2> HIDE DEF none
  <2>3. Drawn(events) = Drawn(none) \o Part(e)
    BY <1>4, <2>1, DrawnGrows
  <2>4. Part(e) = <<cur>>
    BY <1>4 DEF Part
  <2>5. <<>> \o <<cur>> = <<cur>>
    BY <1>3, ConcatEmptySeq
  <2> QED  BY <1>2, <2>2, <2>3, <2>4, <2>5 DEF Picture
<1>9. Seen
  BY <1>2 DEF Seen
<1>10. Shown
  <2>1. \A k \in 2 .. Len(events) : FALSE
    BY <1>6
  <2>2. \A j, k \in DOMAIN events : j = 1 /\ k = 1
    BY <1>6
  <2> QED  BY <2>1, <2>2 DEF Shown, LiveCostIsALowerBound
<1> QED  BY <1>1, <1>5, <1>7, <1>8, <1>9, <1>10 DEF StreamInv

LEMMA StreamInvHolds == StreamSpec => []StreamInv
<1>1. StreamInv /\ [StreamNext]_<<vars, streamVars>> => StreamInv'
  <2> SUFFICES ASSUME StreamInv, [StreamNext]_<<vars, streamVars>> PROVE StreamInv'
    OBVIOUS
  <2>1. CASE (PlanCycle \/ CommitStep \/ Hold \/ EndCommit) /\ UNCHANGED streamVars
    BY <2>1, QuietStep
  <2>2. CASE Arrive /\ Callback
    BY <2>2, CallbackStep
  <2>3. CASE (CapReached \/ AllArrived) /\ Finish
    BY <2>3, FinishStep
  <2>4. CASE UNCHANGED <<vars, streamVars>>
    <3>1. [Next]_vars /\ UNCHANGED vars /\ UNCHANGED streamVars
      BY <2>4
    <3>2. IInv' /\ Delivered'
      BY <3>1, StepIInv, DeliveredNext DEF StreamInv
    <3>3. Story' /\ Picture' /\ Seen' /\ Shown'
      BY <3>1 DEF StreamInv, vars, streamVars, inputs, recorded, plan, result, Story, Picture, Seen,
                  Shown, LiveCostIsALowerBound, Final, HistoryPlan
    <3> QED  BY <3>2, <3>3 DEF StreamInv
  <2> QED  BY <2>1, <2>2, <2>3, <2>4 DEF StreamNext
<1> QED  BY InitStream, <1>1, PTL DEF StreamSpec

(* What is drawn at any moment, in the middle of a cycle too, is a beginning  *)
(* of the history.                                                           *)
LEMMA DrawnIsAPrefix ==
    ASSUME StreamInv
    PROVE  /\ Len(Drawn(events)) \in 1 .. Len(history)
           /\ \A k \in 1 .. Len(Drawn(events)) : Drawn(events)[k] = history[k]
<1>1. /\ history \in Seq([Agents -> Cells]) /\ Len(history) \in Nat /\ Len(history) >= 1
      /\ pc \in {"loop", "commit", "arrive", "done"}
      /\ steps \in Nat /\ clock \in Nat /\ committed \in Nat
  BY RollingAssumption DEF StreamInv, IInv, TypeOK
<1>2. CASE pc \in {"loop", "done"}
  BY <1>1, <1>2 DEF StreamInv, Picture
<1>3. CASE pc \in {"commit", "arrive"}
  <2>1. Drawn(events) = SubSeq(history, 1, histLenBefore)
    BY <1>3 DEF StreamInv, Picture
  <2>2. histLenBefore \in 1 .. Len(history)
    BY <1>1, <1>3 DEF StreamInv, IInv, CycleShape, HistoryInStep
  <2>3. /\ Len(SubSeq(history, 1, histLenBefore)) = histLenBefore
        /\ \A k \in 1 .. histLenBefore : SubSeq(history, 1, histLenBefore)[k] = history[k]
    BY <1>1, <2>2
  <2> QED  BY <2>1, <2>2, <2>3
<1> QED  BY <1>1, <1>2, <1>3

(* Positions that are drawn one after the other: nobody shares a cell or     *)
(* trades cells, and nobody is moved into an obstacle or through one where   *)
(* it really is at the time.                                                 *)
DrawnIsSafe ==
    /\ \A i, j \in Agents : i # j => Drawn(events)[1][i] # Drawn(events)[1][j]
    /\ \A t \in 1 .. Len(Drawn(events)) - 1 :
         /\ Clear(Drawn(events)[t], Drawn(events)[t + 1])
         /\ \A a \in Agents : Drawn(events)[t + 1][a] # Drawn(events)[t][a] =>
              /\ ~ObstacleOn(t, Drawn(events)[t + 1][a])
              /\ \A o \in Present : ~(/\ ObstacleAt(o, t) = Drawn(events)[t][a]
                                      /\ ObstacleAt(o, t - 1) = Drawn(events)[t + 1][a])

(* Whoever watches a live run never sees a collision, at no moment of it, nor *)
(* an agent moved into an obstacle: the history is safe in the live solver    *)
(* as it is in the driver alone, and what has been sent of it, cycle by       *)
(* cycle, fits together without a gap in which something could pass unseen    *)
(* (rolling.hpp:26-32, 243-266, 331, solve_stream.cpp:228-253).               *)
THEOREM WatchersSeeNoCollision ==
    StreamSpec => [](AgentsNeverCollide /\ NeverMovesIntoObstacle /\ DrawnIsSafe)
<1>1. StreamInit => NeverMovesIntoObstacle
  BY DEF StreamInit, Init, NeverMovesIntoObstacle
<1>2. StreamInv /\ NeverMovesIntoObstacle /\ [StreamNext]_<<vars, streamVars>> =>
          NeverMovesIntoObstacle'
  BY StreamStepsDrive, ObstacleStep DEF StreamInv
<1>3. ASSUME StreamInv, NeverMovesIntoObstacle PROVE AgentsNeverCollide /\ DrawnIsSafe
  <2> DEFINE drawn == Drawn(events)
  <2>1. Len(drawn) \in 1 .. Len(history) /\ \A k \in 1 .. Len(drawn) : drawn[k] = history[k]
    BY <1>3, DrawnIsAPrefix
  <2>2. AgentsNeverCollide /\ Len(history) \in Nat
    BY <1>3 DEF StreamInv, IInv, TypeOK
  <2> HIDE DEF drawn
  <2>3. drawn[1] = history[1]
    BY <2>1, <2>2
  <2>4. ASSUME NEW t \in 1 .. Len(drawn) - 1
        PROVE  drawn[t] = history[t] /\ drawn[t + 1] = history[t + 1] /\ t \in 1 .. Len(history) - 1
    BY <2>1, <2>2
  <2>5. \A i, j \in Agents : i # j => drawn[1][i] # drawn[1][j]
    BY <2>2, <2>3 DEF AgentsNeverCollide
  <2>6. ASSUME NEW t \in 1 .. Len(drawn) - 1
        PROVE  /\ Clear(drawn[t], drawn[t + 1])
               /\ \A a \in Agents : drawn[t + 1][a] # drawn[t][a] =>
                    /\ ~ObstacleOn(t, drawn[t + 1][a])
                    /\ \A o \in Present : ~(/\ ObstacleAt(o, t) = drawn[t][a]
                                            /\ ObstacleAt(o, t - 1) = drawn[t + 1][a])
    BY <1>3, <2>2, <2>4 DEF AgentsNeverCollide, NeverMovesIntoObstacle
  <2>7. DrawnIsSafe
    BY <2>5, <2>6 DEF DrawnIsSafe, drawn
  <2> QED  BY <2>2, <2>7
<1> QED  BY StreamInvHolds, <1>1, <1>2, <1>3, PTL DEF StreamSpec

(* Whoever draws the events of a run ends with exactly the paths of the      *)
(* final event, which comes once and last (rolling.hpp:104-110,              *)
(* solve_stream.cpp:228-276).                                                *)
THEOREM EventsAreTheHistory == StreamSpec => []EventsTellTheHistory
<1>1. StreamInv => EventsTellTheHistory
  <2> SUFFICES ASSUME StreamInv, pc = "done" PROVE
          /\ Final.event = "done" /\ \A k \in 1 .. Len(events) - 1 : events[k].event # "done"
          /\ Final.steps = Len(Drawn(events)) - 1
          /\ \A a \in Agents :
               Final.paths[a] = [t \in 1 .. Len(Drawn(events)) |-> Drawn(events)[t][a]]
    BY DEF EventsTellTheHistory
  <2>1. /\ Len(history) = steps + 1 /\ history \in Seq([Agents -> Cells]) /\ steps \in Nat
        /\ Story /\ Drawn(events) = history
    BY DEF StreamInv, IInv, TypeOK, HistoryInStep, Picture
  <2>2. /\ Len(events) \in Nat /\ Len(events) > 1 /\ Final.steps = steps /\ Final.paths = HistoryPlan
        /\ events[1].event = "meta"
        /\ \A k \in 2 .. Len(events) :
             events[k].event = IF k = Len(events) THEN "done" ELSE "cycle"
    BY <2>1 DEF Story
  <2>3. Final.event = "done"
    BY <2>2 DEF Final
  <2>4. ASSUME NEW k \in 1 .. Len(events) - 1 PROVE events[k].event # "done"
    <3>1. CASE k = 1
      BY <2>2, <3>1
    <3>2. CASE k # 1
      BY <2>2, <3>2
    <3> QED  BY <3>1, <3>2
  <2>5. \A a \in Agents : Final.paths[a] = [t \in 1 .. Len(history) |-> history[t][a]]
    BY <2>2 DEF HistoryPlan
  <2>6. Final.steps = Len(Drawn(events)) - 1
    BY <2>1, <2>2
  <2>7. \A a \in Agents : Final.paths[a] = [t \in 1 .. Len(Drawn(events)) |-> Drawn(events)[t][a]]
    BY <2>1, <2>5
  <2> QED  BY <2>3, <2>4, <2>6, <2>7
<1> QED  BY StreamInvHolds, <1>1, PTL

(* A cost shown live is never taken back and never above the final cost      *)
(* (solve_stream.cpp:223-236, 262-265).                                    *)
THEOREM LiveCostsAreBounds == StreamSpec => []LiveCostIsALowerBound
<1>1. StreamInv => LiveCostIsALowerBound
  BY DEF StreamInv, Shown
<1> QED  BY StreamInvHolds, <1>1, PTL
=============================================================================
