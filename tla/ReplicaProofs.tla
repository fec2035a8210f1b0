---------------------------- MODULE ReplicaProofs ---------------------------
(***************************************************************************)
(* Proofs about many replicas at once.  Parallel restarts, for every       *)
(* number of replicas and of threads: no two threads share a replica,      *)
(* slots are written once, and the answer is the sequential one.  And the  *)
(* multi-spin annealer, for words of any width: the samples catch the best *)
(* of all lanes, and every lane is an annealer of its own.                 *)
(***************************************************************************)
EXTENDS ParallelAnnealerProps, MultiSpin, BqmTheorems

\* Where every replica is: in the queue, in the hands of one thread, or done.
QueueShape ==
    /\ \A w \in Workers : worker[w] = "anneal" =>
         /\ held[w] \in Replicas /\ held[w] < nextReplica
         /\ ~slots[held[w]].ran
    /\ \A r \in Replicas : r < nextReplica =>
         slots[r].ran \/ \E w \in Workers : worker[w] = "anneal" /\ held[w] = r
    /\ \A r \in Replicas : slots[r].ran => r < nextReplica /\ slots[r].energy = outcome[r]
    /\ \A w \in Workers : worker[w] = "joinable" => nextReplica >= NumReplicas

\* What the calling thread knows of the others, and of the slots it has read.
CallerShape ==
    /\ \A w \in Workers : w > spawned => worker[w] = "off"
    /\ caller \in {"reduce", "done"} => \A w \in Workers : worker[w] = "joinable"
    /\ caller \in {"spawn", "join"} => scan = 1 /\ bestReplica = 0
    /\ caller = "done" => scan = NumReplicas
    /\ bestReplica < scan
    /\ \A q \in Replicas : q < scan =>
         /\ slots[bestReplica].energy <= slots[q].energy
         /\ q < bestReplica => slots[bestReplica].energy < slots[q].energy

IInv == TypeOK /\ OneWriterPerSlot /\ QueueShape /\ CallerShape

LEMMA WorkersType == Workers \subseteq Nat /\ NumWorkers \in Nat /\ 0 \in Replicas
  BY AnnealerAssumption DEF Workers, NumWorkers, Replicas

LEMMA InitIInv == Init => IInv
<1> SUFFICES ASSUME Init PROVE IInv
  OBVIOUS
<1> USE AnnealerAssumption, WorkersType
<1>1. TypeOK
  BY DEF Init, TypeOK, Untouched, Replicas
<1>2. OneWriterPerSlot
  BY DEF Init, OneWriterPerSlot
<1>3. QueueShape
  BY DEF Init, QueueShape, Untouched, Replicas
<1>4. CallerShape
  BY DEF Init, CallerShape, Untouched, Replicas
<1> QED
  BY <1>1, <1>2, <1>3, <1>4 DEF IInv

LEMMA TakeIInv == ASSUME NEW w \in Workers PROVE IInv /\ Take(w) => IInv'
<1> SUFFICES ASSUME IInv, Take(w) PROVE IInv'
  OBVIOUS
<1> USE AnnealerAssumption, WorkersType DEF IInv, Take
<1>1. TypeOK'
  BY DEF TypeOK
<1>2. OneWriterPerSlot'
  BY DEF OneWriterPerSlot, QueueShape, TypeOK
<1>3. QueueShape'
  <2>1. \A v \in Workers : worker'[v] = "anneal" =>
          held'[v] \in Replicas /\ held'[v] < nextReplica' /\ ~slots'[held'[v]].ran
    BY DEF QueueShape, TypeOK, Replicas
  <2>2. \A r \in Replicas : r < nextReplica' =>
          slots'[r].ran \/ \E v \in Workers : worker'[v] = "anneal" /\ held'[v] = r
    <3> SUFFICES ASSUME NEW r \in Replicas, r < nextReplica', ~slots[r].ran
                 PROVE \E v \in Workers : worker'[v] = "anneal" /\ held'[v] = r
      OBVIOUS
    <3>1. CASE r = nextReplica
      BY <3>1 DEF TypeOK, Replicas
    <3>2. CASE r < nextReplica
      BY <3>2 DEF QueueShape, TypeOK
    <3> QED
      BY <3>1, <3>2 DEF TypeOK, Replicas
  <2>3. \A r \in Replicas : slots'[r].ran => r < nextReplica' /\ slots'[r].energy = outcome'[r]
    BY DEF QueueShape, TypeOK, Replicas
  <2>4. \A v \in Workers : worker'[v] = "joinable" => nextReplica' >= NumReplicas
    BY DEF QueueShape, TypeOK
  <2> QED
    BY <2>1, <2>2, <2>3, <2>4 DEF QueueShape
<1>4. CallerShape'
  BY DEF CallerShape, TypeOK
<1> QED
  BY <1>1, <1>2, <1>3, <1>4

LEMMA AnnealIInv == ASSUME NEW w \in Workers PROVE IInv /\ Anneal(w) => IInv'
<1> SUFFICES ASSUME IInv, Anneal(w) PROVE IInv'
  OBVIOUS
<1> USE AnnealerAssumption, WorkersType DEF IInv, Anneal
<1>0. held[w] \in Replicas /\ held[w] < nextReplica /\ outcome[held[w]] \in Int
  BY DEF QueueShape, TypeOK
<1>1. TypeOK'
  BY <1>0 DEF TypeOK
<1>2. OneWriterPerSlot'
  BY DEF OneWriterPerSlot, TypeOK
<1>3. QueueShape'
  <2>1. \A v \in Workers : worker'[v] = "anneal" =>
          held'[v] \in Replicas /\ held'[v] < nextReplica' /\ ~slots'[held'[v]].ran
    BY <1>0 DEF QueueShape, OneWriterPerSlot, TypeOK
  <2>2. \A r \in Replicas : r < nextReplica' =>
          slots'[r].ran \/ \E v \in Workers : worker'[v] = "anneal" /\ held'[v] = r
    BY <1>0 DEF QueueShape, TypeOK
  <2>3. \A r \in Replicas : slots'[r].ran => r < nextReplica' /\ slots'[r].energy = outcome'[r]
    BY <1>0 DEF QueueShape, TypeOK
  <2>4. \A v \in Workers : worker'[v] = "joinable" => nextReplica' >= NumReplicas
    BY DEF QueueShape, TypeOK
  <2> QED
    BY <2>1, <2>2, <2>3, <2>4 DEF QueueShape
<1>4. CallerShape'
  <2>1. caller \in {"spawn", "join"}
    BY DEF CallerShape, TypeOK
  <2>2. scan = 1 /\ bestReplica = 0
    BY <2>1 DEF CallerShape
  <2>3. \A q \in Replicas : q < 1 => q = 0
    BY DEF Replicas
  <2>4. \A v \in Workers : v > spawned => worker'[v] = "off"
    BY DEF CallerShape, TypeOK
  <2>5. slots'[0].energy \in Int
    BY <1>1 DEF TypeOK
  <2> QED
    BY <2>1, <2>2, <2>3, <2>4, <2>5 DEF CallerShape
<1> QED
  BY <1>1, <1>2, <1>3, <1>4

LEMMA SpawnIInv == IInv /\ Spawn => IInv'
<1> SUFFICES ASSUME IInv, Spawn PROVE IInv'
  OBVIOUS
<1> USE AnnealerAssumption, WorkersType DEF IInv, Spawn
<1>0. spawned + 1 \in Workers /\ worker[spawned + 1] = "off"
  BY DEF CallerShape, TypeOK, Workers
<1>1. TypeOK'
  BY <1>0 DEF TypeOK
<1>2. OneWriterPerSlot'
  BY <1>0 DEF OneWriterPerSlot, TypeOK
<1>3. QueueShape'
  BY <1>0 DEF QueueShape, TypeOK
<1>4. CallerShape'
  BY <1>0 DEF CallerShape, TypeOK
<1> QED
  BY <1>1, <1>2, <1>3, <1>4

LEMMA ReduceIInv == IInv /\ Reduce => IInv'
<1> SUFFICES ASSUME IInv, Reduce PROVE IInv'
  OBVIOUS
<1> USE AnnealerAssumption, WorkersType DEF IInv, Reduce
<1>0. scan \in Replicas
  BY DEF TypeOK, Replicas
<1>1. TypeOK'
  BY <1>0 DEF TypeOK, Replicas
<1>2. OneWriterPerSlot'
  BY DEF OneWriterPerSlot
<1>3. QueueShape'
  BY DEF QueueShape
<1>4. CallerShape'
  <2>1. \A q \in Replicas : slots[q].energy \in Int /\ (q < scan + 1 <=> q < scan \/ q = scan)
    BY DEF TypeOK, Replicas
  <2>2. bestReplica' < scan'
    BY <1>0 DEF CallerShape, TypeOK, Replicas
  <2>3. ASSUME NEW q \in Replicas, q < scan'
        PROVE  /\ slots'[bestReplica'].energy <= slots'[q].energy
               /\ q < bestReplica' => slots'[bestReplica'].energy < slots'[q].energy
    BY <1>0, <2>1, <2>3 DEF CallerShape, TypeOK, Replicas
  <2> QED
    BY <2>2, <2>3 DEF CallerShape
<1> QED
  BY <1>1, <1>2, <1>3, <1>4

LEMMA CallerIInv == IInv /\ (StartJoin \/ Join \/ Return \/ UNCHANGED vars) => IInv'
<1> SUFFICES ASSUME IInv, StartJoin \/ Join \/ Return \/ UNCHANGED vars PROVE IInv'
  OBVIOUS
<1> USE DEF StartJoin, Join, Return, vars
<1>1. TypeOK'
  BY DEF IInv, TypeOK
<1>2. OneWriterPerSlot'
  BY DEF IInv, OneWriterPerSlot
<1>3. QueueShape'
  BY DEF IInv, QueueShape
<1>4. CallerShape'
  BY DEF IInv, CallerShape
<1> QED
  BY <1>1, <1>2, <1>3, <1>4 DEF IInv

-----------------------------------------------------------------------------
\* The inductive invariant holds in every reachable state.
THEOREM Invariance == Spec => []IInv
<1>1. IInv /\ [Next]_vars => IInv'
  BY TakeIInv, AnnealIInv, SpawnIInv, ReduceIInv, CallerIInv DEF Next, Caller, Worker
<1> QED
  BY <1>1, InitIInv, PTL DEF Spec

\* The variables keep their types, for every number of threads and replicas
\* (parallel.hpp:66-101).
THEOREM TypeCorrect == Spec => []TypeOK
  BY Invariance, PTL DEF IInv

\* No two threads ever anneal the same replica (parallel.hpp:75-83).
THEOREM SingleWriter == Spec => []OneWriterPerSlot
  BY Invariance, PTL DEF IInv

\* With a thread at least, what solve() returns is the sequential answer: every
\* replica has run, and the winner is the first of the best (parallel.hpp:91-99).
THEOREM Deterministic == Spec => []SameAsSequential
<1>1. IInv => SameAsSequential
  <2> SUFFICES ASSUME IInv, caller = "done", NumThreads > 0
               PROVE  /\ \A r \in Replicas : slots[r] = [ran |-> TRUE, energy |-> outcome[r]]
                      /\ Sequential(bestReplica)
    BY DEF SameAsSequential
  <2>1. 1 \in Workers
    BY AnnealerAssumption DEF Workers, NumWorkers
  <2>2. nextReplica >= NumReplicas /\ \A w \in Workers : worker[w] # "anneal"
    BY <2>1 DEF IInv, CallerShape, QueueShape
  <2>3. \A r \in Replicas : r < nextReplica
    BY <2>2, AnnealerAssumption DEF Replicas, IInv, TypeOK
  <2>4. \A r \in Replicas : slots[r].ran /\ slots[r].energy = outcome[r]
    BY <2>2, <2>3 DEF IInv, QueueShape
  <2>5. \A r \in Replicas : slots[r] = [ran |-> TRUE, energy |-> outcome[r]]
    BY <2>4 DEF IInv, TypeOK
  <2>6. \A q \in Replicas : q < scan
    BY AnnealerAssumption DEF IInv, CallerShape, Replicas
  <2>7. Sequential(bestReplica)
    BY <2>4, <2>6 DEF Sequential, IInv, CallerShape, TypeOK
  <2> QED
    BY <2>5, <2>7
<1> QED
  BY <1>1, Invariance, PTL

\* A slot that has been written, or that the calling thread may be reading, is
\* never written again (parallel.hpp:23-25).
LEMMA FinalStep ==
    IInv /\ [Next]_vars =>
        \A r \in Replicas : slots[r].ran \/ caller \in {"reduce", "done"} => slots'[r] = slots[r]
<1> SUFFICES ASSUME IInv, [Next]_vars, NEW r \in Replicas,
                    slots[r].ran \/ caller \in {"reduce", "done"}
             PROVE  slots'[r] = slots[r]
  OBVIOUS
<1>1. ASSUME NEW w \in Workers, Anneal(w) PROVE slots'[r] = slots[r]
  BY <1>1 DEF Anneal, IInv, QueueShape, CallerShape, TypeOK
<1>2. CASE UNCHANGED slots
  BY <1>2
<1> QED
  BY <1>1, <1>2 DEF Next, Caller, Worker, Take, Spawn, StartJoin, Join, Reduce, Return, vars

THEOREM WriteOnce == Spec => SlotsAreFinal
  BY Invariance, FinalStep, PTL DEF Spec, SlotsAreFinal

-----------------------------------------------------------------------------
(* The multi-spin annealer: the states of its lanes (multispin.hpp).        *)
LaneStates == [Vars(model) -> {-1, 1}]

(* The best sample so far is a state, with its energy; at a sampled sweep   *)
(* no lane is below it.                                                     *)
LanesAreAbove == \A r \in Lanes : bestEnergy <= Energy(ToSpin(model), Spins(word, r))

SampleInv ==
    /\ model \in Models /\ next \in Nat \ {0} /\ sweep \in Nat
    /\ pc \in {"construct", "refused", "sweep", "done"}
    /\ best \in LaneStates /\ bestEnergy = Energy(ToSpin(model), best)
    /\ pc = "construct" => next = 1 /\ sweep = 0 /\ LanesAreAbove
    /\ pc = "done" => LanesAreAbove
    /\ pc = "sweep" /\ next = 1 /\ sweep % Max({1, SampleInterval}) = 0 => LanesAreAbove

LEMMA MultiModel ==
    ASSUME model \in Models
    PROVE  /\ IsModel(model) /\ IsModel(ToSpin(model)) /\ Vars(ToSpin(model)) = Vars(model)
           /\ View = ToSpin(model) /\ Sites = Vars(model)
           /\ \A s \in LaneStates : Energy(ToSpin(model), s) \in Int
<1>1. IsModel(model)
  BY MultiSpinAssumption DEF MultiSpinInputs
<1>2. LaneStates # {}
  <2>1. [i \in Vars(model) |-> 1] \in LaneStates
    BY DEF LaneStates
  <2> QED  BY <2>1
<1>3. IsModel(ToSpin(model)) /\ Vars(ToSpin(model)) = Vars(model)
  BY <1>1, <1>2, ToSpinIsExact DEF LaneStates
<1>4. View = ToSpin(model) /\ Sites = Vars(model)
  BY DEF View, Sites
<1>5. \A s \in LaneStates : Energy(ToSpin(model), s) \in Int
  <2> SUFFICES ASSUME NEW s \in LaneStates PROVE Energy(ToSpin(model), s) \in Int
    OBVIOUS
  <2>1. IsState(ToSpin(model), s)
    BY <1>3 DEF LaneStates, IsState
  <2> QED  BY <1>3, <2>1, EnergyIsTwice
<1> QED  BY <1>1, <1>3, <1>4, <1>5

(* The sample is the lowest of all lanes.                                   *)
LEMMA BestLane ==
    ASSUME model \in Models, NEW words
    PROVE  LET b == Best(words)
           IN  /\ b \in Lanes
               /\ \A r \in Lanes : Spins(words, r) \in LaneStates
               /\ \A r \in Lanes :
                    Energy(ToSpin(model), Spins(words, b)) <= Energy(ToSpin(model), Spins(words, r))
<1> DEFINE L == Lanes
           v == ToSpin(model)
           e == [r \in L |-> Energy(v, Spins(words, r))]
           D == {r \in L : \A q \in L : e[r] <= e[q]}
           E == {e[r] : r \in L}
<1>1. \A r \in L : Spins(words, r) \in LaneStates
  BY MultiModel DEF Spins, LaneStates
<1>2. \A r \in L : e[r] = Energy(v, Spins(words, r)) /\ e[r] \in Int
  BY <1>1, MultiModel
<1>3. W \in Nat \ {0} /\ L = 0 .. W - 1
  BY MultiSpinAssumption DEF MultiSpinInputs, Lanes
<1>4. Best(words) = Min(D)
  <2>1. View = v
    BY MultiModel
  <2> QED  BY <2>1 DEF Best
<1>5. IsFiniteSet(L) /\ L # {} /\ L \subseteq Nat
  <2>1. 0 \in Int /\ W - 1 \in Int /\ 0 \in L /\ L \subseteq Nat
    BY <1>3
  <2>2. IsFiniteSet(0 .. W - 1)
    BY <2>1, FS_Interval
  <2> QED  BY <1>3, <2>1, <2>2
<1> HIDE DEF e, L, v
<1>6. D # {}
  <2>1. IsFiniteSet(E)
    <3>1. e \in Surjection(L, E)
      BY DEF Surjection, e
    <3> QED  BY <1>5, <3>1, FS_Surjection
  <2>2. E \subseteq Int /\ E # {}
    BY <1>2, <1>5
  <2>3. PICK m \in E : \A x \in E : m <= x
    BY <2>1, <2>2, SmallestExists
  <2>4. PICK r \in L : m = e[r]
    BY <2>3
  <2> QED  BY <2>3, <2>4
<1>7. D \subseteq Nat
  BY <1>5
<1> HIDE DEF D
<1>8. Min(D) \in D
  BY <1>6, <1>7, LeastNatural
<1>9. Min(D) \in L /\ \A q \in L : e[Min(D)] <= e[q]
  BY <1>8 DEF D
<1> QED  BY <1>1, <1>2, <1>4, <1>9 DEF L, v

LEMMA MultiStarts == MultiInit => SampleInv
<1> SUFFICES ASSUME MultiInit PROVE SampleInv
  OBVIOUS
<1>1. /\ model \in Models /\ best = Spins(word, Best(word)) /\ pc = "construct"
      /\ sweep = 0 /\ next = 1 /\ bestEnergy = Energy(ToSpin(model), best)
  BY MultiModel DEF MultiInit
<1>2. best \in LaneStates /\ LanesAreAbove
  BY <1>1, BestLane DEF LanesAreAbove
<1> QED  BY <1>1, <1>2 DEF SampleInv

(* A sample is taken: it may become the best, and no lane is below that.    *)
LEMMA SampleTaken ==
    ASSUME SampleInv, Sample, word' = word, model' = model
    PROVE  best' \in LaneStates' /\ bestEnergy' = Energy(ToSpin(model'), best') /\ LanesAreAbove'
<1> DEFINE s == Spins(word, Best(word))
           v == ToSpin(model)
<1>1. /\ Best(word) \in Lanes
      /\ \A r \in Lanes : Spins(word, r) \in LaneStates
      /\ \A r \in Lanes : Energy(v, s) <= Energy(v, Spins(word, r))
  BY BestLane DEF SampleInv
<1>2. /\ best' = (IF Energy(v, s) < bestEnergy THEN s ELSE best)
      /\ bestEnergy' = (IF Energy(v, s) < bestEnergy THEN Energy(v, s) ELSE bestEnergy)
  BY MultiModel DEF Sample, SampleInv
<1>3. \A r \in Lanes : Spins(word, r)' = Spins(word, r)
  BY DEF Spins, Sites, Vars
<1>4. bestEnergy \in Int /\ Energy(v, s) \in Int
  BY <1>1, MultiModel DEF SampleInv
<1>5. \A r \in Lanes : Energy(v, Spins(word, r)) \in Int
  BY <1>1, MultiModel DEF SampleInv
<1>6. best' \in LaneStates /\ bestEnergy' = Energy(v, best') /\ LaneStates' = LaneStates
  BY <1>1, <1>2 DEF SampleInv, LaneStates
<1>7. \A r \in Lanes : bestEnergy' <= Energy(v, Spins(word, r))
  <2> SUFFICES ASSUME NEW r \in Lanes PROVE bestEnergy' <= Energy(v, Spins(word, r))
    OBVIOUS
  <2> DEFINE x == Energy(v, s)
             y == Energy(v, Spins(word, r))
  <2>1. x \in Int /\ y \in Int /\ x <= y /\ bestEnergy' = IF x < bestEnergy THEN x ELSE bestEnergy
    BY <1>1, <1>2, <1>4, <1>5
  <2> HIDE DEF x, y
  <2>2. bestEnergy' <= y
    BY <1>4, <2>1
  <2> QED  BY <2>2 DEF y
<1>8. LanesAreAbove'
  BY <1>3, <1>7 DEF LanesAreAbove, Lanes
<1> QED  BY <1>6, <1>8

LEMMA MultiStep == SampleInv /\ [MultiNext]_multispin => SampleInv'
<1> SUFFICES ASSUME SampleInv, [MultiNext]_multispin PROVE SampleInv'
  OBVIOUS
<1> DEFINE p == Max({1, SampleInterval})
<1>1. CASE Construct
  <2>1. /\ pc = "construct" /\ pc' \in {"sweep", "refused"}
        /\ UNCHANGED <<model, word, best, bestEnergy, sweep, next>>
    BY <1>1 DEF Construct
  <2>2. LanesAreAbove'
    BY <2>1 DEF SampleInv, LanesAreAbove, Spins, Sites, Vars, Lanes
  <2> QED  BY <2>1, <2>2 DEF SampleInv, LaneStates
<1>2. CASE Draw
  <2>1. UNCHANGED <<model, word, best, bestEnergy, sweep, next, pc>>
    BY <1>2 DEF Draw
  <2>2. LanesAreAbove' <=> LanesAreAbove
    BY <2>1 DEF LanesAreAbove, Spins, Sites, Vars, Lanes
  <2> QED  BY <2>1, <2>2 DEF SampleInv, LaneStates
<1>3. CASE Update
  <2>1. /\ pc = "sweep" /\ next' = next + 1
        /\ UNCHANGED <<model, best, bestEnergy, sweep, pc>>
    BY <1>3 DEF Update, Sweeping
  <2>2. next' \in Nat \ {0} /\ next' # 1
    BY <2>1 DEF SampleInv
  <2> QED  BY <2>1, <2>2 DEF SampleInv, LaneStates
<1>4. CASE EndSweep
  <2>1. /\ pc = "sweep" /\ sweep' = sweep + 1 /\ next' = 1
        /\ UNCHANGED <<model, word, pc>>
        /\ IF SampleDue THEN Sample ELSE UNCHANGED <<best, bestEnergy>>
    BY <1>4 DEF EndSweep, Sweeping
  <2>2. CASE SampleDue
    <3>1. best' \in LaneStates' /\ bestEnergy' = Energy(ToSpin(model'), best') /\ LanesAreAbove'
      BY <2>1, <2>2, SampleTaken
    <3> QED  BY <2>1, <3>1 DEF SampleInv
  <2>3. CASE ~SampleDue
    <3>1. SampleInterval \in Nat /\ SampleInterval > 1 /\ sweep' % SampleInterval # 0
      BY <2>1, <2>3, MultiSpinAssumption DEF SampleDue, MultiSpinInputs
    <3>2. p = SampleInterval
      <4>1. {1, SampleInterval} \subseteq Int /\ SampleInterval \in {1, SampleInterval}
            /\ \A x \in {1, SampleInterval} : x <= SampleInterval
        BY <3>1
      <4> QED  BY <3>1, <4>1 DEF Max
    <3> QED  BY <2>1, <2>3, <3>1, <3>2 DEF SampleInv, LaneStates
  <2> QED  BY <2>2, <2>3
<1>5. CASE Finish
  <2>1. pc = "sweep" /\ pc' = "done" /\ UNCHANGED <<model, word, sweep, next>> /\ Sample
    BY <1>5 DEF Finish
  <2>2. best' \in LaneStates' /\ bestEnergy' = Energy(ToSpin(model'), best') /\ LanesAreAbove'
    BY <2>1, SampleTaken
  <2> QED  BY <2>1, <2>2 DEF SampleInv
<1>6. CASE UNCHANGED multispin
  <2>1. UNCHANGED <<model, word, best, bestEnergy, sweep, next, pc>>
    BY <1>6 DEF multispin
  <2>2. LanesAreAbove' <=> LanesAreAbove
    BY <2>1 DEF LanesAreAbove, Spins, Sites, Vars, Lanes
  <2> QED  BY <2>1, <2>2 DEF SampleInv, LaneStates
<1> QED  BY <1>1, <1>2, <1>3, <1>4, <1>5, <1>6 DEF MultiNext

LEMMA MultiInvariant == MultiSpec => []SampleInv
<1>1. MultiInit => SampleInv
  BY MultiStarts
<1>2. SampleInv /\ [MultiNext]_multispin => SampleInv'
  BY MultiStep
<1> QED  BY <1>1, <1>2, PTL DEF MultiSpec

(* Whatever the width of the words, the sampling interval and the model: the *)
(* best energy is the best state's, and after a sampled sweep and at the end *)
(* no replica is below it (multispin.hpp:84, 135-151, 208-223).              *)
THEOREM SamplesCatchTheBest == MultiSpec => []NoReplicaIsBelowTheBest
<1>1. SampleInv => NoReplicaIsBelowTheBest
  <2> SUFFICES ASSUME SampleInv PROVE NoReplicaIsBelowTheBest
    OBVIOUS
  <2>1. IsModel(model) /\ View = ToSpin(model) /\ best \in LaneStates
    BY MultiModel DEF SampleInv
  <2>2. Energy(model, FromSpins(model, best)) = Energy(ToSpin(model), best)
    BY <2>1, ToSpinIsExact DEF LaneStates
  <2>3. bestEnergy = Energy(model, FromSpins(model, best))
    BY <2>2 DEF SampleInv
  <2> QED  BY <2>1, <2>3 DEF SampleInv, LanesAreAbove, NoReplicaIsBelowTheBest
<1> QED  BY <1>1, MultiInvariant, PTL
-----------------------------------------------------------------------------
(* Powers of two, and the digits of numbers.  The definition of Power       *)
(* defines a function: its tables for 0 .. n exist, and agree.              *)
IsPowers(n, f) ==
    f \in [0 .. n -> Nat] /\ f[0] = 1 /\ \A b \in 0 .. n - 1 : f[b + 1] = 2 * f[b]

PowersTo(n) == CHOOSE f : IsPowers(n, f)

LEMMA PowersExist == \A n \in Nat : IsPowers(n, PowersTo(n))
<1> DEFINE T == {n \in Nat : IsPowers(n, PowersTo(n))}
<1>1. 0 \in T
  <2>1. IsPowers(0, [b \in 0 .. 0 |-> 1])
    BY DEF IsPowers
  <2> QED  BY <2>1 DEF PowersTo
<1>2. ASSUME NEW n \in Nat, n \in T PROVE n + 1 \in T
  <2> DEFINE f == PowersTo(n)
             g == [b \in 0 .. n + 1 |-> IF b = n + 1 THEN 2 * f[n] ELSE f[b]]
  <2>1. IsPowers(n, f)
    BY <1>2
  <2> HIDE DEF f
  <2>2. g \in [0 .. n + 1 -> Nat] /\ g[0] = 1
    BY <2>1 DEF IsPowers
  <2>3. \A b \in 0 .. n : g[b + 1] = 2 * g[b]
    BY <2>1 DEF IsPowers
  <2>4. IsPowers(n + 1, g)
    <3>1. n + 1 - 1 = n
      OBVIOUS
    <3> HIDE DEF g
    <3> QED  BY <2>2, <2>3, <3>1 DEF IsPowers
  <2> HIDE DEF g
  <2> QED  BY <2>4 DEF PowersTo
<1> HIDE DEF T
<1>3. Nat \subseteq T
  BY <1>1, <1>2, NaturalInduction
<1> QED  BY <1>3 DEF T

LEMMA PowersAgree ==
    ASSUME NEW m \in Nat, NEW n \in Nat
    PROVE  \A b \in Nat : b <= m /\ b <= n => PowersTo(m)[b] = PowersTo(n)[b]
<1> DEFINE f == PowersTo(m)
           g == PowersTo(n)
           T == {b \in Nat : b <= m /\ b <= n => f[b] = g[b]}
<1>1. IsPowers(m, f) /\ IsPowers(n, g)
  BY PowersExist
<1> HIDE DEF f, g
<1>2. 0 \in T
  BY <1>1 DEF IsPowers
<1>3. ASSUME NEW b \in Nat, b \in T PROVE b + 1 \in T
  <2> SUFFICES ASSUME b + 1 <= m, b + 1 <= n PROVE f[b + 1] = g[b + 1]
    OBVIOUS
  <2>1. b \in 0 .. m - 1 /\ b \in 0 .. n - 1 /\ f[b] = g[b]
    BY <1>3
  <2> QED  BY <1>1, <2>1 DEF IsPowers
<1> HIDE DEF T
<1>4. Nat \subseteq T
  BY <1>2, <1>3, NaturalInduction
<1> QED  BY <1>4 DEF T, f, g

LEMMA PowerUnfolds == Power = [b \in Nat |-> IF b = 0 THEN 1 ELSE 2 * Power[b - 1]]
<1> DEFINE G == [b \in Nat |-> PowersTo(b)[b]]
<1>1. ASSUME NEW b \in Nat PROVE G[b] = IF b = 0 THEN 1 ELSE 2 * G[b - 1]
  <2>1. IsPowers(b, PowersTo(b))
    BY PowersExist
  <2>2. CASE b = 0
    BY <2>1, <2>2 DEF IsPowers
  <2>3. CASE b # 0
    <3>1. b - 1 \in Nat /\ b - 1 \in 0 .. b - 1 /\ b - 1 <= b /\ b - 1 + 1 = b
      BY <2>3
    <3>2. PowersTo(b)[b - 1] = PowersTo(b - 1)[b - 1]
      BY <3>1, PowersAgree
    <3>3. PowersTo(b)[b - 1 + 1] = 2 * PowersTo(b)[b - 1]
      BY <2>1, <3>1 DEF IsPowers
    <3> QED  BY <2>3, <3>1, <3>2, <3>3
  <2> QED  BY <2>2, <2>3
<1>2. G = [b \in Nat |-> G[b]]
  OBVIOUS
<1> HIDE DEF G
<1>3. G = [b \in Nat |-> IF b = 0 THEN 1 ELSE 2 * G[b - 1]]
  BY <1>1, <1>2
<1> QED  BY <1>3 DEF Power

LEMMA PowerStep ==
    /\ Power[0] = 1
    /\ \A b \in Nat : Power[b] \in Nat \ {0} /\ Power[b + 1] = 2 * Power[b] /\ b < Power[b]
<1>1. Power[0] = 1
  BY PowerUnfolds
<1>2. \A b \in Nat : Power[b + 1] = 2 * Power[b]
  <2> SUFFICES ASSUME NEW b \in Nat PROVE Power[b + 1] = 2 * Power[b]
    OBVIOUS
  <2>1. b + 1 \in Nat /\ b + 1 # 0 /\ b + 1 - 1 = b
    OBVIOUS
  <2>2. Power[b + 1] = IF b + 1 = 0 THEN 1 ELSE 2 * Power[b + 1 - 1]
    BY <2>1, PowerUnfolds
  <2> QED  BY <2>1, <2>2
<1> DEFINE T == {b \in Nat : Power[b] \in Nat \ {0} /\ b < Power[b]}
<1>3. 0 \in T
  BY <1>1
<1>4. ASSUME NEW b \in Nat, b \in T PROVE b + 1 \in T
  BY <1>2, <1>4
<1> HIDE DEF T
<1>5. Nat \subseteq T
  BY <1>3, <1>4, NaturalInduction
<1> QED  BY <1>1, <1>2, <1>5 DEF T

LEMMA PowerGrows ==
    ASSUME NEW a \in Nat, NEW b \in Nat, a <= b
    PROVE  Power[a] <= Power[b]
<1> DEFINE T == {k \in Nat : Power[a] <= Power[a + k]}
<1>1. 0 \in T
  BY PowerStep
<1>2. ASSUME NEW k \in Nat, k \in T PROVE k + 1 \in T
  <2>1. a + k \in Nat /\ a + (k + 1) = a + k + 1
    OBVIOUS
  <2>2. Power[a] \in Nat /\ Power[a + k] \in Nat /\ Power[a + k + 1] = 2 * Power[a + k]
    BY <2>1, PowerStep
  <2> QED  BY <1>2, <2>1, <2>2
<1> HIDE DEF T
<1>3. Nat \subseteq T
  BY <1>1, <1>2, NaturalInduction
<1>4. b - a \in Nat /\ a + (b - a) = b
  OBVIOUS
<1>5. b - a \in T
  BY <1>3, <1>4
<1> QED  BY <1>4, <1>5 DEF T

LEMMA RemainderIs ==
    ASSUME NEW p \in Nat \ {0}, NEW q \in Int, NEW r \in 0 .. p - 1, NEW n \in Int, n = p * q + r
    PROVE  n % p = r /\ n \div p = q
  OBVIOUS

(* One digit more.                                                          *)
LEMMA DigitAdds ==
    ASSUME NEW n \in Nat, NEW b \in Nat
    PROVE  /\ n % Power[b] \in 0 .. Power[b] - 1
           /\ n % Power[b + 1] = (n % Power[b]) + (IF Bit(n, b) THEN Power[b] ELSE 0)
<1> DEFINE p == Power[b]
           q == n \div p
           r == n % p
           c == q % 2
           h == q \div 2
<1>1. p \in Nat \ {0} /\ Power[b + 1] = 2 * p
  BY PowerStep
<1>2. Bit(n, b) <=> c = 1
  BY DEF Bit
<1> HIDE DEF p
<1>3. q \in Int /\ r \in 0 .. p - 1 /\ n = p * q + r
  BY <1>1
<1> HIDE DEF q, r
<1>4. c \in {0, 1} /\ h \in Int /\ q = 2 * h + c
  BY <1>3
<1> HIDE DEF c, h
<1>5. CASE c = 0
  <2>1. n = (2 * p) * h + r /\ r \in 0 .. 2 * p - 1 /\ 2 * p \in Nat \ {0}
    BY <1>1, <1>3, <1>4, <1>5
  <2>2. n % (2 * p) = r
    BY <1>4, <2>1, RemainderIs
  <2> QED  BY <1>1, <1>2, <1>3, <1>5, <2>2 DEF p, r
<1>6. CASE c = 1
  <2>1. n = (2 * p) * h + (p + r) /\ p + r \in 0 .. 2 * p - 1 /\ 2 * p \in Nat \ {0}
    <3>1. p * (2 * h + 1) = (2 * p) * h + p
      BY <1>1, <1>4
    <3> QED  BY <1>1, <1>3, <1>4, <1>6, <3>1
  <2>2. n % (2 * p) = p + r
    BY <1>4, <2>1, RemainderIs
  <2> QED  BY <1>1, <1>2, <1>3, <1>6, <2>2 DEF p, r
<1> QED  BY <1>4, <1>5, <1>6

LEMMA SameDigits ==
    ASSUME NEW n \in Nat, NEW k \in Nat, NEW b \in Nat,
           \A a \in 0 .. b - 1 : Bit(n, a) <=> Bit(k, a)
    PROVE  n % Power[b] = k % Power[b]
<1> DEFINE T == {a \in Nat : a <= b => n % Power[a] = k % Power[a]}
<1>1. 0 \in T
  <2>1. n % 1 = k % 1
    OBVIOUS
  <2> QED  BY <2>1, PowerStep
<1>2. ASSUME NEW a \in Nat, a \in T PROVE a + 1 \in T
  <2> SUFFICES ASSUME a + 1 <= b PROVE n % Power[a + 1] = k % Power[a + 1]
    OBVIOUS
  <2>1. a \in 0 .. b - 1 /\ n % Power[a] = k % Power[a]
    BY <1>2
  <2>2. Bit(n, a) <=> Bit(k, a)
    BY <2>1
  <2>3. /\ n % Power[a + 1] = (n % Power[a]) + (IF Bit(n, a) THEN Power[a] ELSE 0)
        /\ k % Power[a + 1] = (k % Power[a]) + (IF Bit(k, a) THEN Power[a] ELSE 0)
    BY DigitAdds
  <2> QED  BY <2>1, <2>2, <2>3
<1> HIDE DEF T
<1>3. Nat \subseteq T
  BY <1>1, <1>2, NaturalInduction
<1> QED  BY <1>3 DEF T

LEMMA SmallRemainder ==
    ASSUME NEW n \in Nat, NEW p \in Nat, n < p
    PROVE  n % p = n
<1>1. n = p * 0 + n /\ n \in 0 .. p - 1
  OBVIOUS
<1> QED  BY <1>1

(* Numbers with the same digits are the same.                               *)
LEMMA DigitsTell ==
    ASSUME NEW n \in Nat, NEW k \in Nat, NEW b \in Nat, n < Power[b], k < Power[b],
           \A a \in 0 .. b - 1 : Bit(n, a) <=> Bit(k, a)
    PROVE  n = k
<1>1. Power[b] \in Nat
  BY PowerStep
<1>2. n % Power[b] = n /\ k % Power[b] = k
  BY <1>1, SmallRemainder
<1> QED  BY <1>2, SameDigits

(* The digits below b are all 1 just below a multiple of 2^b.               *)
LEMMA AllOnes ==
    ASSUME NEW n \in Nat, NEW b \in Nat
    PROVE  n % Power[b] = Power[b] - 1 <=> \A a \in 0 .. b - 1 : Bit(n, a)
<1> DEFINE T == {a \in Nat : n % Power[a] = Power[a] - 1 <=> \A c \in 0 .. a - 1 : Bit(n, c)}
<1>1. 0 \in T
  <2>1. n % 1 = 0
    OBVIOUS
  <2> QED  BY <2>1, PowerStep
<1>2. ASSUME NEW a \in Nat, a \in T PROVE a + 1 \in T
  <2> DEFINE p == Power[a]
             r == n % p
  <2>1. p \in Nat \ {0} /\ Power[a + 1] = 2 * p
    BY PowerStep
  <2>2. r \in 0 .. p - 1 /\ n % Power[a + 1] = r + (IF Bit(n, a) THEN p ELSE 0)
    BY DigitAdds
  <2>3. r = p - 1 <=> \A c \in 0 .. a - 1 : Bit(n, c)
    BY <1>2
  <2>4. (\A c \in 0 .. a + 1 - 1 : Bit(n, c)) <=> (\A c \in 0 .. a - 1 : Bit(n, c)) /\ Bit(n, a)
    <3>1. 0 .. a + 1 - 1 = (0 .. a - 1) \cup {a}
      OBVIOUS
    <3> QED  BY <3>1
  <2> HIDE DEF p, r
  <2>5. n % Power[a + 1] = Power[a + 1] - 1 <=> r = p - 1 /\ Bit(n, a)
    <3>1. CASE Bit(n, a)
      BY <2>1, <2>2, <3>1
    <3>2. CASE ~Bit(n, a)
      BY <2>1, <2>2, <3>2
    <3> QED  BY <3>1, <3>2
  <2> QED  BY <2>3, <2>4, <2>5
<1> HIDE DEF T
<1>3. Nat \subseteq T
  BY <1>1, <1>2, NaturalInduction
<1> QED  BY <1>3 DEF T

(* Adding 1 turns the digits that the carry reaches.                        *)
LEMMA BitOfNext ==
    ASSUME NEW n \in Nat, NEW b \in Nat
    PROVE  Bit(n + 1, b) <=> ~(Bit(n, b) <=> \A a \in 0 .. b - 1 : Bit(n, a))
<1> DEFINE p == Power[b]
           q == n \div p
           r == n % p
           Full == \A a \in 0 .. b - 1 : Bit(n, a)
<1>1. p \in Nat \ {0}
  BY PowerStep
<1>2. r = p - 1 <=> Full
  BY AllOnes
<1> HIDE DEF Full
<1>3. q \in Nat /\ (n + 1) \div p = q + (IF (n + 1) % p = 0 THEN 1 ELSE 0)
  BY <1>1, NextQuotient
<1>4. (n + 1) % p = 0 <=> r = p - 1
  <2> HIDE DEF p
  <2>1. r \in 0 .. p - 1 /\ n = p * q + r /\ q \in Int
    BY <1>1
  <2> HIDE DEF q, r
  <2>2. CASE r = p - 1
    <3>1. n + 1 = p * (q + 1) + 0
      BY <1>1, <2>1, <2>2
    <3> QED  BY <1>1, <2>1, <2>2, <3>1
  <2>3. CASE r < p - 1
    <3>1. n + 1 = p * q + (r + 1) /\ r + 1 \in 0 .. p - 1
      BY <1>1, <2>1, <2>3
    <3>2. (n + 1) % p = r + 1
      BY <1>1, <2>1, <3>1
    <3> QED  BY <2>1, <2>3, <3>2
  <2> QED  BY <1>1, <2>1, <2>2, <2>3
<1>5. Bit(n, b) <=> q % 2 = 1
  BY DEF Bit
<1>6. Bit(n + 1, b) <=> ((n + 1) \div p) % 2 = 1
  BY DEF Bit
<1> HIDE DEF p, q, r
<1>7. (q + 1) % 2 = 1 <=> ~(q % 2 = 1)
  BY <1>3
<1>8. CASE Full
  BY <1>2, <1>3, <1>4, <1>5, <1>6, <1>7, <1>8 DEF Full
<1>9. CASE ~Full
  BY <1>2, <1>3, <1>4, <1>5, <1>6, <1>9 DEF Full
<1> QED  BY <1>8, <1>9

-----------------------------------------------------------------------------
(* The comparison of a lane's number with a threshold looks at the highest  *)
(* digit in which they differ.                                              *)
Digits(bits, r) == [b \in DOMAIN bits |-> IF r \in bits[b] THEN Power[b] ELSE 0]

Below(bits, r, k, m) ==
    \E b \in 0 .. m - 1 :
        /\ Bit(k, b) /\ r \notin bits[b]
        /\ \A c \in 0 .. m - 1 : c > b => (r \in bits[c] <=> Bit(k, c))

LEMMA BelowStep ==
    ASSUME NEW bits, NEW r, NEW k, NEW m \in Nat
    PROVE  Below(bits, r, k, m + 1) <=>
             \/ Bit(k, m) /\ r \notin bits[m]
             \/ (r \in bits[m] <=> Bit(k, m)) /\ Below(bits, r, k, m)
<1> DEFINE Same(c) == r \in bits[c] <=> Bit(k, c)
           Less(c) == Bit(k, c) /\ r \notin bits[c]
<1>1. \A c : c \in 0 .. m + 1 - 1 <=> c \in 0 .. m - 1 \/ c = m
  OBVIOUS
<1>2. \A b \in 0 .. m - 1 : m > b /\ ~(b > m)
  OBVIOUS
<1>3. /\ Below(bits, r, k, m) <=>
           \E b \in 0 .. m - 1 : Less(b) /\ \A c \in 0 .. m - 1 : c > b => Same(c)
      /\ Below(bits, r, k, m + 1) <=>
           \E b \in 0 .. m + 1 - 1 : Less(b) /\ \A c \in 0 .. m + 1 - 1 : c > b => Same(c)
  BY DEF Below
<1> HIDE DEF Same, Less
<1>4. Below(bits, r, k, m + 1) <=> Less(m) \/ (Same(m) /\ Below(bits, r, k, m))
  <2>1. ASSUME Below(bits, r, k, m + 1) PROVE Less(m) \/ (Same(m) /\ Below(bits, r, k, m))
    <3>1. PICK b \in 0 .. m + 1 - 1 : Less(b) /\ \A c \in 0 .. m + 1 - 1 : c > b => Same(c)
      BY <1>3, <2>1
    <3> QED  BY <1>1, <1>2, <1>3, <3>1
  <2>2. ASSUME Less(m) PROVE Below(bits, r, k, m + 1)
    <3>1. m \in 0 .. m + 1 - 1 /\ \A c \in 0 .. m + 1 - 1 : ~(c > m)
      OBVIOUS
    <3> QED  BY <1>3, <2>2, <3>1
  <2>3. ASSUME Same(m), Below(bits, r, k, m) PROVE Below(bits, r, k, m + 1)
    <3>1. PICK b \in 0 .. m - 1 : Less(b) /\ \A c \in 0 .. m - 1 : c > b => Same(c)
      BY <1>3, <2>3
    <3>2. \A c \in 0 .. m + 1 - 1 : c > b => Same(c)
      BY <1>1, <2>3, <3>1
    <3> QED  BY <1>1, <1>3, <3>1, <3>2
  <2> QED  BY <2>1, <2>2, <2>3
<1> QED  BY <1>4 DEF Same, Less

LEMMA NumbersCompare ==
    ASSUME NEW n \in Nat, NEW bits, DOMAIN bits = 0 .. n - 1, NEW r, NEW k \in 0 .. Power[n] - 1
    PROVE  Below(bits, r, k, n) <=> SumFunctionOnSet(Digits(bits, r), 0 .. n - 1) < k
<1> DEFINE f == Digits(bits, r)
           S(m) == SumFunctionOnSet(f, 0 .. m - 1)
           T == {m \in Nat : m <= n =>
                   /\ S(m) \in 0 .. Power[m] - 1
                   /\ Below(bits, r, k, m) <=> S(m) < k % Power[m]}
<1>1. \A m \in Nat : Power[m] \in Nat \ {0} /\ Power[m + 1] = 2 * Power[m]
  BY PowerStep
<1>2. k \in Nat /\ Power[n] \in Nat /\ k < Power[n]
  BY <1>1
<1>3. \A m \in 0 .. n - 1 : f[m] = (IF r \in bits[m] THEN Power[m] ELSE 0) /\ f[m] \in Int
  BY <1>1 DEF Digits
<1> HIDE DEF f
<1>4. 0 \in T
  <2>1. 0 .. 0 - 1 = {} /\ ~Below(bits, r, k, 0)
    BY DEF Below
  <2>2. S(0) = 0
    BY <2>1, SumEmpty
  <2>3. k % 1 = 0
    BY <1>2
  <2>4. Power[0] = 1
    BY PowerStep
  <2> QED  BY <2>1, <2>2, <2>3, <2>4
<1>5. ASSUME NEW m \in Nat, m \in T PROVE m + 1 \in T
  <2> SUFFICES ASSUME m + 1 <= n
               PROVE  /\ S(m + 1) \in 0 .. Power[m + 1] - 1
                      /\ Below(bits, r, k, m + 1) <=> S(m + 1) < k % Power[m + 1]
    OBVIOUS
  <2> DEFINE p == Power[m]
             s == S(m)
             q == k % p
  <2>1. m \in 0 .. n - 1 /\ p \in Nat \ {0} /\ Power[m + 1] = 2 * p
    <3>1. Power[m] \in Nat \ {0} /\ Power[m + 1] = 2 * Power[m]
      BY <1>1
    <3>2. m \in 0 .. n - 1
      OBVIOUS
    <3> QED  BY <3>1, <3>2
  <2>2. s \in 0 .. p - 1 /\ (Below(bits, r, k, m) <=> s < q)
    BY <1>5
  <2>3. q \in 0 .. p - 1 /\ k % Power[m + 1] = q + (IF Bit(k, m) THEN p ELSE 0)
    BY <1>2, DigitAdds
  <2>4. S(m + 1) = f[m] + s
    <3> DEFINE D == 0 .. m - 1
               E == 0 .. m + 1 - 1
    <3>1. E = D \cup {m} /\ m \notin D
      OBVIOUS
    <3>2. IsFiniteSet(D) /\ \A x \in D \cup {m} : f[x] \in Int
      <4>1. 0 \in Int /\ m - 1 \in Int
        OBVIOUS
      <4>2. IsFiniteSet(D)
        BY <4>1, FS_Interval
      <4>3. \A x \in D \cup {m} : x \in 0 .. n - 1
        BY <2>1
      <4> QED  BY <1>3, <4>2, <4>3
    <3> HIDE DEF D, E
    <3>3. SumFunctionOnSet(f, D \cup {m}) = f[m] + SumFunctionOnSet(f, D)
      BY <3>1, <3>2, SumInsert
    <3>4. SumFunctionOnSet(f, E) = f[m] + SumFunctionOnSet(f, D)
      BY <3>1, <3>3
    <3> QED  BY <3>4 DEF D, E
  <2>5. S(m + 1) = s + (IF r \in bits[m] THEN p ELSE 0)
    BY <1>3, <2>1, <2>2, <2>4
  <2>6. Below(bits, r, k, m + 1) <=>
             \/ Bit(k, m) /\ r \notin bits[m]
             \/ (r \in bits[m] <=> Bit(k, m)) /\ s < q
    BY <2>2, BelowStep
  <2> HIDE DEF s, q, p, S
  <2>7. S(m + 1) \in 0 .. 2 * p - 1
    <3>1. CASE r \in bits[m]
      BY <2>1, <2>2, <2>5, <3>1
    <3>2. CASE r \notin bits[m]
      BY <2>1, <2>2, <2>5, <3>2
    <3> QED  BY <3>1, <3>2
  <2> DEFINE x == S(m + 1)
             y == k % Power[m + 1]
  <2>8. ((Bit(k, m) /\ r \notin bits[m]) \/ ((r \in bits[m] <=> Bit(k, m)) /\ s < q)) <=> x < y
    <3>1. CASE Bit(k, m) /\ r \in bits[m]
      <4>1. x = s + p /\ y = q + p
        BY <2>3, <2>5, <3>1
      <4>2. s + p < q + p <=> s < q
        BY <2>1, <2>2, <2>3
      <4> QED  BY <3>1, <4>1, <4>2
    <3>2. CASE Bit(k, m) /\ r \notin bits[m]
      <4>1. x = s + 0 /\ y = q + p
        BY <2>3, <2>5, <3>2
      <4>2. s + 0 < q + p
        BY <2>1, <2>2, <2>3
      <4> QED  BY <3>2, <4>1, <4>2
    <3>3. CASE ~Bit(k, m) /\ r \in bits[m]
      <4>1. x = s + p /\ y = q + 0
        BY <2>3, <2>5, <3>3
      <4>2. ~(s + p < q + 0)
        BY <2>1, <2>2, <2>3
      <4> QED  BY <3>3, <4>1, <4>2
    <3>4. CASE ~Bit(k, m) /\ r \notin bits[m]
      <4>1. x = s + 0 /\ y = q + 0
        BY <2>3, <2>5, <3>4
      <4>2. s + 0 < q + 0 <=> s < q
        BY <2>1, <2>2, <2>3
      <4> QED  BY <3>4, <4>1, <4>2
    <3> QED  BY <3>1, <3>2, <3>3, <3>4
  <2> QED  BY <2>1, <2>6, <2>7, <2>8
<1> HIDE DEF T
<1>6. Nat \subseteq T
  BY <1>4, <1>5, NaturalInduction
<1>7. Below(bits, r, k, n) <=> S(n) < k % Power[n]
  <2>1. n \in T
    BY <1>6
  <2> QED  BY <2>1 DEF T
<1>8. k % Power[n] = k
  BY <1>2, SmallRemainder
<1> QED  BY <1>7, <1>8 DEF f

LEMMA DrawsCompare ==
    ASSUME rand \in [0 .. B - 1 -> SUBSET Lanes], NEW r \in Lanes, NEW k \in 0 .. Power[B] - 1
    PROVE  r \in RandLt(rand, k) <=> NumberOf(r) < k
<1> DEFINE d == Digits(rand, r)
<1>1. B \in Nat /\ DOMAIN rand = 0 .. B - 1
  BY MultiSpinAssumption DEF MultiSpinInputs
<1>2. r \in RandLt(rand, k) <=> Below(rand, r, k, B)
  BY <1>1 DEF RandLt, Below
<1>3. NumberOf(r) = SumFunctionOnSet(d, 0 .. B - 1)
  <2>1. NumberOf(r) = SumFunction(d) /\ DOMAIN d = 0 .. B - 1
    BY <1>1 DEF NumberOf, Digits
  <2> HIDE DEF d
  <2> QED  BY <2>1, SumWhole
<1>4. Below(rand, r, k, B) <=> SumFunctionOnSet(d, 0 .. B - 1) < k
  BY <1>1, NumbersCompare
<1> HIDE DEF d
<1> QED  BY <1>2, <1>3, <1>4

-----------------------------------------------------------------------------
(* The counter of the unsatisfied edges, one edge at a time.                *)
NothingCounted == [b \in 0 .. Planes - 1 |-> {}]

IsCounts(i, D, g) ==
    g = [s \in SUBSET D |-> IF s = {} THEN NothingCounted
                            ELSE Incremented(g[s \ {Pick(s)}], Unsatisfied(i, Pick(s)))]

Counts(i, D) == CHOOSE g : IsCounts(i, D, g)

LEMMA CountedUnfolds == ASSUME NEW i PROVE Counted(i) = Counts(i, Neighbours(i))[Neighbours(i)]
BY DEF Counted, FoldSet, MapThenFoldSet, IsCounts, Counts, Pick, NothingCounted

LEMMA CountsAgree ==
    ASSUME NEW i, NEW D, IsFiniteSet(D), NEW X, NEW Y, D \subseteq X, D \subseteq Y,
           NEW g, NEW h, IsCounts(i, X, g), IsCounts(i, Y, h)
    PROVE  \A s \in SUBSET D : g[s] = h[s]
<1> DEFINE T == {s \in SUBSET D : g[s] = h[s]}
<1>1. ASSUME NEW S \in SUBSET D, \A U \in SUBSET S : U # S => U \in T
      PROVE  S \in T
  <2>1. /\ g[S] = IF S = {} THEN NothingCounted
                  ELSE Incremented(g[S \ {Pick(S)}], Unsatisfied(i, Pick(S)))
        /\ h[S] = IF S = {} THEN NothingCounted
                  ELSE Incremented(h[S \ {Pick(S)}], Unsatisfied(i, Pick(S)))
    BY DEF IsCounts
  <2>2. S # {} => g[S \ {Pick(S)}] = h[S \ {Pick(S)}]
    BY <1>1, Removal
  <2> QED  BY <2>1, <2>2
<1> HIDE DEF T
<1>2. SUBSET D \subseteq T
  BY <1>1, SubsetInduction
<1> QED  BY <1>2 DEF T

LEMMA CountsExist == ASSUME NEW i, NEW D, IsFiniteSet(D) PROVE IsCounts(i, D, Counts(i, D))
<1> DEFINE T == {s \in SUBSET D : IsCounts(i, s, Counts(i, s))}
<1>1. ASSUME NEW S \in SUBSET D, \A U \in SUBSET S : U # S => U \in T
      PROVE  S \in T
  <2> DEFINE V(s) == Counts(i, s)[s]
             G == [s \in SUBSET S |-> IF s = {} THEN NothingCounted
                       ELSE Incremented(V(s \ {Pick(s)}), Unsatisfied(i, Pick(s)))]
  <2>1. ASSUME NEW s \in SUBSET S, s # {}
        PROVE  V(s \ {Pick(s)}) = G[s \ {Pick(s)}]
    <3> DEFINE r == s \ {Pick(s)}
    <3>1. r \in SUBSET S /\ r # S /\ r \in T /\ IsFiniteSet(r)
      BY <1>1, <2>1, Removal, FS_Subset
    <3>2. IsCounts(i, r, Counts(i, r))
      BY <3>1
    <3>3. CASE r = {}
      BY <3>2, <3>3 DEF IsCounts
    <3>4. CASE r # {}
      <4> DEFINE q == r \ {Pick(r)}
      <4>1. q \in SUBSET S /\ q # S /\ q \in T /\ IsFiniteSet(q) /\ q \in SUBSET r
        BY <1>1, <3>1, <3>4, Removal, FS_Subset
      <4>2. IsCounts(i, q, Counts(i, q))
        BY <4>1
      <4>3. Counts(i, r)[q] = Counts(i, q)[q]
        <5> HIDE DEF q, r
        <5> QED  BY <3>2, <4>1, <4>2, CountsAgree
      <4>4. Counts(i, r)[r] = Incremented(Counts(i, r)[q], Unsatisfied(i, Pick(r)))
        BY <3>2, <3>4 DEF IsCounts
      <4> QED  BY <3>1, <3>4, <4>3, <4>4
    <3> QED  BY <3>3, <3>4
  <2>2. G = [s \in SUBSET S |-> IF s = {} THEN NothingCounted
                  ELSE Incremented(G[s \ {Pick(s)}], Unsatisfied(i, Pick(s)))]
    <3>1. ASSUME NEW s \in SUBSET S
          PROVE  G[s] = IF s = {} THEN NothingCounted
                        ELSE Incremented(G[s \ {Pick(s)}], Unsatisfied(i, Pick(s)))
      BY <2>1
    <3>2. G = [s \in SUBSET S |-> G[s]]
      OBVIOUS
    <3> HIDE DEF G
    <3> QED  BY <3>1, <3>2
  <2> HIDE DEF G
  <2>3. IsCounts(i, S, G)
    BY <2>2 DEF IsCounts
  <2>4. IsCounts(i, S, Counts(i, S))
    BY <2>3 DEF Counts
  <2> QED  BY <2>4
<1> HIDE DEF T
<1>2. SUBSET D \subseteq T
  BY <1>1, SubsetInduction
<1> QED  BY <1>2 DEF T

LEMMA NoDigits == \A b \in Nat : ~Bit(0, b)
<1> SUFFICES ASSUME NEW b \in Nat PROVE ~Bit(0, b)
  OBVIOUS
<1> DEFINE p == Power[b]
<1>1. p \in Nat \ {0}
  BY PowerStep
<1> HIDE DEF p
<1>2. 0 = p * 0 + 0 /\ 0 \in 0 .. p - 1
  BY <1>1
<1>3. 0 \div p = 0
  BY <1>1, <1>2, RemainderIs
<1> QED  BY <1>3 DEF Bit, p

(* In every lane the counter is the number of the unsatisfied edges.        *)
LEMMA CountDigits ==
    ASSUME NEW i, NEW D, IsFiniteSet(D), Planes \in Nat, NEW r
    PROVE  /\ DOMAIN Counts(i, D)[D] = 0 .. Planes - 1
           /\ \A b \in 0 .. Planes - 1 :
                r \in Counts(i, D)[D][b] <=>
                Bit(Cardinality({j \in D : r \in Unsatisfied(i, j)}), b)
<1> DEFINE g == Counts(i, D)
           L == 0 .. Planes - 1
           Hit(s) == {j \in s : r \in Unsatisfied(i, j)}
           T == {s \in SUBSET D : DOMAIN g[s] = L /\
                   \A b \in L : r \in g[s][b] <=> Bit(Cardinality(Hit(s)), b)}
<1>1. IsCounts(i, D, g)
  BY CountsExist
<1>2. \A s \in SUBSET D :
        g[s] = IF s = {} THEN NothingCounted
               ELSE Incremented(g[s \ {Pick(s)}], Unsatisfied(i, Pick(s)))
  BY <1>1 DEF IsCounts
<1> HIDE DEF g
<1>3. ASSUME NEW S \in SUBSET D, \A U \in SUBSET S : U # S => U \in T
      PROVE  S \in T
  <2>1. CASE S = {}
    <3>1. g[S] = NothingCounted
      BY <1>2, <2>1
    <3>2. DOMAIN g[S] = L /\ \A b \in L : r \notin g[S][b]
      BY <3>1 DEF NothingCounted
    <3>3. Cardinality(Hit(S)) = 0
      BY <2>1, FS_EmptySet
    <3>4. \A b \in L : ~Bit(Cardinality(Hit(S)), b)
      BY <3>3, NoDigits
    <3> QED  BY <3>2, <3>4
  <2>2. CASE S # {}
    <3> DEFINE p == Pick(S)
               R == S \ {p}
               u == Unsatisfied(i, p)
               c == g[R]
               k == Cardinality(Hit(R))
    <3>1. p \in S /\ R \in T /\ g[S] = Incremented(c, u) /\ R \subseteq D
      BY <1>2, <1>3, <2>2, Removal
    <3>2. DOMAIN c = L /\ \A b \in L : r \in c[b] <=> Bit(k, b)
      BY <3>1
    <3>3. IsFiniteSet(Hit(R)) /\ k \in Nat
      <4>1. Hit(R) \subseteq D
        BY <3>1
      <4>2. IsFiniteSet(Hit(R))
        BY <4>1, FS_Subset
      <4> QED  BY <4>2, FS_CardinalityType
    <3>4. Cardinality(Hit(S)) = IF r \in u THEN k + 1 ELSE k
      <4>1. CASE r \in u
        <5>1. Hit(S) = Hit(R) \cup {p} /\ p \notin Hit(R)
          BY <3>1, <4>1
        <5> HIDE DEF Hit, R, p
        <5> QED  BY <3>3, <4>1, <5>1, FS_AddElement
      <4>2. CASE r \notin u
        <5>1. Hit(S) = Hit(R)
          BY <3>1, <4>2
        <5> QED  BY <4>2, <5>1
      <4> QED  BY <4>1, <4>2
    <3> HIDE DEF p, R, u, c, k, Hit
    <3>5. DOMAIN g[S] = L
      BY <3>1, <3>2 DEF Incremented
    <3>6. ASSUME NEW b \in L PROVE r \in g[S][b] <=> Bit(Cardinality(Hit(S)), b)
      <4> DEFINE x == {q \in u : \A a \in 0 .. b - 1 : q \in c[a]}
      <4>1. g[S][b] = Xor(c[b], x)
        BY <3>1, <3>2 DEF Incremented
      <4>2. r \in g[S][b] <=> ~(r \in c[b] <=> r \in x)
        <5> HIDE DEF x
        <5> QED  BY <4>1 DEF Xor
      <4>3. r \in x <=> r \in u /\ \A a \in 0 .. b - 1 : Bit(k, a)
        <5>1. \A a \in 0 .. b - 1 : a \in L
          OBVIOUS
        <5> HIDE DEF L
        <5>2. (\A a \in 0 .. b - 1 : r \in c[a]) <=> (\A a \in 0 .. b - 1 : Bit(k, a))
          BY <3>2, <5>1
        <5> QED  BY <5>2
      <4>4. b \in Nat /\ (r \in c[b] <=> Bit(k, b))
        BY <3>2
      <4> HIDE DEF x, L
      <4>5. CASE r \in u
        <5>1. Bit(k + 1, b) <=> ~(Bit(k, b) <=> \A a \in 0 .. b - 1 : Bit(k, a))
          BY <3>3, <4>4, BitOfNext
        <5>2. Cardinality(Hit(S)) = k + 1
          BY <3>4, <4>5
        <5>3. Bit(Cardinality(Hit(S)), b) <=> Bit(k + 1, b)
          BY <5>2
        <5> DEFINE all == \A a \in 0 .. b - 1 : Bit(k, a)
        <5> HIDE DEF all
        <5>4. r \in x <=> all
          BY <4>3, <4>5 DEF all
        <5>5. Bit(k + 1, b) <=> ~(Bit(k, b) <=> all)
          BY <5>1 DEF all
        <5> QED  BY <4>2, <4>4, <5>3, <5>4, <5>5
      <4>6. CASE r \notin u
        <5>1. Cardinality(Hit(S)) = k
          BY <3>4, <4>6
        <5>2. Bit(Cardinality(Hit(S)), b) <=> Bit(k, b)
          BY <5>1
        <5> QED  BY <4>2, <4>3, <4>4, <4>6, <5>2
      <4> QED  BY <4>5, <4>6
    <3> QED  BY <3>5, <3>6 DEF Hit
  <2> QED  BY <2>1, <2>2
<1>4. D \in T
  <2> HIDE DEF T
  <2>1. SUBSET D \subseteq T
    BY <1>3, SubsetInduction
  <2> QED  BY <2>1
<1> QED  BY <1>4 DEF g

-----------------------------------------------------------------------------
(* The counter is wide enough for every degree.                             *)
LEMMA BitWidthFits == ASSUME NEW n \in Nat PROVE BitWidth(n) \in Nat /\ n < Power[BitWidth(n)]
<1> DEFINE D == {b \in 0 .. n : n < Power[b]}
<1>1. n \in D /\ D \subseteq Nat
  BY PowerStep
<1> HIDE DEF D
<1>2. Min(D) \in D
  BY <1>1, LeastNatural
<1>3. BitWidth(n) = Min(D)
  BY DEF BitWidth, D
<1> QED  BY <1>2, <1>3 DEF D

LEMMA DegreeFits ==
    ASSUME model \in Models
    PROVE  /\ IsFiniteSet(Sites) /\ Planes \in Nat
           /\ \A i \in Sites : /\ IsFiniteSet(Neighbours(i)) /\ i \notin Neighbours(i)
                               /\ Degree(i) \in 0 .. Cardinality(Sites) - 1
                               /\ Degree(i) < Power[Planes]
<1> DEFINE S == Sites
           d == [i \in S |-> Degree(i)]
           E == {d[i] : i \in S}
           M == {0} \cup E
<1>1. IsModel(View) /\ Vars(View) = S
  BY MultiModel
<1>2. IsFiniteSet(S) /\ \A i \in S : View.quad[i][i] = 0
  BY <1>1 DEF IsModel
<1>3. ASSUME NEW i \in S
      PROVE  /\ IsFiniteSet(Neighbours(i)) /\ i \notin Neighbours(i)
             /\ Degree(i) \in 0 .. Cardinality(S) - 1
  <2> DEFINE N == Neighbours(i)
  <2>1. N \subseteq S \ {i}
    BY <1>2 DEF Neighbours
  <2> HIDE DEF N, S
  <2>2. IsFiniteSet(S \ {i}) /\ Cardinality(S \ {i}) = Cardinality(S) - 1
    BY <1>2, FS_RemoveElement
  <2>3. IsFiniteSet(N) /\ Cardinality(N) <= Cardinality(S \ {i})
    BY <2>1, <2>2, FS_Subset
  <2>4. Cardinality(N) \in Nat /\ Cardinality(S) \in Nat
    BY <1>2, <2>3, FS_CardinalityType
  <2>5. Degree(i) = Cardinality(N)
    BY DEF Degree, N
  <2> QED  BY <2>1, <2>2, <2>3, <2>4, <2>5 DEF N
<1>4. IsFiniteSet(M) /\ M \subseteq Nat /\ M # {}
  <2>1. IsFiniteSet(E)
    <3>1. d \in Surjection(S, E)
      BY DEF Surjection
    <3> HIDE DEF S, d, E
    <3> QED  BY <1>2, <3>1, FS_Surjection
  <2>2. E \subseteq Nat
    <3>1. Cardinality(S) \in Nat
      BY <1>2, FS_CardinalityType
    <3>2. \A i \in S : Degree(i) \in Nat
      BY <1>3, <3>1
    <3> QED  BY <3>2
  <2> HIDE DEF E
  <2>3. IsFiniteSet({0}) /\ 0 \in Nat
    BY FS_Singleton
  <2>4. IsFiniteSet({0} \cup E)
    BY <2>1, <2>3, FS_Union
  <2> QED  BY <2>2, <2>3, <2>4
<1>5. M = {0} \cup {Degree(i) : i \in Sites}
  OBVIOUS
<1>6. \A i \in S : Degree(i) \in M
  OBVIOUS
<1> HIDE DEF M
<1> DEFINE x == Max(M)
           w == BitWidth(x)
<1>7. x \in M /\ \A y \in M : y <= x
  <2>1. IsFiniteSet(M) /\ M \subseteq Int /\ M # {}
    BY <1>4
  <2>2. Max(M) \in M /\ \A y \in M : y <= Max(M)
    BY <2>1, LargestExists
  <2> QED  BY <2>2
<1>8. x \in Nat
  BY <1>4, <1>7
<1> HIDE DEF x
<1>9. w \in Nat /\ x < Power[w]
  BY <1>8, BitWidthFits
<1>10. Planes = w + 1
  BY <1>5 DEF Planes, x
<1> HIDE DEF w
<1>11. /\ Planes \in Nat /\ Power[w] \in Nat /\ Power[Planes] \in Nat
       /\ Power[w] <= Power[Planes]
  <2>1. w + 1 \in Nat /\ w <= w + 1
    BY <1>9
  <2> QED  BY <1>9, <1>10, <2>1, PowerStep, PowerGrows
<1>12. \A i \in S : Degree(i) < Power[Planes]
  <2> SUFFICES ASSUME NEW i \in S PROVE Degree(i) < Power[Planes]
    OBVIOUS
  <2> DEFINE y == Degree(i)
             p == Power[w]
             q == Power[Planes]
  <2>1. y \in M /\ y \in Nat /\ y <= x
    BY <1>4, <1>6, <1>7
  <2>2. x < p /\ p <= q /\ p \in Nat /\ q \in Nat
    BY <1>9, <1>11
  <2> HIDE DEF y, p, q
  <2>3. y < q
    BY <1>8, <2>1, <2>2
  <2> QED  BY <2>3 DEF y, q
<1> QED  BY <1>2, <1>3, <1>11, <1>12

Against(i, r) == {j \in Neighbours(i) : r \in Unsatisfied(i, j)}

(* The lanes in which the counter of site i is v.                           *)
LEMMA EqualsCount ==
    ASSUME model \in Models, NEW i \in Sites, NEW r \in Lanes
    PROVE  /\ Cardinality(Against(i, r)) \in 0 .. Degree(i)
           /\ \A v \in 0 .. Degree(i) :
                r \in Equals(Counted(i), v) <=> v = Cardinality(Against(i, r))
<1> DEFINE N == Neighbours(i)
           u == Cardinality(Against(i, r))
           d == Degree(i)
           L == 0 .. Planes - 1
           c == Counted(i)
<1>1. IsFiniteSet(N) /\ Planes \in Nat /\ d = Cardinality(N) /\ d \in Nat /\ d < Power[Planes]
  <2>1. d = Cardinality(N)
    BY DEF Degree
  <2>2. IsFiniteSet(N) /\ Planes \in Nat /\ d < Power[Planes]
    BY DegreeFits
  <2> HIDE DEF N
  <2> QED  BY <2>1, <2>2, FS_CardinalityType
<1>2. u \in 0 .. d
  <2> DEFINE H == Against(i, r)
  <2>1. H \subseteq N
    BY DEF Against
  <2> HIDE DEF N, H
  <2>2. IsFiniteSet(H) /\ Cardinality(H) <= Cardinality(N)
    BY <1>1, <2>1, FS_Subset
  <2>3. Cardinality(H) \in Nat /\ Cardinality(N) \in Nat
    BY <1>1, <2>2, FS_CardinalityType
  <2>4. Cardinality(H) \in 0 .. d
    BY <1>1, <2>2, <2>3
  <2> QED  BY <2>4 DEF H
<1>3. c = Counts(i, N)[N]
  BY CountedUnfolds
<1>4. /\ DOMAIN c = L
      /\ \A b \in L : r \in c[b] <=> Bit(u, b)
  <2> HIDE DEF N
  <2>1. /\ DOMAIN Counts(i, N)[N] = 0 .. Planes - 1
        /\ \A b \in 0 .. Planes - 1 :
             r \in Counts(i, N)[N][b] <=> Bit(Cardinality({j \in N : r \in Unsatisfied(i, j)}), b)
    BY <1>1, CountDigits
  <2>2. Against(i, r) = {j \in N : r \in Unsatisfied(i, j)}
    BY DEF Against, N
  <2> QED  BY <1>3, <2>1, <2>2
<1> HIDE DEF N, u, d, c
<1>5. ASSUME NEW v \in 0 .. d PROVE r \in Equals(c, v) <=> v = u
  <2>1. r \in Equals(c, v) <=> \A b \in L : Bit(u, b) <=> Bit(v, b)
    BY <1>4 DEF Equals
  <2>2. ASSUME \A b \in L : Bit(u, b) <=> Bit(v, b) PROVE v = u
    <3>1. u \in Nat /\ v \in Nat /\ Planes \in Nat /\ u < Power[Planes] /\ v < Power[Planes]
      <4>1. Power[Planes] \in Nat
        BY <1>1, PowerStep
      <4> QED  BY <1>1, <1>2, <4>1
    <3> QED  BY <2>2, <3>1, DigitsTell
  <2> QED  BY <2>1, <2>2
<1> QED  BY <1>2, <1>5 DEF u, d, c

LEMMA CountAsSum ==
    ASSUME NEW D, IsFiniteSet(D), NEW S, S \subseteq D
    PROVE  SumFunctionOnSet([x \in D |-> IF x \in S THEN 1 ELSE 0], D) = Cardinality(S)
<1> DEFINE one == [x \in D |-> 1]
           its == [x \in S |-> 1]
           w == Within(one, D, S)
<1>1. \A x \in D : one[x] \in Int
  OBVIOUS
<1>2. \A x \in S : one[x] = its[x]
  OBVIOUS
<1>3. w = [x \in D |-> IF x \in S THEN 1 ELSE 0]
  BY DEF Within
<1>4. IsFiniteSet(S)
  BY FS_Subset
<1>5. SumFunctionOnSet(its, S) = Cardinality(S)
  BY <1>4, SumOfOnes
<1> HIDE DEF one, its
<1>6. SumFunctionOnSet(one, S) = SumFunctionOnSet(w, D)
  BY <1>1, SumWithin
<1> HIDE DEF w
<1>7. SumFunctionOnSet(one, S) = SumFunctionOnSet(its, S)
  BY <1>2, <1>4, SumEqual
<1> QED  BY <1>3, <1>5, <1>6, <1>7

(* In a plain model the rise of a flip follows from the unsatisfied edges.  *)
LEMMA RiseOfFlip ==
    ASSUME model \in Models, Plain, word \in [Sites -> SUBSET Lanes],
           NEW i \in Sites, NEW r \in Lanes
    PROVE  (-2 * Spins(word, r)[i] * Field(View, Spins(word, r), i)) \div Unit
             = Rise(i, Cardinality(Against(i, r)))
<1> DEFINE V == Sites
           s == Spins(word, r)
           N == Neighbours(i)
           H == Against(i, r)
           c == Coupled(View, s)[i]
           f == [j \in V |-> IF j \in H THEN 1 ELSE 0]
           g == [j \in V |-> IF j \in N THEN 1 ELSE 0]
           u == Cardinality(H)
           d == Cardinality(N)
<1>1. IsModel(View) /\ Vars(View) = V /\ i \in V /\ IsFiniteSet(V)
  <2>1. IsModel(View) /\ Vars(View) = V
    BY MultiModel
  <2> QED  BY <2>1, DegreeFits
<1>2. H \subseteq N /\ N \subseteq V
  BY DEF Against, Neighbours
<1>3. u \in Nat /\ d \in Nat
  <2> HIDE DEF V, N, H
  <2>1. IsFiniteSet(N) /\ IsFiniteSet(H)
    BY <1>1, <1>2, FS_Subset
  <2> QED  BY <2>1, FS_CardinalityType
<1>4. \A j \in V : s[j] = (IF r \in word[j] THEN 1 ELSE -1) /\ s[j] \in {-1, 1}
  BY DEF Spins
<1>5. ASSUME NEW j \in V PROVE c[j] \in Int /\ c[j] = 8 * f[j] + -4 * g[j]
  <2> DEFINE q == View.quad[i][j]
             a == s[i]
             b == s[j]
  <2>1. c[j] = a * q * b
    BY <1>1 DEF Coupled
  <2>2. f[j] = (IF j \in H THEN 1 ELSE 0) /\ g[j] = (IF j \in N THEN 1 ELSE 0)
    OBVIOUS
  <2>3. /\ a = (IF r \in word[i] THEN 1 ELSE -1)
        /\ b = (IF r \in word[j] THEN 1 ELSE -1)
    BY <1>1, <1>4
  <2>4. j \in N <=> q # 0
    BY DEF Neighbours
  <2>5. j \in N => q \in {-4, 4}
    BY DEF Plain, Unit
  <2>6. j \in H <=> j \in N /\ r \in Unsatisfied(i, j)
    BY DEF Against
  <2>7. /\ q > 0 => (r \in Unsatisfied(i, j) <=> (r \in word[i] <=> r \in word[j]))
        /\ ~(q > 0) => (r \in Unsatisfied(i, j) <=> ~(r \in word[i] <=> r \in word[j]))
    BY DEF Unsatisfied, Xor
  <2> HIDE DEF c, f, g, q, a, b, N, H
  <2>8. CASE q = 0
    <3>1. j \notin N /\ j \notin H
      BY <2>4, <2>6, <2>8
    <3>2. a * 0 * b = 0
      BY <2>3
    <3> QED  BY <2>1, <2>2, <2>8, <3>1, <3>2
  <2>9. CASE q = 4
    <3>1. j \in N /\ (j \in H <=> (r \in word[i] <=> r \in word[j]))
      BY <2>4, <2>6, <2>7, <2>9
    <3>2. CASE r \in word[i] /\ r \in word[j]
      BY <2>1, <2>2, <2>3, <2>9, <3>1, <3>2
    <3>3. CASE r \in word[i] /\ r \notin word[j]
      BY <2>1, <2>2, <2>3, <2>9, <3>1, <3>3
    <3>4. CASE r \notin word[i] /\ r \in word[j]
      BY <2>1, <2>2, <2>3, <2>9, <3>1, <3>4
    <3>5. CASE r \notin word[i] /\ r \notin word[j]
      BY <2>1, <2>2, <2>3, <2>9, <3>1, <3>5
    <3> QED  BY <3>2, <3>3, <3>4, <3>5
  <2>10. CASE q = -4
    <3>1. j \in N /\ (j \in H <=> ~(r \in word[i] <=> r \in word[j]))
      BY <2>4, <2>6, <2>7, <2>10
    <3>2. CASE r \in word[i] /\ r \in word[j]
      BY <2>1, <2>2, <2>3, <2>10, <3>1, <3>2
    <3>3. CASE r \in word[i] /\ r \notin word[j]
      BY <2>1, <2>2, <2>3, <2>10, <3>1, <3>3
    <3>4. CASE r \notin word[i] /\ r \in word[j]
      BY <2>1, <2>2, <2>3, <2>10, <3>1, <3>4
    <3>5. CASE r \notin word[i] /\ r \notin word[j]
      BY <2>1, <2>2, <2>3, <2>10, <3>1, <3>5
    <3> QED  BY <3>2, <3>3, <3>4, <3>5
  <2> QED  BY <2>4, <2>5, <2>8, <2>9, <2>10
<1>6. s[i] * Pull(View, s, i) = SumFunctionOnSet(c, V) /\ Pull(View, s, i) \in Int
  <2>1. IsState(View, s)
    <3>1. s \in [V -> Int]
      BY <1>4 DEF Spins
    <3> QED  BY <1>1, <3>1 DEF IsState
  <2>2. Row(Coupled(View, s), V, i) = SumFunctionOnSet(c, V)
    BY DEF Row
  <2> HIDE DEF c, s
  <2> QED  BY <1>1, <2>1, <2>2, PullType
<1>7. Field(View, s, i) = Pull(View, s, i)
  <2>1. View.linear[i] = 0
    BY DEF Plain
  <2> HIDE DEF s
  <2> QED  BY <1>6, <2>1 DEF Field
<1>8. s[i] \in {-1, 1}
  BY <1>1, <1>4
<1>9. \A j \in V : f[j] \in Int /\ g[j] \in Int
  OBVIOUS
<1>10. SumFunctionOnSet(f, V) = u
  <2> HIDE DEF V, H, N
  <2> QED  BY <1>1, <1>2, CountAsSum
<1>11. SumFunctionOnSet(g, V) = d
  <2> HIDE DEF V, H, N
  <2> QED  BY <1>1, <1>2, CountAsSum
<1>12. Rise(i, u) = 2 * d - 4 * u
  BY DEF Rise, Degree
<1> HIDE DEF V, N, H, c, f, g, s, u, d
<1>13. SumFunctionOnSet(c, V) = 8 * u + -4 * d
  <2> DEFINE a == 8
             b == -4
  <2>1. IsMix(c, a, f, b, g, V)
    <3>1. a \in Int /\ b \in Int
      OBVIOUS
    <3>2. \A j \in V : f[j] \in Int /\ g[j] \in Int /\ c[j] = a * f[j] + b * g[j]
      BY <1>5, <1>9
    <3> HIDE DEF a, b
    <3> QED  BY <1>1, <3>1, <3>2 DEF IsMix
  <2>2. a = 8 /\ b = -4
    OBVIOUS
  <2> HIDE DEF a, b
  <2>3. SumFunctionOnSet(c, V) = a * SumFunctionOnSet(f, V) + b * SumFunctionOnSet(g, V)
    BY <2>1, SumMix
  <2> QED  BY <1>3, <1>10, <1>11, <2>2, <2>3
<1> DEFINE x == s[i]
           F == Field(View, s, i)
           h == 2 * d - 4 * u
<1>14. x \in {-1, 1} /\ F \in Int /\ x * F = 8 * u - 4 * d /\ h \in Int
  BY <1>3, <1>6, <1>7, <1>8, <1>13
<1> HIDE DEF x, F, h
<1>15. -2 * x * F = 4 * h
  <2>1. 4 * h = -2 * (8 * u - 4 * d)
    BY <1>3 DEF h
  <2>2. CASE x = 1
    BY <1>3, <1>14, <2>1, <2>2
  <2>3. CASE x = -1
    BY <1>3, <1>14, <2>1, <2>3
  <2> QED  BY <1>14, <2>2, <2>3
<1>16. (4 * h) \div 4 = h
  BY <1>14, WholeQuarters
<1>17. (-2 * x * F) \div Unit = h
  BY <1>15, <1>16 DEF Unit
<1> QED  BY <1>12, <1>17 DEF x, F, h, s, u, H

(* The lanes accept by one of the downhill counts, or by an uphill count and *)
(* its threshold.                                                           *)
LEMMA AcceptedLanes ==
    ASSUME NEW i, NEW c
    PROVE  \A r :
      r \in Accepted(i, c) <=>
        \/ \E v \in Downhill(i) : r \in Equals(c, v)
        \/ \E v \in Uphill(i) : r \in Equals(c, v) /\ r \in RandLt(rand, Threshold[sweep][Rise(i, v)])
<1> DEFINE P == {v \in Uphill(i) : Equals(c, v) # {}}
           X == {Equals(c, v) : v \in Downhill(i)}
           Y == {Equals(c, v) \cap RandLt(rand, Threshold[sweep][Rise(i, v)]) : v \in P}
<1>1. Accepted(i, c) = (UNION X) \cup (UNION Y)
  BY DEF Accepted
<1>2. \A r : r \in UNION X <=> \E v \in Downhill(i) : r \in Equals(c, v)
  OBVIOUS
<1>3. \A r : r \in UNION Y <=>
        \E v \in P : r \in Equals(c, v) /\ r \in RandLt(rand, Threshold[sweep][Rise(i, v)])
  OBVIOUS
<1> QED  BY <1>1, <1>2, <1>3

(* The lanes that flip a site are those in which the plain rule says so.  A  *)
(* sweep runs on plain models only, and on numbers of B bits.               *)
KernelInv ==
    /\ model \in Models /\ word \in [Sites -> SUBSET Lanes]
    /\ rand = NotDrawn \/ rand \in [0 .. B - 1 -> SUBSET Lanes]
    /\ next \in Nat \ {0} /\ sweep \in Nat
    /\ pc = "sweep" => Plain

LEMMA LaneDecides ==
    ASSUME KernelInv, Plain, Sweeping, NEW i \in Sites, NEW r \in Lanes,
           NeedsDraw(i) => rand # NotDrawn
    PROVE  r \in Accepted(i, Counted(i)) <=> Accepts(r, i)
<1> DEFINE c == Counted(i)
           u == Cardinality(Against(i, r))
           t == Threshold[sweep]
           In(v) == r \in Equals(c, v)
<1>1. u \in 0 .. Degree(i) /\ \A v \in 0 .. Degree(i) : In(v) <=> v = u
  BY EqualsCount DEF KernelInv
<1>2. Degree(i) \in 0 .. Cardinality(Sites) - 1
  BY DegreeFits DEF KernelInv
<1>3. Accepts(r, i) <=> Rise(i, u) <= 0 \/ NumberOf(r) < t[Rise(i, u)]
  <2>1. (-2 * Spins(word, r)[i] * Field(View, Spins(word, r), i)) \div Unit = Rise(i, u)
    BY RiseOfFlip DEF KernelInv
  <2> HIDE DEF u, t
  <2> QED  BY <2>1 DEF Accepts, t
<1>4. \A v : v \in Downhill(i) <=> v \in 0 .. Degree(i) /\ Rise(i, v) <= 0
  BY DEF Downhill
<1>5. \A v : v \in Uphill(i) <=> v \in 0 .. Degree(i) /\ ~(Rise(i, v) <= 0)
  BY DEF Uphill, Downhill
<1>6. r \in Accepted(i, c) <=>
        \/ \E v \in Downhill(i) : In(v)
        \/ \E v \in Uphill(i) : In(v) /\ r \in RandLt(rand, t[Rise(i, v)])
  <2> HIDE DEF c
  <2> QED  BY AcceptedLanes DEF t
<1> HIDE DEF c, u, t, In
<1>7. CASE Rise(i, u) <= 0
  <2>1. u \in Downhill(i) /\ In(u)
    BY <1>1, <1>4, <1>7
  <2> QED  BY <1>3, <1>6, <1>7, <2>1 DEF c
<1>8. CASE ~(Rise(i, u) <= 0)
  <2>1. u \in Uphill(i) /\ In(u)
    BY <1>1, <1>5, <1>8
  <2>2. r \in Accepted(i, c) <=> r \in RandLt(rand, t[Rise(i, u)])
    <3>1. ~\E v \in Downhill(i) : In(v)
      BY <1>1, <1>4, <1>8
    <3>2. \A v \in Uphill(i) : In(v) <=> v = u
      BY <1>1, <1>5
    <3> QED  BY <1>6, <2>1, <3>1, <3>2
  <2>3. rand \in [0 .. B - 1 -> SUBSET Lanes]
    <3>1. Equals(c, u) # {}
      BY <2>1 DEF In
    <3>2. NeedsDraw(i)
      BY <2>1, <3>1 DEF NeedsDraw, c
    <3> QED  BY <3>2 DEF KernelInv
  <2>4. t[Rise(i, u)] \in 0 .. Power[B] - 1
    <3>1. sweep \in 0 .. NumSweeps - 1
      BY MultiSpinAssumption DEF MultiSpinInputs, Sweeping, KernelInv
    <3>2. /\ \A m \in Models : \A s \in 0 .. NumSweeps - 1 :
               \A d \in 0 .. Cardinality(Vars(m)) - 1 : \A v \in 0 .. d :
                 2 * d - 4 * v > 0 => Threshold[s][2 * d - 4 * v] \in 0 .. Power[B] - 1
          /\ model \in Models /\ Sites = Vars(model)
      BY MultiSpinAssumption DEF MultiSpinInputs, KernelInv, Sites
    <3> DEFINE d == Degree(i)
    <3>3. d \in 0 .. Cardinality(Vars(model)) - 1 /\ u \in 0 .. d
      BY <1>1, <1>2, <3>2
    <3>4. Rise(i, u) = 2 * d - 4 * u /\ 2 * d - 4 * u > 0
      <4>1. Rise(i, u) = 2 * d - 4 * u
        BY DEF Rise
      <4>2. d \in Int /\ u \in Int
        BY <3>3
      <4> HIDE DEF d
      <4> QED  BY <1>8, <4>1, <4>2
    <3> HIDE DEF d
    <3>5. Threshold[sweep][2 * d - 4 * u] \in 0 .. Power[B] - 1
      BY <3>1, <3>2, <3>3, <3>4
    <3> QED  BY <3>4, <3>5 DEF t
  <2>5. r \in RandLt(rand, t[Rise(i, u)]) <=> NumberOf(r) < t[Rise(i, u)]
    BY <2>3, <2>4, DrawsCompare
  <2> QED  BY <1>3, <1>8, <2>2, <2>5 DEF c
<1> QED  BY <1>7, <1>8

LEMMA KernelStarts == MultiInit => KernelInv
BY DEF MultiInit, KernelInv

LEMMA KernelStep == KernelInv /\ [MultiNext]_multispin => KernelInv'
<1> SUFFICES ASSUME KernelInv, [MultiNext]_multispin PROVE KernelInv'
  OBVIOUS
<1>1. model' = model
  BY DEF MultiNext, Construct, Draw, Update, EndSweep, Finish, multispin
<1>2. Sites' = Sites /\ Lanes' = Lanes /\ NotDrawn' = NotDrawn
  BY <1>1 DEF Sites, Vars, Lanes, NotDrawn
<1>3. Plain' <=> Plain
  BY <1>1 DEF Plain, View, Sites, Vars, Neighbours
<1>4. CASE Construct
  <2>1. /\ pc' = (IF Plain THEN "sweep" ELSE "refused")
        /\ UNCHANGED <<word, rand, sweep, next>>
    BY <1>4 DEF Construct
  <2> QED  BY <1>1, <1>2, <1>3, <2>1 DEF KernelInv
<1>5. CASE Draw
  <2>1. rand' \in [0 .. B - 1 -> SUBSET Lanes] /\ UNCHANGED <<word, sweep, next, pc>>
    BY <1>5 DEF Draw
  <2> QED  BY <1>1, <1>2, <1>3, <2>1 DEF KernelInv
<1>6. CASE Update
  <2>1. rand' = NotDrawn /\ next' = next + 1 /\ UNCHANGED <<sweep, pc>>
    BY <1>6 DEF Update
  <2>2. word' \in [Sites -> SUBSET Lanes]
    <3> DEFINE A == Accepted(next, Counted(next))
    <3>1. A \subseteq Lanes
      BY AcceptedLanes DEF Equals
    <3>2. /\ next \in Sites
          /\ word' = IF Neighbours(next) = {} THEN word ELSE [word EXCEPT ![next] = Xor(@, A)]
      BY <1>6 DEF Update
    <3> HIDE DEF A
    <3>3. Xor(word[next], A) \subseteq Lanes
      BY <3>1, <3>2 DEF KernelInv, Xor
    <3> QED  BY <3>2, <3>3 DEF KernelInv
  <2> QED  BY <1>1, <1>2, <1>3, <2>1, <2>2 DEF KernelInv
<1>7. CASE EndSweep
  <2>1. sweep' = sweep + 1 /\ next' = 1 /\ UNCHANGED <<word, rand, pc>>
    BY <1>7 DEF EndSweep
  <2> QED  BY <1>1, <1>2, <1>3, <2>1 DEF KernelInv
<1>8. CASE Finish
  <2>1. pc' = "done" /\ UNCHANGED <<word, rand, sweep, next>>
    BY <1>8 DEF Finish
  <2> QED  BY <1>1, <1>2, <1>3, <2>1 DEF KernelInv
<1>9. CASE UNCHANGED multispin
  BY <1>1, <1>2, <1>3, <1>9 DEF multispin, KernelInv
<1> QED  BY <1>4, <1>5, <1>6, <1>7, <1>8, <1>9 DEF MultiNext

LEMMA LaneStep ==
    ASSUME KernelInv, [MultiNext]_multispin, next' = next + 1, Neighbours(next) # {},
           NEW r \in Lanes
    PROVE  Spins(word', r) = IF Accepts(r, next) THEN [Spins(word, r) EXCEPT ![next] = -@]
                             ELSE Spins(word, r)
<1> DEFINE A == Accepted(next, Counted(next))
           s == Spins(word, r)
<1>1. Update
  BY DEF KernelInv, MultiNext, Construct, Draw, EndSweep, Finish, multispin
<1>2. /\ Sweeping /\ next \in Sites /\ (NeedsDraw(next) => rand # NotDrawn)
      /\ word' = [word EXCEPT ![next] = Xor(@, A)]
  BY <1>1 DEF Update
<1>3. Plain /\ word \in [Sites -> SUBSET Lanes]
  BY <1>2 DEF KernelInv, Sweeping
<1>4. r \in A <=> Accepts(r, next)
  BY <1>2, <1>3, LaneDecides
<1> HIDE DEF A
<1>5. word'[next] = Xor(word[next], A) /\ \A i \in Sites : i # next => word'[i] = word[i]
  BY <1>2, <1>3
<1>6. r \in word'[next] <=> ~(r \in word[next] <=> r \in A)
  BY <1>5 DEF Xor
<1>7. /\ s \in [Sites -> {-1, 1}] /\ \A i \in Sites : s[i] = IF r \in word[i] THEN 1 ELSE -1
      /\ Spins(word', r) \in [Sites -> {-1, 1}]
      /\ \A i \in Sites : Spins(word', r)[i] = IF r \in word'[i] THEN 1 ELSE -1
  BY DEF Spins
<1> DEFINE z == Spins(word', r)
<1> HIDE DEF s, z
<1>8. \A i \in Sites : i # next => z[i] = s[i]
  BY <1>5, <1>7 DEF z
<1>9. z[next] = IF r \in A THEN -s[next] ELSE s[next]
  <2>1. /\ s[next] = (IF r \in word[next] THEN 1 ELSE -1)
        /\ z[next] = (IF r \in word'[next] THEN 1 ELSE -1)
    BY <1>2, <1>7 DEF z
  <2>2. CASE r \in A /\ r \in word[next]
    <3>1. r \notin word'[next]
      BY <1>6, <2>2
    <3>2. s[next] = 1 /\ z[next] = -1
      BY <2>1, <2>2, <3>1
    <3> QED  BY <2>2, <3>2
  <2>3. CASE r \in A /\ r \notin word[next]
    <3>1. r \in word'[next]
      BY <1>6, <2>3
    <3>2. s[next] = -1 /\ z[next] = 1
      BY <2>1, <2>3, <3>1
    <3>3. \A a, b \in Int : a + b = 0 => b = -a
      OBVIOUS
    <3>4. s[next] \in Int /\ z[next] \in Int /\ s[next] + z[next] = 0
      BY <3>2
    <3>5. z[next] = -s[next]
      BY <3>3, <3>4
    <3> QED  BY <2>3, <3>5
  <2>4. CASE r \notin A
    <3>1. r \in word'[next] <=> r \in word[next]
      BY <1>6, <2>4
    <3>2. z[next] = s[next]
      BY <2>1, <3>1
    <3> QED  BY <2>4, <3>2
  <2> QED  BY <2>2, <2>3, <2>4
<1>10. z = IF r \in A THEN [s EXCEPT ![next] = -@] ELSE s
  <2>1. z \in [Sites -> {-1, 1}] /\ s \in [Sites -> {-1, 1}]
    BY <1>7 DEF z
  <2>2. CASE r \in A
    BY <1>2, <1>8, <1>9, <2>1, <2>2
  <2>3. CASE r \notin A
    BY <1>2, <1>8, <1>9, <2>1, <2>3
  <2> QED  BY <2>2, <2>3
<1> QED  BY <1>4, <1>10 DEF z, s

(* For words of any width, models of any size and numbers of any length: a  *)
(* lane flips a site exactly when the plain rule, on its own spins and its   *)
(* own number, accepts the flip, and flips nothing else                      *)
(* (multispin.hpp:15-34, 95-132).                                            *)
THEOREM LanesAreAnnealers == MultiSpec => LanesDecideAlone
<1>1. MultiInit => KernelInv
  BY KernelStarts
<1>2. KernelInv /\ [MultiNext]_multispin => KernelInv'
  BY KernelStep
<1>3. KernelInv /\ [MultiNext]_multispin =>
        [next' = next + 1 /\ Neighbours(next) # {} =>
           \A r \in Lanes :
             Spins(word', r) = IF Accepts(r, next) THEN [Spins(word, r) EXCEPT ![next] = -@]
                               ELSE Spins(word, r)]_multispin
  BY LaneStep
<1> QED  BY <1>1, <1>2, <1>3, PTL DEF MultiSpec, LanesDecideAlone
=============================================================================
