----------------------- MODULE ParallelAnnealerProps ------------------------
(***************************************************************************)
(* What parallel restarts must guarantee: the answer of the same seeds run *)
(* one after another, whatever the threads do.                             *)
(***************************************************************************)
EXTENDS ParallelAnnealer

TypeOK ==
    /\ outcome \in [Replicas -> Energies]
    /\ nextReplica \in Nat
    /\ worker \in [Workers -> {"off", "take", "anneal", "joinable"}]
    /\ held \in [Workers -> Nat]
    /\ slots \in [Replicas -> [ran : BOOLEAN, energy : Int]]
    /\ caller \in {"spawn", "join", "reduce", "done"}
    /\ spawned \in 0 .. NumWorkers
    /\ scan \in 1 .. NumReplicas
    /\ bestReplica \in Replicas

\* No two threads ever anneal the same replica, so that each slot has a single
\* writer and needs no lock (parallel.hpp:15-24).
OneWriterPerSlot ==
    \A v, w \in Workers :
        worker[v] = "anneal" /\ worker[w] = "anneal" /\ held[v] = held[w] => v = w

\* A slot is written once and for all, and never while the calling thread reads
\* the slots (parallel.hpp:23-25).
SlotsAreFinal ==
    [][\A r \in Replicas : slots[r].ran \/ caller \in {"reduce", "done"}
           => slots'[r] = slots[r]]_vars

\* The first of the best replicas, by the seeds alone: what a single thread that
\* anneals one replica after another would return.
Sequential(r) ==
    /\ \A q \in Replicas : outcome[r] <= outcome[q]
    /\ \A q \in Replicas : q < r => outcome[r] < outcome[q]

\* With at least one thread the answer, and every slot, is the sequential one
\* (parallel.hpp:5-9, 70-73, 91-92, test_parallel.cpp:41-43).
SameAsSequential ==
    caller = "done" /\ NumThreads > 0 =>
        /\ \A r \in Replicas : slots[r] = [ran |-> TRUE, energy |-> outcome[r]]
        /\ Sequential(bestReplica)

\* solve() returns: no thread waits for another one, and the queue is finite.
Returns == <>(caller = "done")
=============================================================================
