-------------------------- MODULE ParallelAnnealer --------------------------
(***************************************************************************)
(* Parallel restarts, include/anneal/parallel.hpp: worker threads pull     *)
(* replica indices from one atomic counter, anneal each replica with a     *)
(* seed of its own and write the result into the replica's slot; the       *)
(* calling thread joins them all and keeps the best slot.                  *)
(*                                                                         *)
(* A replica's result depends on its seed alone.  Here it is the value     *)
(* Outcome of an input, the same whichever worker computes it; with a      *)
(* deadline it would be any value, fixed when the replica is computed.     *)
(***************************************************************************)
EXTENDS Integers, FiniteSets, FiniteSetsExt

CONSTANTS
    NumReplicas,    \* num_replicas_
    NumThreads,     \* num_threads_, or what hardware_concurrency() returns
    Energies        \* the energies a replica may end with

ASSUME AnnealerAssumption ==
    /\ NumReplicas \in Nat \ {0}
    /\ NumThreads \in Nat
    /\ Energies \subseteq Int

Replicas == 0 .. NumReplicas - 1

\* One thread per replica at most.
NumWorkers == IF NumThreads < NumReplicas THEN NumThreads ELSE NumReplicas

Workers == 1 .. NumWorkers

VARIABLES
    outcome,        \* what the seed of each replica leads to, an input
    nextReplica,    \* next_replica, the shared counter
    worker,         \* "off", "take", "anneal" or "joinable", per thread
    held,           \* r, the replica a thread has taken
    slots,          \* out.replicas
    caller,         \* "spawn", "join", "reduce" or "done": the calling thread
    spawned,        \* how many threads it has started
    scan,           \* the next slot of the reduction
    bestReplica     \* out.best_replica

vars == <<outcome, nextReplica, worker, held, slots, caller, spawned, scan, bestReplica>>

\* A slot nobody has written: the vector's zero-initialised element.
Untouched == [ran |-> FALSE, energy |-> 0]

Init ==
    /\ outcome \in [Replicas -> Energies]
    /\ nextReplica = 0
    /\ worker = [w \in Workers |-> "off"]
    /\ held = [w \in Workers |-> 0]
    /\ slots = [r \in Replicas |-> Untouched]
    /\ caller = "spawn" /\ spawned = 0 /\ scan = 1 /\ bestReplica = 0

-----------------------------------------------------------------------------
(* The workers *)

\* Mutant of Take: the counter is no atomic, an increment may be lost.
TakeRacy(w) ==
    /\ worker[w] = "take"
    /\ nextReplica' \in {nextReplica, nextReplica + 1}
    /\ held' = [held EXCEPT ![w] = nextReplica]
    /\ worker' = [worker EXCEPT ![w] = IF nextReplica < NumReplicas THEN "anneal" ELSE "joinable"]
    /\ UNCHANGED <<outcome, slots, caller, spawned, scan, bestReplica>>

\* Mutant of Take: a thread waits for the empty queue to fill again.
TakeBlocked(w) ==
    /\ worker[w] = "take" /\ nextReplica < NumReplicas
    /\ nextReplica' = nextReplica + 1
    /\ held' = [held EXCEPT ![w] = nextReplica]
    /\ worker' = [worker EXCEPT ![w] = "anneal"]
    /\ UNCHANGED <<outcome, slots, caller, spawned, scan, bestReplica>>

\* fetch_add: take the next replica, or return when there is none.
Take(w) ==
    /\ worker[w] = "take"
    /\ nextReplica' = nextReplica + 1
    /\ held' = [held EXCEPT ![w] = nextReplica]
    /\ worker' = [worker EXCEPT ![w] = IF nextReplica < NumReplicas THEN "anneal" ELSE "joinable"]
    /\ UNCHANGED <<outcome, slots, caller, spawned, scan, bestReplica>>

\* Anneal the replica taken and write its slot.
Anneal(w) ==
    /\ worker[w] = "anneal"
    /\ slots' = [slots EXCEPT ![held[w]] = [ran |-> TRUE, energy |-> outcome[held[w]]]]
    /\ worker' = [worker EXCEPT ![w] = "take"]
    /\ UNCHANGED <<outcome, nextReplica, held, caller, spawned, scan, bestReplica>>

-----------------------------------------------------------------------------
(* The calling thread *)

Spawn ==
    /\ caller = "spawn" /\ spawned < NumWorkers
    /\ spawned' = spawned + 1
    /\ worker' = [worker EXCEPT ![spawned + 1] = "take"]
    /\ UNCHANGED <<outcome, nextReplica, held, slots, caller, scan, bestReplica>>

StartJoin ==
    /\ caller = "spawn" /\ spawned = NumWorkers
    /\ caller' = "join"
    /\ UNCHANGED <<outcome, nextReplica, worker, held, slots, spawned, scan, bestReplica>>

\* Mutant of Join: the first thread to return ends the wait.
JoinFirst ==
    /\ caller = "join"
    /\ \E w \in Workers : worker[w] = "joinable"
    /\ caller' = "reduce"
    /\ UNCHANGED <<outcome, nextReplica, worker, held, slots, spawned, scan, bestReplica>>

Join ==
    /\ caller = "join"
    /\ \A w \in Workers : worker[w] = "joinable"
    /\ caller' = "reduce"
    /\ UNCHANGED <<outcome, nextReplica, worker, held, slots, spawned, scan, bestReplica>>

\* Mutant of Reduce: a tie goes to the later replica.
ReduceLastWins ==
    /\ caller = "reduce" /\ scan < NumReplicas
    /\ bestReplica' = IF slots[scan].energy <= slots[bestReplica].energy THEN scan ELSE bestReplica
    /\ scan' = scan + 1
    /\ UNCHANGED <<outcome, nextReplica, worker, held, slots, caller, spawned>>

\* One comparison of the best-of reduction.
Reduce ==
    /\ caller = "reduce" /\ scan < NumReplicas
    /\ bestReplica' = IF slots[scan].energy < slots[bestReplica].energy THEN scan ELSE bestReplica
    /\ scan' = scan + 1
    /\ UNCHANGED <<outcome, nextReplica, worker, held, slots, caller, spawned>>

Return ==
    /\ caller = "reduce" /\ scan = NumReplicas
    /\ caller' = "done"
    /\ UNCHANGED <<outcome, nextReplica, worker, held, slots, spawned, scan, bestReplica>>

-----------------------------------------------------------------------------
Worker(w) == Take(w) \/ Anneal(w)

Caller == Spawn \/ StartJoin \/ Join \/ Reduce \/ Return

Next == Caller \/ \E w \in Workers : Worker(w)

\* The threads are scheduled, and an anneal ends: its sweeps are counted.
Fairness == WF_vars(Caller) /\ \A w \in Workers : WF_vars(Worker(w))

Spec == Init /\ [][Next]_vars /\ Fairness
=============================================================================
