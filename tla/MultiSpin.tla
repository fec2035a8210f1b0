----------------------------- MODULE MultiSpin ------------------------------
(***************************************************************************)
(* The multi-spin annealer of include/anneal/multispin.hpp: as many        *)
(* replicas as a machine word has bits, updated together with bitwise      *)
(* operations.  word[i] holds spin i of every replica.                     *)
(*                                                                         *)
(* A word is modelled as the set of the lanes whose bit is 1, so that &,   *)
(* |, ^ and ~ are the operations on sets.  A number per lane is a function *)
(* from bit positions to words.                                            *)
(***************************************************************************)
EXTENDS Bqm, FiniteSetsExt

CONSTANTS
    Models,         \* inputs: the models to solve
    W,              \* replicas per word, 64 in the code
    B,              \* bits of the numbers that are drawn, 16 in the code
    NumSweeps,      \* num_sweeps
    SampleInterval, \* sample_interval, 0 counts as 1
    Threshold       \* [sweep, energy rise -> floor(exp(-rise / T) * 2^B)]

Lanes == 0 .. W - 1

\* Powers of two
Power[b \in Nat] == IF b = 0 THEN 1 ELSE 2 * Power[b - 1]

\* Every rise that d neighbours, v of them unsatisfied, can cause has a threshold.
\* As exp(-rise / T) is below one, the threshold has B bits; it is 2^B only when the
\* exponential rounds to one, at temperatures above 10^16.
MultiSpinInputs ==
    /\ W \in Nat \ {0} /\ B \in Nat \ {0} /\ NumSweeps \in Nat /\ SampleInterval \in Nat
    /\ \A m \in Models : IsModel(m) /\ Vars(m) = 1 .. Cardinality(Vars(m))
    /\ \A m \in Models : \A t \in 0 .. NumSweeps - 1 :
         \A d \in 0 .. Cardinality(Vars(m)) - 1 : \A v \in 0 .. d :
           2 * d - 4 * v > 0 => Threshold[t][2 * d - 4 * v] \in 0 .. Power[B] - 1

ASSUME MultiSpinAssumption == MultiSpinInputs

VARIABLES
    model,      \* the input
    word,       \* the spins of all replicas
    rand,       \* rbits when they have been drawn for this site
    best,       \* out.best_state
    bestEnergy, \* out.best_energy
    sweep,      \* sweeps done
    next,       \* the site to update
    pc          \* "construct", "refused", "sweep" or "done"

multispin == <<model, word, rand, best, bestEnergy, sweep, next, pc>>

\* CompactBQM: the model in spins.
View == ToSpin(model)

Sites == Vars(model)

Neighbours(i) == {j \in Sites : View.quad[i][j] # 0}

Degree(i) == Cardinality(Neighbours(i))

Bit(n, b) == (n \div Power[b]) % 2 = 1

Xor(x, y) == (x \ y) \cup (y \ x)

\* std::bit_width
BitWidth(n) == Min({b \in 0 .. n : n < Power[b]})

\* Mutant of Planes: the largest degree itself does not fit.
PlanesBelow == BitWidth(Max({1} \cup {Degree(i) : i \in Sites}) - 1)

\* planes_: bits of a counter of unsatisfied edges.
Planes == BitWidth(Max({0} \cup {Degree(i) : i \in Sites})) + 1

\* The lanes in which the edge of i and j raises the energy.
Unsatisfied(i, j) ==
    IF View.quad[i][j] > 0 THEN Lanes \ Xor(word[i], word[j]) ELSE Xor(word[i], word[j])

\* The ripple-carry adder: one more in the lanes of carry.  The carry reaches bit b
\* in the lanes whose lower bits are all 1.
Incremented(count, carry) ==
    [b \in DOMAIN count |-> Xor(count[b], {r \in carry : \A a \in 0 .. b - 1 : r \in count[a]})]

\* kplane: the number of unsatisfied edges of i, in every lane.
Counted(i) ==
    FoldSet(LAMBDA j, count : Incremented(count, Unsatisfied(i, j)),
            [b \in 0 .. Planes - 1 |-> {}], Neighbours(i))

\* equals: the lanes in which the count is v.
Equals(count, v) == {r \in Lanes : \A b \in DOMAIN count : r \in count[b] <=> Bit(v, b)}

\* rand_lt: the lanes whose number is below k: at the highest bit in which they
\* differ, k has the 1.
RandLt(bits, k) ==
    {r \in Lanes : \E b \in DOMAIN bits :
        /\ Bit(k, b) /\ r \notin bits[b]
        /\ \A c \in DOMAIN bits : c > b => (r \in bits[c] <=> Bit(k, c))}

\* The rise of the energy when a site with v unsatisfied edges flips.
Rise(i, v) == 2 * Degree(i) - 4 * v

Downhill(i) == {v \in 0 .. Degree(i) : Rise(i, v) <= 0}

Uphill(i) == 0 .. Degree(i) \ Downhill(i)

\* accept: the lanes that flip site i.
Accepted(i, count) ==
    (UNION {Equals(count, v) : v \in Downhill(i)})
    \cup (UNION {Equals(count, v) \cap RandLt(rand, Threshold[sweep][Rise(i, v)]) :
                     v \in {u \in Uphill(i) : Equals(count, u) # {}}})

\* Lane r's state
Spins(words, r) == [i \in Sites |-> IF r \in words[i] THEN 1 ELSE -1]

\* sample_best: the first of the lanes with the lowest energy.
Best(words) ==
    LET energy == [r \in Lanes |-> Energy(View, Spins(words, r))]
    IN  Min({r \in Lanes : \A q \in Lanes : energy[r] <= energy[q]})

\* The better of the best state so far and the best of the words.
Sample ==
    LET e == Energy(View, Spins(word, Best(word)))
    IN  /\ best' = IF e < bestEnergy THEN Spins(word, Best(word)) ELSE best
        /\ bestEnergy' = IF e < bestEnergy THEN e ELSE bestEnergy

-----------------------------------------------------------------------------
\* No number has been drawn for this site yet.
NotDrawn == <<>>

MultiInit ==
    /\ model \in Models
    /\ word \in [Sites -> SUBSET Lanes]
    /\ rand = NotDrawn
    /\ best = Spins(word, Best(word)) /\ bestEnergy = Energy(View, best)
    /\ sweep = 0 /\ next = 1
    /\ pc = "construct"

\* validate_pm1_zero_field
Plain ==
    \A i \in Sites : View.linear[i] = 0 /\ \A j \in Neighbours(i) : View.quad[i][j] \in {-Unit, Unit}

Construct ==
    /\ pc = "construct"
    /\ pc' = IF Plain THEN "sweep" ELSE "refused"
    /\ UNCHANGED <<model, word, rand, best, bestEnergy, sweep, next>>

Sweeping == pc = "sweep" /\ sweep < NumSweeps

NeedsDraw(i) == \E v \in Uphill(i) : Equals(Counted(i), v) # {}

\* The numbers are only drawn when some lane has an uphill flip to decide.
Draw ==
    /\ Sweeping /\ next \in Sites
    /\ rand = NotDrawn /\ NeedsDraw(next)
    /\ rand' \in [0 .. B - 1 -> SUBSET Lanes]
    /\ UNCHANGED <<model, word, best, bestEnergy, sweep, next, pc>>

\* All lanes decide on site next; a site without edges is left alone.
Update ==
    /\ Sweeping /\ next \in Sites
    /\ NeedsDraw(next) => rand # NotDrawn
    /\ word' = IF Neighbours(next) = {} THEN word
               ELSE [word EXCEPT ![next] = Xor(@, Accepted(next, Counted(next)))]
    /\ rand' = NotDrawn
    /\ next' = next + 1
    /\ UNCHANGED <<model, best, bestEnergy, sweep, pc>>

SampleDue == SampleInterval <= 1 \/ (sweep + 1) % SampleInterval = 0

EndSweep ==
    /\ Sweeping /\ next \notin Sites
    /\ IF SampleDue THEN Sample ELSE UNCHANGED <<best, bestEnergy>>
    /\ sweep' = sweep + 1 /\ next' = 1
    /\ UNCHANGED <<model, word, rand, pc>>

\* Mutant of Finish: the words after the last sample are lost.
FinishUnsampled ==
    /\ pc = "sweep" /\ sweep = NumSweeps
    /\ pc' = "done"
    /\ UNCHANGED <<model, word, rand, best, bestEnergy, sweep, next>>

\* One more sample, and the end.
Finish ==
    /\ pc = "sweep" /\ sweep = NumSweeps
    /\ Sample
    /\ pc' = "done"
    /\ UNCHANGED <<model, word, rand, sweep, next>>

MultiNext == Construct \/ Draw \/ Update \/ EndSweep \/ Finish

MultiSpec == MultiInit /\ [][MultiNext]_multispin

-----------------------------------------------------------------------------
(* Properties *)

NumberOf(r) == SumFunction([b \in DOMAIN rand |-> IF r \in rand[b] THEN Power[b] ELSE 0])

\* Whether the plain rule accepts the flip of site i in lane r: on the energy of the
\* lane's own spins, with the lane's own number.
Accepts(r, i) ==
    LET s == Spins(word, r)
        rise == (-2 * s[i] * Field(View, s, i)) \div Unit
    IN  rise <= 0 \/ NumberOf(r) < Threshold[sweep][rise]

\* The lanes share one word, one counter and one comparison, but each is an
\* annealer of its own: it flips exactly when the plain rule, applied to its own
\* spins and its own number, says so, and flips nothing else
\* (multispin.hpp:15-34, 95-132).
LanesDecideAlone ==
    [][next' = next + 1 /\ Neighbours(next) # {} =>
        \A r \in Lanes :
            Spins(word', r) = IF Accepts(r, next) THEN [Spins(word, r) EXCEPT ![next] = -@]
                              ELSE Spins(word, r)]_multispin

\* The best energy is that of the best state, in the caller's model; every sweep
\* that is sampled counts, and in the end no replica is below it
\* (multispin.hpp:84, 135-151, 208-223).
NoReplicaIsBelowTheBest ==
    /\ bestEnergy = Energy(model, FromSpins(model, best))
    /\ pc = "done" \/ (pc = "sweep" /\ next = 1 /\ sweep % Max({1, SampleInterval}) = 0) =>
         \A r \in Lanes : bestEnergy <= Energy(View, Spins(word, r))
=============================================================================
