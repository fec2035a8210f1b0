--------------------------- MODULE TemperingProofs --------------------------
(***************************************************************************)
(* Proofs about replica exchange, for models and ladders of any size: no   *)
(* replica's parts come apart, and the swap rates are fractions.           *)
(***************************************************************************)
EXTENDS ParallelTemperingProps, BqmTheorems

Rungs == 1 .. R

Spins == [Vars(model) -> {-1, 1}]

(* Who runs, and where in its loops.                                        *)
ControlInv ==
    /\ pc \in {"sweep", "exchange", "done"} /\ model \in Models
    /\ sweep \in Nat /\ rung \in Rungs /\ next \in Vars(model)
    /\ pc = "exchange" => ExchangeDue /\ rung \in 1 .. R - 1
    /\ pc = "done" => sweep = NumSweeps
    /\ pc # "done" => sweep < NumSweeps

(* The replicas, each with the fields and the energy of its own spins, in   *)
(* the spin model.                                                          *)
ReplicaInv ==
    /\ view = ToSpin(model)
    /\ spin \in [Rungs -> Spins]
    /\ field = [r \in Rungs |-> [i \in Vars(model) |-> Field(view, spin[r], i)]]
    /\ energy = [r \in Rungs |-> Energy(view, spin[r])]
    /\ best \in Spins /\ bestEnergy = Energy(view, best)
    /\ \A r \in Rungs : bestEnergy <= energy[r]

(* One exchange has been made for every full interval of sweeps, and the    *)
(* one under way has reached the pair rung.                                 *)
Exchanges == sweep \div Interval

SwapInv ==
    /\ swapAttempts = (R - 1) * Exchanges + (IF pc = "exchange" THEN rung - 1 ELSE 0)
    /\ swapAccepts \in [1 .. R - 1 -> Nat]
    /\ \A r \in 1 .. R - 1 :
         swapAccepts[r] <= Exchanges + (IF pc = "exchange" /\ r < rung THEN 1 ELSE 0)

-----------------------------------------------------------------------------
LEMMA Sizes == R \in Nat \ {0} /\ Interval \in Nat \ {0} /\ NumSweeps \in Nat
<1>1. R \in Nat /\ R # 0
  BY TemperingAssumption DEF R
<1>2. Interval \in Nat \ {0}
  BY TemperingAssumption DEF Interval
<1> QED  BY <1>1, <1>2, TemperingAssumption

LEMMA ModelSize ==
    ASSUME model \in Models
    PROVE  /\ IsModel(model) /\ Vars(model) = 1 .. Cardinality(Vars(model))
           /\ Cardinality(Vars(model)) \in Nat /\ 1 \in Vars(model)
<1> DEFINE n == Cardinality(Vars(model))
<1>1. IsModel(model) /\ Vars(model) = 1 .. n /\ Vars(model) # {}
  BY TemperingAssumption
<1>2. n \in Nat
  BY <1>1, FS_CardinalityType DEF IsModel
<1> HIDE DEF n
<1>3. 1 \in Vars(model)
  BY <1>1, <1>2
<1> QED  BY <1>1, <1>2, <1>3 DEF n

-----------------------------------------------------------------------------
(* The loops.                                                               *)
LEMMA InitControl == Init => ControlInv
<1> SUFFICES ASSUME Init PROVE ControlInv
  OBVIOUS
<1>1. model \in Models /\ sweep = 0 /\ rung = 1 /\ next = 1
      /\ pc = (IF NumSweeps = 0 THEN "done" ELSE "sweep")
  BY DEF Init
<1> QED  BY <1>1, Sizes, ModelSize DEF ControlInv, Rungs

LEMMA NextSweepControl ==
    ASSUME ControlInv, pc # "done", NextSweep, UNCHANGED model
    PROVE  ControlInv'
<1>1. sweep \in Nat /\ sweep < NumSweeps /\ model \in Models
  BY DEF ControlInv
<1>2. /\ sweep' = sweep + 1 /\ rung' = 1 /\ next' = 1 /\ model' = model
      /\ pc' = IF sweep + 1 < NumSweeps THEN "sweep" ELSE "done"
  BY DEF NextSweep
<1>3. 1 \in Vars(model)
  BY <1>1, ModelSize
<1> QED  BY <1>1, <1>2, <1>3, Sizes DEF ControlInv, Rungs

LEMMA AdvanceControl ==
    ASSUME ControlInv, pc = "sweep", Advance, UNCHANGED model
    PROVE  ControlInv'
<1> DEFINE n == Cardinality(Vars(model))
<1>1. /\ sweep \in Nat /\ sweep < NumSweeps /\ model \in Models /\ rung \in Rungs
      /\ next \in Vars(model)
  BY DEF ControlInv
<1>2. n \in Nat /\ Vars(model) = 1 .. n /\ 1 \in Vars(model)
  BY <1>1, ModelSize
<1>3. CASE next < n
  <2>1. next' = next + 1 /\ UNCHANGED <<pc, rung, sweep, model>>
    BY <1>3 DEF Advance
  <2> HIDE DEF n
  <2>2. next' \in Vars(model)
    BY <1>1, <1>2, <1>3, <2>1
  <2> QED  BY <1>1, <2>1, <2>2 DEF ControlInv, Rungs
<1>4. CASE ~(next < n) /\ rung < R
  <2>1. next' = 1 /\ rung' = rung + 1 /\ UNCHANGED <<pc, sweep, model>>
    BY <1>4 DEF Advance
  <2> QED  BY <1>1, <1>2, <1>4, <2>1, Sizes DEF ControlInv, Rungs
<1>5. CASE ~(next < n) /\ ~(rung < R) /\ ExchangeDue
  <2>1. next' = 1 /\ rung' = 1 /\ pc' = "exchange" /\ UNCHANGED <<sweep, model>>
    BY <1>5 DEF Advance
  <2>2. ExchangeDue' /\ R > 1
    BY <1>5, <2>1 DEF ExchangeDue
  <2> QED  BY <1>1, <1>2, <2>1, <2>2, Sizes DEF ControlInv, Rungs
<1>6. CASE ~(next < n) /\ ~(rung < R) /\ ~ExchangeDue
  <2>1. NextSweep
    BY <1>6 DEF Advance
  <2> QED  BY <2>1, NextSweepControl
<1> QED  BY <1>3, <1>4, <1>5, <1>6

LEMMA NextPairControl ==
    ASSUME ControlInv, pc = "exchange", NextPair, UNCHANGED model
    PROVE  ControlInv'
<1>1. CASE rung + 1 < R
  <2>1. rung' = rung + 1 /\ UNCHANGED <<pc, sweep, next, model>>
    BY <1>1 DEF NextPair
  <2> QED  BY <1>1, <2>1, Sizes DEF ControlInv, Rungs, ExchangeDue
<1>2. CASE ~(rung + 1 < R)
  <2>1. NextSweep
    BY <1>2 DEF NextPair
  <2> QED  BY <2>1, NextSweepControl
<1> QED  BY <1>1, <1>2

LEMMA ControlInvariant == Spec => []ControlInv
<1>1. ControlInv /\ [Next]_vars => ControlInv'
  <2> SUFFICES ASSUME ControlInv, [Next]_vars PROVE ControlInv'
    OBVIOUS
  <2>1. CASE Accept \/ Reject
    <3>1. pc = "sweep" /\ Advance /\ UNCHANGED model
      BY <2>1 DEF Accept, Reject
    <3> QED  BY <3>1, AdvanceControl
  <2>2. CASE Swap \/ Stay
    <3>1. pc = "exchange" /\ NextPair /\ UNCHANGED model
      BY <2>2 DEF Swap, Stay
    <3> QED  BY <3>1, NextPairControl
  <2>3. CASE UNCHANGED vars
    BY <2>3 DEF vars, ControlInv, ExchangeDue, Rungs
  <2> QED  BY <2>1, <2>2, <2>3 DEF Next
<1> QED  BY InitControl, <1>1, PTL DEF Spec

-----------------------------------------------------------------------------
(* The counters of the swaps.                                               *)
LEMMA InitSwaps == Init => SwapInv
<1> SUFFICES ASSUME Init PROVE SwapInv
  OBVIOUS
<1>1. /\ sweep = 0 /\ pc # "exchange" /\ swapAttempts = 0
      /\ swapAccepts = [r \in 1 .. R - 1 |-> 0]
  BY DEF Init
<1>2. Exchanges = 0
  <2>1. \A n \in Nat \ {0} : 0 \div n = 0
    OBVIOUS
  <2> QED  BY <1>1, <2>1, Sizes DEF Exchanges
<1>3. (R - 1) * 0 = 0
  BY Sizes
<1> QED  BY <1>1, <1>2, <1>3 DEF SwapInv

(* A sweep without an exchange: the quotient stands still, or there are no   *)
(* pairs.                                                                    *)
LEMMA AdvanceSwaps ==
    ASSUME ControlInv, SwapInv, pc = "sweep", Advance, UNCHANGED swaps
    PROVE  SwapInv'
<1> DEFINE n == Cardinality(Vars(model))
<1>1. sweep \in Nat /\ rung \in Rungs /\ R \in Nat \ {0} /\ Interval \in Nat \ {0}
  BY Sizes DEF ControlInv
<1>2. Exchanges \in Nat
  BY <1>1, NextQuotient DEF Exchanges
<1>3. UNCHANGED <<swapAttempts, swapAccepts>>
  BY DEF swaps
<1>4. /\ swapAttempts = (R - 1) * Exchanges /\ swapAccepts \in [1 .. R - 1 -> Nat]
      /\ \A r \in 1 .. R - 1 : swapAccepts[r] <= Exchanges
  <2>1. (R - 1) * Exchanges \in Int
    BY <1>1, <1>2
  <2> QED  BY <1>2, <2>1 DEF SwapInv
<1>5. CASE pc' = "sweep" /\ sweep' = sweep
  <2>1. Exchanges' = Exchanges
    BY <1>5 DEF Exchanges, Interval
  <2>2. (R - 1) * Exchanges \in Int
    BY <1>1, <1>2
  <2> QED  BY <1>2, <1>3, <1>4, <1>5, <2>1, <2>2 DEF SwapInv
<1>6. CASE pc' = "exchange" /\ sweep' = sweep /\ rung' = 1
  <2>1. Exchanges' = Exchanges
    BY <1>6 DEF Exchanges, Interval
  <2>2. (R - 1) * Exchanges \in Int
    BY <1>1, <1>2
  <2> QED  BY <1>2, <1>3, <1>4, <1>6, <2>1, <2>2 DEF SwapInv
<1>7. CASE NextSweep /\ ~ExchangeDue
  <2>1. sweep' = sweep + 1 /\ pc' # "exchange"
    BY <1>7 DEF NextSweep
  <2>2. Exchanges' = (sweep + 1) \div Interval
    BY <2>1 DEF Exchanges, Interval
  <2>3. CASE R = 1
    <3>1. Exchanges' \in Nat
      BY <1>1, <2>2, NextQuotient
    <3>2. (R - 1) * Exchanges = 0 /\ (R - 1) * Exchanges' = 0 /\ 1 .. R - 1 = {}
      <4> DEFINE p == R - 1
                 x == Exchanges
                 y == Exchanges'
      <4>1. p = 0 /\ x \in Nat /\ y \in Nat
        BY <1>2, <2>3, <3>1
      <4> HIDE DEF p, x, y
      <4>2. p * x = 0 /\ p * y = 0 /\ 1 .. p = {}
        BY <4>1
      <4> QED  BY <4>2 DEF p, x, y
    <3> QED  BY <1>3, <1>4, <2>1, <3>2 DEF SwapInv
  <2>4. CASE R # 1
    <3>1. (sweep + 1) % Interval # 0
      BY <1>1, <1>7, <2>4 DEF ExchangeDue
    <3>2. Exchanges' = Exchanges
      <4>1. (sweep + 1) \div Interval = sweep \div Interval + 0
        BY <1>1, <3>1, NextQuotient
      <4> QED  BY <1>2, <2>2, <4>1 DEF Exchanges
    <3>3. (R - 1) * Exchanges \in Int
      BY <1>1, <1>2
    <3> QED  BY <1>2, <1>3, <1>4, <2>1, <3>2, <3>3 DEF SwapInv
  <2> QED  BY <2>3, <2>4
<1>8. (pc' = "sweep" /\ sweep' = sweep) \/ (pc' = "exchange" /\ sweep' = sweep /\ rung' = 1)
      \/ (NextSweep /\ ~ExchangeDue)
  BY DEF Advance
<1> QED  BY <1>5, <1>6, <1>7, <1>8

(* One more attempt, which the last pair turns into a whole exchange.       *)
LEMMA PairSwaps ==
    ASSUME ControlInv, SwapInv, pc = "exchange", NextPair, swapAttempts' = swapAttempts + 1,
           swapAccepts' \in {swapAccepts, [swapAccepts EXCEPT ![rung] = @ + 1]}
    PROVE  SwapInv'
<1>1. /\ sweep \in Nat /\ rung \in 1 .. R - 1 /\ R \in Nat \ {0} /\ Interval \in Nat \ {0}
      /\ ExchangeDue
  BY Sizes DEF ControlInv
<1> DEFINE x == Exchanges
           a == (R - 1) * x
<1>2. x \in Nat /\ a \in Int
  <2>1. x \in Nat
    BY <1>1, NextQuotient DEF Exchanges
  <2> QED  BY <1>1, <2>1
<1>3. /\ swapAttempts = a + (rung - 1) /\ swapAccepts \in [1 .. R - 1 -> Nat]
      /\ \A r \in 1 .. R - 1 : swapAccepts[r] <= x + (IF r < rung THEN 1 ELSE 0)
  BY DEF SwapInv
<1>4. swapAccepts' \in [1 .. R - 1 -> Nat]
  BY <1>1, <1>3
<1>5. \A r \in 1 .. R - 1 : swapAccepts'[r] <= x + (IF r < rung + 1 THEN 1 ELSE 0)
  <2> HIDE DEF x
  <2> TAKE r \in 1 .. R - 1
  <2>1. swapAccepts[r] \in Nat /\ swapAccepts[r] <= x + (IF r < rung THEN 1 ELSE 0)
    BY <1>3
  <2>2. swapAccepts'[r] = swapAccepts[r] \/ (r = rung /\ swapAccepts'[r] = swapAccepts[r] + 1)
    BY <1>1, <1>3
  <2> QED  BY <1>1, <1>2, <2>1, <2>2
<1>6. CASE rung + 1 < R
  <2>1. pc' = "exchange" /\ rung' = rung + 1 /\ sweep' = sweep
    BY <1>6 DEF NextPair
  <2>2. Exchanges' = x
    BY <2>1 DEF Exchanges, Interval
  <2>3. swapAttempts' = a + (rung' - 1)
    <3> HIDE DEF a
    <3> QED  BY <1>1, <1>2, <1>3, <2>1
  <2> QED  BY <1>4, <1>5, <2>1, <2>2, <2>3 DEF SwapInv
<1>7. CASE ~(rung + 1 < R)
  <2>1. NextSweep
    BY <1>7 DEF NextPair
  <2>2. pc' # "exchange" /\ sweep' = sweep + 1
    BY <2>1 DEF NextSweep
  <2>3. Exchanges' = (sweep + 1) \div Interval
    BY <2>2 DEF Exchanges, Interval
  <2>4. (sweep + 1) % Interval = 0
    BY <1>1 DEF ExchangeDue
  <2>5. Exchanges' = x + 1
    BY <1>1, <2>3, <2>4, NextQuotient DEF Exchanges
  <2>6. (R - 1) * (x + 1) = a + (R - 1) /\ rung = R - 1
    <3>1. rung = R - 1
      BY <1>1, <1>7
    <3> HIDE DEF x
    <3>2. (R - 1) * (x + 1) = (R - 1) * x + (R - 1)
      BY <1>1, <1>2
    <3> QED  BY <3>1, <3>2
  <2>7. swapAttempts' = (R - 1) * (x + 1) + 0
    <3> HIDE DEF a, x
    <3>1. swapAttempts' = a + (rung - 1) + 1
      BY <1>3
    <3>2. (R - 1) * (x + 1) = a + (R - 1)
      BY <2>6
    <3>3. (R - 1) * (x + 1) \in Int
      BY <1>1, <1>2
    <3> QED  BY <1>1, <1>2, <2>6, <3>1, <3>2, <3>3
  <2>8. \A r \in 1 .. R - 1 : swapAccepts'[r] <= x + 1 + 0
    <3> HIDE DEF x
    <3> TAKE r \in 1 .. R - 1
    <3>1. swapAccepts'[r] \in Nat /\ swapAccepts'[r] <= x + (IF r < rung + 1 THEN 1 ELSE 0)
      BY <1>4, <1>5
    <3> QED  BY <1>2, <3>1
  <2> HIDE DEF x
  <2> QED  BY <1>4, <2>2, <2>5, <2>7, <2>8 DEF SwapInv
<1> QED  BY <1>6, <1>7

LEMMA SwapInvariant == Spec => []SwapInv
<1>1. ControlInv /\ SwapInv /\ [Next]_vars => SwapInv'
  <2> SUFFICES ASSUME ControlInv, SwapInv, [Next]_vars PROVE SwapInv'
    OBVIOUS
  <2>1. CASE Accept \/ Reject
    <3>1. pc = "sweep" /\ Advance /\ UNCHANGED swaps
      BY <2>1 DEF Accept, Reject
    <3> QED  BY <3>1, AdvanceSwaps
  <2>2. CASE Swap \/ Stay
    <3>1. /\ pc = "exchange" /\ NextPair /\ swapAttempts' = swapAttempts + 1
          /\ swapAccepts' \in {swapAccepts, [swapAccepts EXCEPT ![rung] = @ + 1]}
      BY <2>2 DEF Swap, Stay
    <3> QED  BY <3>1, PairSwaps
  <2>3. CASE UNCHANGED vars
    <3>1. UNCHANGED <<sweep, pc, rung, swapAttempts, swapAccepts>>
      BY <2>3 DEF vars, swaps
    <3> QED  BY <3>1 DEF SwapInv, Exchanges, Interval
  <2> QED  BY <2>1, <2>2, <2>3 DEF Next
<1> QED  BY InitSwaps, <1>1, ControlInvariant, PTL DEF Spec

(* The number the swap rates are divided by, which is computed from the     *)
(* sweeps alone, is the number of attempts made for each pair               *)
(* (parallel_tempering.hpp:133-146, 151-154).                               *)
THEOREM SwapRatesStayExact == Spec => []SwapRatesAreExact
<1>1. ControlInv /\ SwapInv => SwapRatesAreExact
  <2> SUFFICES ASSUME ControlInv, SwapInv, pc = "done", NEW r \in 1 .. R - 1
               PROVE  /\ SwapRate(r).accepted <= SwapRate(r).attempts
                      /\ swapAttempts = (R - 1) * SwapRate(r).attempts
    BY DEF SwapRatesAreExact
  <2>1. SwapRate(r).accepted = swapAccepts[r] /\ SwapRate(r).attempts = NumSweeps \div Interval
    BY DEF SwapRate
  <2>2. Exchanges = NumSweeps \div Interval
    BY DEF ControlInv, Exchanges
  <2>3. Exchanges \in Nat /\ (R - 1) * Exchanges \in Int
    <3>1. Exchanges \in Nat
      BY <2>2, Sizes, NextQuotient
    <3> QED  BY <3>1, Sizes
  <2>4. swapAccepts[r] <= Exchanges + 0 /\ swapAttempts = (R - 1) * Exchanges + 0
    BY DEF SwapInv
  <2>5. swapAccepts[r] \in Nat
    BY DEF SwapInv
  <2> HIDE DEF Exchanges
  <2> QED  BY <2>1, <2>2, <2>3, <2>4, <2>5
<1> QED  BY <1>1, ControlInvariant, SwapInvariant, PTL

-----------------------------------------------------------------------------
(* The replicas.                                                            *)
LEMMA ViewIsModel ==
    ASSUME ControlInv, ReplicaInv
    PROVE  /\ IsModel(model) /\ IsModel(view) /\ Vars(view) = Vars(model)
           /\ \A r \in Rungs : IsState(view, spin[r]) /\ energy[r] = Energy(view, spin[r])
                                 /\ energy[r] \in Int
           /\ IsState(view, best) /\ bestEnergy \in Int
<1>1. IsModel(model) /\ 1 \in Rungs
  BY ModelSize, Sizes DEF ControlInv, Rungs
<1>2. IsModel(view) /\ Vars(view) = Vars(model)
  <2>1. spin[1] \in [Vars(model) -> {-1, 1}]
    BY <1>1 DEF ReplicaInv, Spins
  <2> QED  BY <1>1, <2>1, ToSpinIsExact DEF ReplicaInv
<1>3. IsState(view, best) /\ \A r \in Rungs : IsState(view, spin[r])
  BY <1>2 DEF ReplicaInv, Spins, IsState
<1>4. bestEnergy \in Int /\ \A r \in Rungs : energy[r] = Energy(view, spin[r]) /\ energy[r] \in Int
  BY <1>2, <1>3, EnergyIsTwice DEF ReplicaInv
<1> QED  BY <1>1, <1>2, <1>3, <1>4

(* There is a first rung among those with the least energy.                 *)
LEMMA FirstBestExists ==
    ASSUME NEW e \in [Rungs -> Int]
    PROVE  FirstBest(e) \in Rungs /\ \A q \in Rungs : e[FirstBest(e)] <= e[q]
<1> DEFINE S == {e[r] : r \in Rungs}
           m == Min(S)
           F == {r \in Rungs : e[r] = m}
           f == Min(F)
<1>1. IsFiniteSet(Rungs) /\ 1 \in Rungs /\ Rungs \subseteq Nat
  BY Sizes, FS_Interval DEF Rungs
<1>2. IsFiniteSet(S) /\ S \subseteq Int /\ S # {}
  <2>1. e \in Surjection(Rungs, S)
    BY DEF Surjection
  <2>2. S \subseteq Int /\ S # {}
    BY <1>1
  <2> HIDE DEF S
  <2> QED  BY <1>1, <2>1, <2>2, FS_Surjection
<1>3. m \in S /\ \A x \in S : m <= x
  <2> HIDE DEF S
  <2> QED  BY <1>2, SmallestExists
<1>4. IsFiniteSet(F) /\ F \subseteq Int /\ F # {}
  <2>1. F \subseteq Rungs /\ F # {}
    BY <1>3
  <2> HIDE DEF F, Rungs
  <2>2. F \subseteq Int
    BY <1>1, <2>1
  <2>3. IsFiniteSet(F)
    BY <1>1, <2>1, FS_Subset
  <2> QED  BY <2>1, <2>2, <2>3
<1>5. f \in F /\ \A x \in F : f <= x
  <2> HIDE DEF F
  <2> QED  BY <1>4, SmallestExists
<1>6. f \in Rungs /\ e[f] = m
  BY <1>5
<1> HIDE DEF f
<1>7. \A q \in Rungs : e[f] <= e[q]
  BY <1>3, <1>6
<1>8. \A q \in Rungs : q < f => e[f] < e[q]
  <2> SUFFICES ASSUME NEW q \in Rungs, q < f, ~(e[f] < e[q]) PROVE FALSE
    OBVIOUS
  <2>1. e[q] = e[f]
    BY <1>6, <1>7
  <2>2. q \in F
    BY <1>6, <2>1
  <2>3. f <= q
    BY <1>5, <2>2
  <2> QED  BY <1>1, <1>6, <2>3
<1>9. \E r \in 1 .. R : \A q \in 1 .. R : e[r] <= e[q] /\ (q < r => e[r] < e[q])
  BY <1>6, <1>7, <1>8 DEF Rungs
<1> QED  BY <1>9 DEF FirstBest, Rungs

LEMMA InitReplicas == Init => ReplicaInv
<1> SUFFICES ASSUME Init PROVE ReplicaInv
  OBVIOUS
<1>1. /\ model \in Models /\ view = ToSpin(model) /\ spin \in [Rungs -> Spins]
      /\ field = [r \in Rungs |-> [i \in Vars(model) |-> Field(view, spin[r], i)]]
      /\ energy = [r \in Rungs |-> Energy(view, spin[r])]
      /\ best = spin[FirstBest(energy)] /\ bestEnergy = energy[FirstBest(energy)]
  BY DEF Init, Rungs, Spins
<1>2. IsModel(model)
  BY <1>1, ModelSize
<1>3. ASSUME NEW r \in Rungs PROVE Energy(view, spin[r]) \in Int
  <2>1. spin[r] \in [Vars(model) -> {-1, 1}]
    BY <1>1 DEF Spins
  <2>2. IsModel(view) /\ Vars(view) = Vars(model)
    BY <1>1, <1>2, <2>1, ToSpinIsExact
  <2>3. IsState(view, spin[r])
    BY <2>1, <2>2 DEF IsState
  <2> QED  BY <2>2, <2>3, EnergyIsTwice
<1>4. energy \in [Rungs -> Int]
  BY <1>1, <1>3
<1>5. FirstBest(energy) \in Rungs /\ \A q \in Rungs : energy[FirstBest(energy)] <= energy[q]
  BY <1>4, FirstBestExists
<1> HIDE DEF Rungs
<1> QED  BY <1>1, <1>5 DEF ReplicaInv

(* A flip on one rung adjusts its fields and its energy, and the best state *)
(* if it is below it.                                                       *)
LEMMA AcceptReplicas == ControlInv /\ ReplicaInv /\ Accept => ReplicaInv'
<1> SUFFICES ASSUME ControlInv, ReplicaInv, Accept PROVE ReplicaInv'
  OBVIOUS
<1> DEFINE s == spin[rung]
           t == [s EXCEPT ![next] = -@]
           V == Vars(model)
<1>1. /\ rung \in Rungs /\ next \in V /\ Vars(view) = V /\ IsModel(view) /\ s \in Spins
      /\ IsState(view, s)
  BY ViewIsModel DEF ControlInv, ReplicaInv
<1>2. /\ spin' = [spin EXCEPT ![rung] = t]
      /\ energy' = [energy EXCEPT ![rung] = @ + Change]
      /\ field' = [field EXCEPT ![rung] = [j \in V |-> @[j] - 2 * view.quad[next][j] * s[next]]]
      /\ best' = (IF energy'[rung] < bestEnergy THEN spin'[rung] ELSE best)
      /\ bestEnergy' = (IF energy'[rung] < bestEnergy THEN energy'[rung] ELSE bestEnergy)
      /\ UNCHANGED <<model, view>>
  BY DEF Accept, ReplicaInv
<1>3. t \in Spins /\ IsState(view, t) /\ Energy(view, t) \in Int
  <2>1. t \in Spins
    BY <1>1 DEF Spins
  <2>2. IsState(view, t)
    BY <1>1, EnergyAfterFlip
  <2> QED  BY <1>1, <2>1, <2>2, EnergyIsTwice
<1>4. Energy(view, t) = energy[rung] + Change
  <2>1. Energy(view, t) = Energy(view, s) + -2 * s[next] * Field(view, s, next)
    BY <1>1, EnergyAfterFlip
  <2>2. field[rung][next] = Field(view, s, next)
    BY <1>1 DEF ReplicaInv
  <2>3. energy[rung] = Energy(view, s)
    BY <1>1, ViewIsModel
  <2> QED  BY <2>1, <2>2, <2>3 DEF Change
<1>5. spin' \in [Rungs -> Spins] /\ spin'[rung] = t
  BY <1>1, <1>2, <1>3 DEF ReplicaInv
<1>6. energy' = [r \in Rungs |-> Energy(view, spin'[r])] /\ energy'[rung] = Energy(view, t)
  <2>1. energy = [r \in Rungs |-> Energy(view, spin[r])]
    BY DEF ReplicaInv
  <2>2. \A r \in Rungs : spin'[r] = IF r = rung THEN t ELSE spin[r]
    BY <1>1, <1>2 DEF ReplicaInv
  <2> HIDE DEF t, Rungs
  <2> QED  BY <1>1, <1>2, <1>4, <2>1, <2>2
<1>7. field' = [r \in Rungs |-> [i \in V |-> Field(view, spin'[r], i)]]
  <2>1. field = [r \in Rungs |-> [i \in V |-> Field(view, spin[r], i)]]
    BY DEF ReplicaInv
  <2>2. \A r \in Rungs : spin'[r] = IF r = rung THEN t ELSE spin[r]
    BY <1>1, <1>2 DEF ReplicaInv
  <2>3. \A j \in V : Field(view, t, j) = Field(view, s, j) - 2 * view.quad[next][j] * s[next]
    BY <1>1, FieldAfterFlip
  <2>4. [j \in V |-> field[rung][j] - 2 * view.quad[next][j] * s[next]] = [i \in V |-> Field(view, t, i)]
    BY <1>1, <2>1, <2>3
  <2>5. field' = [field EXCEPT ![rung] = [i \in V |-> Field(view, t, i)]]
    BY <1>2, <2>4
  <2> HIDE DEF t, V, Rungs
  <2> QED  BY <1>1, <2>1, <2>2, <2>5
<1>8. best' \in Spins /\ bestEnergy' = Energy(view, best')
  BY <1>2, <1>3, <1>5, <1>6 DEF ReplicaInv
<1>9. \A r \in Rungs : bestEnergy' <= energy'[r]
  <2> TAKE r \in Rungs
  <2>1. /\ bestEnergy \in Int /\ energy[r] \in Int /\ bestEnergy <= energy[r]
        /\ energy'[rung] \in Int /\ (r # rung => energy'[r] = energy[r])
    BY <1>1, <1>2, <1>3, <1>6, ViewIsModel DEF ReplicaInv
  <2> QED  BY <1>2, <2>1
<1>10. Spins' = Spins /\ view' = ToSpin(model') /\ Rungs' = Rungs
  BY <1>2 DEF ReplicaInv, Spins, Rungs, R
<1>11. V' = V /\ view' = view
  BY <1>2
<1> HIDE DEF t, s, Rungs, Spins
<1> QED  BY <1>5, <1>6, <1>7, <1>8, <1>9, <1>10, <1>11 DEF ReplicaInv

(* An exchange moves whole replicas.                                        *)
LEMMA SwapReplicas == ControlInv /\ ReplicaInv /\ Swap => ReplicaInv'
<1> SUFFICES ASSUME ControlInv, ReplicaInv, Swap PROVE ReplicaInv'
  OBVIOUS
<1> DEFINE V == Vars(model)
           p(r) == IF r = rung THEN rung + 1 ELSE IF r = rung + 1 THEN rung ELSE r
<1>1. rung \in Rungs /\ rung + 1 \in Rungs /\ rung # rung + 1
  <2>1. rung \in 1 .. R - 1 /\ R \in Nat
    BY Sizes DEF ControlInv, Swap
  <2> QED  BY <2>1 DEF Rungs
<1>2. /\ spin' = Swapped(spin) /\ field' = Swapped(field) /\ energy' = Swapped(energy)
      /\ UNCHANGED <<model, view, best, bestEnergy>>
  BY DEF Swap, record
<1>3. \A r \in Rungs : p(r) \in Rungs
  BY <1>1
<1>4. ASSUME NEW f, DOMAIN f = Rungs, NEW r \in Rungs
      PROVE  Swapped(f) = [q \in Rungs |-> f[p(q)]]
  BY <1>1, <1>4 DEF Swapped
<1>5. /\ spin' = [r \in Rungs |-> spin[p(r)]] /\ field' = [r \in Rungs |-> field[p(r)]]
      /\ energy' = [r \in Rungs |-> energy[p(r)]]
  BY <1>1, <1>2, <1>4 DEF ReplicaInv
<1>6. /\ spin \in [Rungs -> Spins]
      /\ field = [r \in Rungs |-> [i \in V |-> Field(view, spin[r], i)]]
      /\ energy = [r \in Rungs |-> Energy(view, spin[r])]
      /\ \A r \in Rungs : bestEnergy <= energy[r]
  BY DEF ReplicaInv
<1>7. Spins' = Spins /\ V' = V /\ view' = ToSpin(model') /\ Rungs' = Rungs
      /\ best \in Spins /\ bestEnergy = Energy(view, best)
  BY <1>2 DEF ReplicaInv, Spins, Rungs, R
<1> HIDE DEF p, V, Rungs, Spins
<1>8. spin' \in [Rungs -> Spins] /\ \A r \in Rungs : spin'[r] = spin[p(r)]
  BY <1>3, <1>5, <1>6
<1>9. field' = [r \in Rungs |-> [i \in V |-> Field(view, spin'[r], i)]]
  BY <1>3, <1>5, <1>6, <1>8
<1>10. energy' = [r \in Rungs |-> Energy(view, spin'[r])]
  BY <1>3, <1>5, <1>6, <1>8
<1>11. \A r \in Rungs : bestEnergy <= energy'[r]
  BY <1>3, <1>5, <1>6
<1> QED  BY <1>2, <1>7, <1>8, <1>9, <1>10, <1>11 DEF ReplicaInv, V

LEMMA ReplicaInvariant == Spec => []ReplicaInv
<1>1. ControlInv /\ ReplicaInv /\ [Next]_vars => ReplicaInv'
  <2> SUFFICES ASSUME ControlInv, ReplicaInv, [Next]_vars PROVE ReplicaInv'
    OBVIOUS
  <2>1. CASE Accept
    BY <2>1, AcceptReplicas
  <2>2. CASE Swap
    BY <2>2, SwapReplicas
  <2>3. CASE Reject \/ Stay \/ UNCHANGED vars
    <3>1. UNCHANGED <<model, view, spin, field, energy, best, bestEnergy>>
      BY <2>3 DEF Reject, Stay, vars, replicas, record
    <3> QED  BY <3>1 DEF ReplicaInv, Spins, Rungs, R
  <2> QED  BY <2>1, <2>2, <2>3 DEF Next
<1> QED  BY InitReplicas, <1>1, ControlInvariant, PTL DEF Spec

(* Wherever a configuration travels, its fields and its energy are its own, *)
(* and no replica is below the best state (parallel_tempering.hpp:114-129,  *)
(* 140-144).                                                                *)
THEOREM ReplicasStayWhole == Spec => []ReplicasAreWhole
<1>1. ControlInv /\ ReplicaInv => ReplicasAreWhole
  <2> SUFFICES ASSUME ControlInv, ReplicaInv PROVE ReplicasAreWhole
    OBVIOUS
  <2>1. IsModel(model) /\ view = ToSpin(model)
    BY ViewIsModel DEF ReplicaInv
  <2>2. \A s \in Spins : Energy(model, FromSpins(model, s)) = Energy(view, s)
    BY <2>1, ToSpinIsExact DEF Spins
  <2>3. bestEnergy = Energy(model, FromSpins(model, best))
    BY <2>2 DEF ReplicaInv
  <2>4. ASSUME NEW r \in Rungs
        PROVE  /\ \A i \in Vars(model) : field[r][i] = Field(view, spin[r], i)
               /\ energy[r] = Energy(model, FromSpins(model, spin[r]))
               /\ bestEnergy <= energy[r]
    BY <2>2 DEF ReplicaInv
  <2> QED  BY <2>3, <2>4 DEF ReplicasAreWhole, Rungs
<1> QED  BY <1>1, ControlInvariant, ReplicaInvariant, PTL
=============================================================================
