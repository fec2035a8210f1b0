--------------------------- MODULE AnnealerProofs ---------------------------
(***************************************************************************)
(* Proofs about the fast annealer, for models, sweeps and levels of any    *)
(* size: its energies are true, its table is large enough, and it is the   *)
(* plain annealer; and about the models it is given to select paths with,  *)
(* for menus of any number and length: their ground states are the best    *)
(* conflict-free selections.                                               *)
(***************************************************************************)
EXTENDS PenaltyExperiment, BqmTheorems, SequenceTheorems

Spins == [Vars(model) -> {-1, 1}]

(* The cache is fresh, the energies are those of the states in the spin     *)
(* model, and draws are spared at the lower levels only.                    *)
CacheIsFresh == level > 1 => field = [i \in Vars(model) |-> Field(view, spin, i)]

EnergiesInSpins ==
    /\ energy = Energy(view, spin)
    /\ bestEnergy = Energy(view, best)

FastInv ==
    /\ model \in Models /\ level \in Levels /\ view = ToSpin(model)
    /\ spin \in Spins /\ best \in Spins
    /\ CacheIsFresh
    /\ EnergiesInSpins
    /\ sweep \in Nat /\ next \in Nat /\ (Vars(model) # {} => next \in Vars(model))
    /\ draws \in Nat /\ spare \in 0 .. draws /\ (level > 2 => spare = 0)
    /\ done \in BOOLEAN

-----------------------------------------------------------------------------
(* The model the annealer works on.                                         *)
LEMMA ViewIsModel ==
    ASSUME FastInv
    PROVE  /\ IsModel(model) /\ IsModel(view) /\ Vars(view) = Vars(model)
           /\ Vars(model) = 1 .. Cardinality(Vars(model)) /\ Cardinality(Vars(model)) \in Nat
           /\ level \in 1 .. 4 /\ IsState(view, spin) /\ IsState(view, best)
<1>1. IsModel(model) /\ Vars(model) = 1 .. Cardinality(Vars(model)) /\ level \in 1 .. 4
  BY FastAssumption DEF FastInv
<1>2. Cardinality(Vars(model)) \in Nat
  BY <1>1, FS_CardinalityType DEF IsModel
<1>3. IsModel(view) /\ Vars(view) = Vars(model)
  BY <1>1, ToSpinIsExact DEF FastInv, Spins
<1>4. IsState(view, spin) /\ IsState(view, best)
  BY <1>3 DEF FastInv, Spins, IsState
<1> QED  BY <1>1, <1>2, <1>3, <1>4

(* A proposal's energy change is the true one, cached or not.               *)
LEMMA ChangeIsRise ==
    ASSUME FastInv, Vars(model) # {}
    PROVE  /\ next \in Vars(model)
           /\ Change = -2 * spin[next] * Field(view, spin, next)
           /\ Change \in Int /\ spin[next] \in {-1, 1} /\ Field(view, spin, next) \in Int
<1>1. next \in Vars(model) /\ spin[next] \in {-1, 1}
  BY DEF FastInv, Spins
<1>2. level # 1 => field[next] = Field(view, spin, next)
  BY <1>1, ViewIsModel DEF FastInv, CacheIsFresh
<1>3. Change = -2 * spin[next] * Field(view, spin, next)
  BY <1>2 DEF Change
<1>4. Field(view, spin, next) \in Int
  BY <1>1, ViewIsModel, PullType
<1> QED  BY <1>1, <1>3, <1>4

LEMMA InitFast == Init => FastInv
<1> SUFFICES ASSUME Init PROVE FastInv
  OBVIOUS
<1>1. /\ model \in Models /\ level \in Levels /\ view = ToSpin(model) /\ spin \in Spins
      /\ best = spin /\ CacheIsFresh /\ EnergiesInSpins
      /\ sweep = 0 /\ next = 1 /\ draws = 0 /\ spare = 0 /\ done = FALSE
  <2>1. level \in 1 .. 4
    BY FastAssumption DEF Init
  <2>2. CacheIsFresh
    BY <2>1 DEF Init, CacheIsFresh
  <2> QED  BY <2>2 DEF Init, CompactView, Spins, EnergiesInSpins
<1>2. Vars(model) = 1 .. Cardinality(Vars(model)) /\ Cardinality(Vars(model)) \in Nat
  BY <1>1, FastAssumption, FS_CardinalityType DEF IsModel
<1>3. Vars(model) # {} => 1 \in Vars(model)
  <2> DEFINE n == Cardinality(Vars(model))
  <2>1. n \in Nat /\ Vars(model) = 1 .. n
    BY <1>2
  <2> HIDE DEF n
  <2>2. Vars(model) # {} => n > 0
    BY <2>1
  <2> QED  BY <2>1, <2>2
<1>4. /\ sweep \in Nat /\ next \in Nat /\ draws \in Nat /\ spare \in 0 .. draws
      /\ (level > 2 => spare = 0)
  BY <1>1
<1>5. best \in Spins /\ done \in BOOLEAN /\ (Vars(model) # {} => next \in Vars(model))
  BY <1>1, <1>3
<1> QED  BY <1>1, <1>4, <1>5 DEF FastInv

(* The loop counters, which both kinds of step move on.                     *)
LEMMA AdvanceCounts ==
    ASSUME FastInv, Vars(model) # {}, Advance
    PROVE  sweep' \in Nat /\ next' \in Nat /\ next' \in Vars(model)
<1> DEFINE n == Cardinality(Vars(model))
<1>1. n \in Nat /\ Vars(model) = 1 .. n /\ next \in 1 .. n /\ sweep \in Nat
  BY ViewIsModel DEF FastInv
<1>2. /\ next' = IF next < n THEN next + 1 ELSE 1
      /\ sweep' = IF next < n THEN sweep ELSE sweep + 1
  BY DEF Advance
<1> HIDE DEF n
<1> QED  BY <1>1, <1>2

LEMMA AcceptFast == FastInv /\ Accept => FastInv'
<1> SUFFICES ASSUME FastInv, Accept PROVE FastInv'
  OBVIOUS
<1>1. Vars(model) # {} /\ Proposing
  BY DEF Accept, Proposing
<1>2. /\ spin' = [spin EXCEPT ![next] = -@] /\ energy' = energy + Change
      /\ field' = (IF level = 1 THEN field ELSE Adjusted(next))
      /\ best' = (IF energy' < bestEnergy THEN spin' ELSE best)
      /\ bestEnergy' = (IF energy' < bestEnergy THEN energy' ELSE bestEnergy)
      /\ draws' = draws + Drawn(Change) /\ spare' = spare + Spared(Change) /\ Advance
      /\ UNCHANGED <<model, level, view, done>>
  BY DEF Accept
<1>3. next \in Vars(view) /\ next \in Vars(model)
  BY <1>1, ChangeIsRise, ViewIsModel
<1>4. spin' \in Spins'
  BY <1>2, <1>3 DEF FastInv, Spins
<1>5. energy' = Energy(view, spin')
  <2>1. Energy(view, spin') = Energy(view, spin) + -2 * spin[next] * Field(view, spin, next)
    BY <1>2, <1>3, ViewIsModel, EnergyAfterFlip
  <2> QED  BY <1>1, <1>2, <2>1, ChangeIsRise DEF FastInv, EnergiesInSpins
<1>6. EnergiesInSpins' /\ best' \in Spins'
  BY <1>2, <1>4, <1>5 DEF EnergiesInSpins, FastInv, Spins
<1>7. CacheIsFresh'
  <2> SUFFICES ASSUME level > 1
               PROVE  field' = [i \in Vars(model) |-> Field(view, spin', i)]
    BY <1>2 DEF CacheIsFresh
  <2>1. field = [i \in Vars(model) |-> Field(view, spin, i)]
    BY DEF FastInv, CacheIsFresh
  <2>2. field' = [j \in Vars(view) |-> field[j] - 2 * view.quad[next][j] * spin[next]]
    BY <1>2, ViewIsModel DEF Adjusted
  <2>3. \A j \in Vars(model) : Field(view, spin', j) =
                                  Field(view, spin, j) - 2 * view.quad[next][j] * spin[next]
    BY <1>2, <1>3, ViewIsModel, FieldAfterFlip
  <2>4. Vars(view) = Vars(model)
    BY ViewIsModel
  <2> QED  BY <2>1, <2>2, <2>3, <2>4
<1>8. draws' \in Nat /\ spare' \in 0 .. draws' /\ (level > 2 => spare' = 0)
  <2>1. level \in 1 .. 4 /\ draws \in Nat /\ spare \in 0 .. draws /\ (level > 2 => spare = 0)
    BY ViewIsModel DEF FastInv
  <2>2. Change \in Int
    BY <1>1, ChangeIsRise
  <2>3. CASE level < 3
    <3>1. Drawn(Change) = 1 /\ Spared(Change) \in {0, 1}
      BY <2>1, <2>3 DEF Drawn, Spared
    <3> QED  BY <1>2, <2>1, <2>3, <3>1
  <2>4. CASE level >= 3
    <3>1. Drawn(Change) \in {0, 1} /\ Spared(Change) = 0
      BY <2>1, <2>4 DEF Drawn, Spared
    <3> QED  BY <1>2, <2>1, <2>4, <3>1
  <2> QED  BY <2>1, <2>3, <2>4
<1>9. sweep' \in Nat /\ next' \in Nat /\ next' \in Vars(model)
  BY <1>1, <1>2, AdvanceCounts
<1> QED  BY <1>2, <1>4, <1>6, <1>7, <1>8, <1>9 DEF FastInv

LEMMA RejectFast == FastInv /\ Reject => FastInv'
<1> SUFFICES ASSUME FastInv, Reject PROVE FastInv'
  OBVIOUS
<1>1. Vars(model) # {} /\ Change > 0 /\ draws' = draws + Drawn(Change) /\ Advance
  BY DEF Reject, Proposing
<1>2. UNCHANGED <<model, level, view, spin, field, energy, best, bestEnergy, spare, done>>
  BY DEF Reject
<1>3. draws' = draws + 1
  BY <1>1, ChangeIsRise DEF Drawn
<1>4. sweep' \in Nat /\ next' \in Nat /\ next' \in Vars(model)
  BY <1>1, AdvanceCounts
<1>5. spin' \in Spins' /\ best' \in Spins' /\ CacheIsFresh' /\ EnergiesInSpins'
  BY <1>2 DEF FastInv, Spins, CacheIsFresh, EnergiesInSpins
<1> QED  BY <1>2, <1>3, <1>4, <1>5 DEF FastInv

LEMMA ReturnFast == FastInv /\ Return => FastInv'
BY DEF FastInv, Return, Spins, CacheIsFresh, EnergiesInSpins

LEMMA StutterFast == FastInv /\ UNCHANGED fast => FastInv'
BY DEF FastInv, fast, Spins, CacheIsFresh, EnergiesInSpins

LEMMA StepFast == FastInv /\ [Next]_fast => FastInv'
BY AcceptFast, RejectFast, ReturnFast, StutterFast DEF Next

LEMMA FastInvariant == Spec => []FastInv
BY InitFast, StepFast, PTL DEF Spec

-----------------------------------------------------------------------------
LEMMA EnergiesHold == FastInv => EnergiesAreTrue
<1> SUFFICES ASSUME FastInv PROVE EnergiesAreTrue
  OBVIOUS
<1>1. IsModel(model) /\ spin \in Spins /\ best \in Spins
  BY ViewIsModel DEF FastInv
<1>2. /\ Energy(model, FromSpins(model, spin)) = Energy(view, spin)
      /\ Energy(model, FromSpins(model, best)) = Energy(view, best)
  BY <1>1, ToSpinIsExact DEF FastInv, Spins
<1> QED  BY <1>2 DEF FastInv, EnergiesInSpins, EnergiesAreTrue

(* What is only ever added to stays the energy of the state, in the         *)
(* caller's own model (fast_annealer.hpp:364-368, 373-375;                  *)
(* bqm.hpp:101-124).                                                        *)
THEOREM EnergiesStayTrue == Spec => []EnergiesAreTrue
BY EnergiesHold, FastInvariant, PTL

-----------------------------------------------------------------------------
(* The table of thresholds.                                                 *)

Couplings(m, i) == [j \in Vars(m) |-> Abs(m.quad[i][j])]

(* No local field is larger than the largest one the table is made for.     *)
LEMMA LargestFieldBounds ==
    ASSUME NEW m, IsModel(m), NEW i \in Vars(m)
    PROVE  /\ LargestField(m) \in Int
           /\ Abs(m.linear[i]) + SumFunction(Couplings(m, i)) <= LargestField(m)
<1> DEFINE V == Vars(m)
           f == [k \in V |-> Abs(m.linear[k]) + SumFunction(Couplings(m, k))]
           S == {f[k] : k \in V}
           D == {0} \cup S
<1>1. IsFiniteSet(V)
  BY DEF IsModel
<1>2. ASSUME NEW k \in V PROVE f[k] \in Int
  <2> DEFINE c == Couplings(m, k)
  <2>1. \A j \in V : c[j] \in Int
    BY DEF IsModel, Couplings, Abs
  <2>2. SumFunction(c) = SumFunctionOnSet(c, V)
    BY SumWhole DEF Couplings
  <2>3. Abs(m.linear[k]) \in Int
    BY DEF IsModel, Abs
  <2> HIDE DEF c, V
  <2>4. SumFunctionOnSet(c, V) \in Int
    BY <1>1, <2>1, SumType
  <2>5. Abs(m.linear[k]) + SumFunction(c) \in Int
    BY <2>2, <2>3, <2>4
  <2> QED  BY <2>5 DEF c, V
<1>3. IsFiniteSet(S)
  <2>1. f \in Surjection(V, S)
    BY DEF Surjection
  <2> HIDE DEF f, S, V
  <2> QED  BY <1>1, <2>1, FS_Surjection
<1>4. IsFiniteSet(D) /\ D \subseteq Int /\ D # {}
  BY <1>2, <1>3, FS_AddElement
<1>5. LargestField(m) = Max(D)
  BY DEF LargestField, Couplings
<1>6. f[i] \in D
  OBVIOUS
<1> HIDE DEF D
<1>7. Max(D) \in Int /\ f[i] <= Max(D)
  BY <1>4, <1>6, LargestExists
<1> QED  BY <1>5, <1>7

LEMMA FieldIsBounded ==
    ASSUME NEW m, IsModel(m), NEW s \in [Vars(m) -> {-1, 1}], NEW i \in Vars(m)
    PROVE  Field(m, s, i) <= LargestField(m) /\ -Field(m, s, i) <= LargestField(m)
<1> DEFINE V == Vars(m)
           f == Pulled(m, s, i)
           g == [j \in V |-> 0 - f[j]]
           c == Couplings(m, i)
           h == m.linear[i]
<1>1. IsFiniteSet(V) /\ h \in Int /\ IsState(m, s) /\ -1 \in Int
  BY DEF IsModel, IsState
<1>2. \A j \in V : /\ f[j] \in Int /\ g[j] \in Int /\ c[j] \in Int /\ f[j] <= c[j] /\ g[j] <= c[j]
                   /\ g[j] = (-1) * f[j]
  <2> TAKE j \in V
  <2> DEFINE q == m.quad[i][j]
             a == s[j]
  <2>1. q \in Int /\ a \in {-1, 1}
    BY DEF IsModel
  <2>2. f[j] = q * a /\ c[j] = (IF q < 0 THEN -q ELSE q) /\ g[j] = 0 - f[j]
    BY DEF Pulled, Couplings, Abs
  <2> HIDE DEF q, a, f, g, c
  <2>3. CASE a = 1
    BY <2>1, <2>2, <2>3
  <2>4. CASE a = -1
    BY <2>1, <2>2, <2>4
  <2> QED  BY <2>1, <2>3, <2>4
<1>3. Field(m, s, i) = h + SumFunctionOnSet(f, V)
  BY <1>1, PullType DEF Field
<1>4. SumFunction(c) = SumFunctionOnSet(c, V)
  BY SumWhole DEF Couplings
<1>5. LargestField(m) \in Int /\ Abs(h) + SumFunctionOnSet(c, V) <= LargestField(m)
  BY <1>4, LargestFieldBounds
<1> HIDE DEF V, f, g, c, h
<1>6. SumFunctionOnSet(f, V) \in Int /\ SumFunctionOnSet(g, V) \in Int /\ SumFunctionOnSet(c, V) \in Int
  BY <1>1, <1>2, SumType
<1>7. SumFunctionOnSet(f, V) <= SumFunctionOnSet(c, V)
  BY <1>1, <1>2, SumMonotone
<1>8. SumFunctionOnSet(g, V) <= SumFunctionOnSet(c, V)
  BY <1>1, <1>2, SumMonotone
<1>9. SumFunctionOnSet(g, V) = (-1) * SumFunctionOnSet(f, V)
  <2>1. \A j \in V : f[j] \in Int /\ g[j] = (-1) * f[j]
    BY <1>2
  <2> QED  BY <1>1, <2>1, SumScaled
<1>10. Abs(h) \in Int /\ h <= Abs(h) /\ -h <= Abs(h)
  BY <1>1 DEF Abs
<1> QED  BY <1>1, <1>3, <1>5, <1>6, <1>7, <1>8, <1>9, <1>10

(* With whole biases and couplings, fields are whole.                       *)
LEMMA FieldIsWhole ==
    ASSUME NEW m, IsModel(m), IntegerMode(m), NEW s \in [Vars(m) -> {-1, 1}], NEW i \in Vars(m)
    PROVE  \E n \in Int : Field(m, s, i) = 4 * n
<1> DEFINE V == Vars(m)
           f == Pulled(m, s, i)
           g == [j \in V |-> (m.quad[i][j] \div 4) * s[j]]
           h == m.linear[i]
<1>1. IsFiniteSet(V) /\ h \in Int /\ IsWhole(h) /\ IsState(m, s) /\ 4 \in Int
  BY DEF IsModel, IsState, IntegerMode
<1>2. \A j \in V : f[j] \in Int /\ g[j] \in Int /\ f[j] = 4 * g[j]
  <2> TAKE j \in V
  <2> DEFINE q == m.quad[i][j]
             d == m.quad[i][j] \div 4
             a == s[j]
  <2>1. q \in Int /\ IsWhole(q) /\ a \in {-1, 1}
    BY DEF IsModel, IntegerMode
  <2>2. f[j] = q * a /\ g[j] = d * a
    BY DEF Pulled
  <2>3. d \in Int /\ q = 4 * d
    BY <2>1, WholeQuarters
  <2> HIDE DEF q, d, a, f, g
  <2>4. CASE a = 1
    BY <2>2, <2>3, <2>4
  <2>5. CASE a = -1
    BY <2>2, <2>3, <2>5
  <2> QED  BY <2>1, <2>4, <2>5
<1>3. Field(m, s, i) = h + SumFunctionOnSet(f, V)
  BY <1>1, PullType DEF Field
<1> HIDE DEF V, f, g, h
<1>4. SumFunctionOnSet(f, V) = 4 * SumFunctionOnSet(g, V)
  <2>1. \A j \in V : g[j] \in Int /\ f[j] = 4 * g[j]
    BY <1>2
  <2> QED  BY <1>1, <2>1, SumScaled
<1>5. SumFunctionOnSet(g, V) \in Int
  BY <1>1, <1>2, SumType
<1>6. h \div 4 \in Int /\ h = 4 * (h \div 4)
  BY <1>1, WholeQuarters
<1>7. Field(m, s, i) = 4 * (h \div 4 + SumFunctionOnSet(g, V))
  BY <1>3, <1>4, <1>5, <1>6
<1> QED  BY <1>5, <1>6, <1>7

(* The table, sized from the model before any spin is set, has an entry for *)
(* every proposal that needs one, and is only asked for whole numbers       *)
(* (fast_annealer.hpp:33-39, 148-163, 334-340).                             *)
THEOREM TableIsLargeEnough == Spec => []TableCoversProposals
<1>1. FastInv => TableCoversProposals
  <2> SUFFICES ASSUME FastInv, Proposing, IntegerMode(view), Change > 0
               PROVE  IsWhole(Change) /\ Change \div Unit < TableSize(view)
    BY DEF TableCoversProposals
  <2> DEFINE a == spin[next]
             F == Field(view, spin, next)
             L == LargestField(view)
  <2>1. Vars(model) # {} /\ IsModel(view) /\ spin \in [Vars(view) -> {-1, 1}]
    BY ViewIsModel DEF Proposing, FastInv, Spins
  <2>2. next \in Vars(view) /\ Change = -2 * a * F /\ a \in {-1, 1} /\ F \in Int
    BY <2>1, ChangeIsRise, ViewIsModel
  <2>3. F <= L /\ -F <= L /\ L \in Int
    BY <2>1, <2>2, FieldIsBounded, LargestFieldBounds
  <2>4. \E n \in Int : F = 4 * n
    BY <2>1, <2>2, FieldIsWhole
  <2> HIDE DEF a, F, L
  <2>5. PICK n \in Int : F = 4 * n
    BY <2>4
  <2>6. \E k \in Int : Change = 4 * k /\ Change <= 2 * L
    <3>1. CASE a = 1
      <4>1. Change = 4 * (-2 * n) /\ Change <= 2 * L
        BY <2>2, <2>3, <2>5, <3>1
      <4> QED  BY <4>1
    <3>2. CASE a = -1
      <4>1. Change = 4 * (2 * n) /\ Change <= 2 * L
        BY <2>2, <2>3, <2>5, <3>2
      <4> QED  BY <4>1
    <3> QED  BY <2>2, <3>1, <3>2
  <2>7. PICK k \in Int : Change = 4 * k /\ Change <= 2 * L
    BY <2>6
  <2>8. IsWhole(Change) /\ Change \div Unit = k
    BY <2>7 DEF IsWhole, Unit
  <2>9. TableSize(view) = (2 * L) \div 4 + 1
    BY DEF TableSize, L, Unit
  <2>10. k <= (2 * L) \div 4
    BY <2>3, <2>7
  <2> QED  BY <2>3, <2>8, <2>9, <2>10
<1> QED  BY <1>1, FastInvariant, PTL

-----------------------------------------------------------------------------
(* The caches, the table and the draws spared do not show: every step is a  *)
(* step of the plain annealer or leaves its state alone                     *)
(* (fast_annealer.hpp:16-51, 289-371).                                      *)

(* The operators of the instance are those of this module.                  *)
LEMMA SumInPlain == ASSUME NEW f PROVE Plain!SumFunction(f) = SumFunction(f)
BY DEF Plain!SumFunction, Plain!SumFunctionOnSet, Plain!FoldFunctionOnSet, Plain!MapThenFoldSet,
       SumFunction, SumFunctionOnSet, FoldFunctionOnSet, MapThenFoldSet

LEMMA CardinalityInPlain == ASSUME NEW S PROVE Plain!Cardinality(S) = Cardinality(S)
BY DEF Plain!Cardinality, Cardinality

LEMMA BqmInPlain ==
    ASSUME NEW m, NEW s, NEW i
    PROVE  /\ Plain!Vars(m) = Vars(m) /\ Plain!ToSpin(m) = ToSpin(m)
           /\ Plain!Field(m, s, i) = Field(m, s, i) /\ Plain!Energy(m, s) = Energy(m, s)
<1>1. Plain!Vars(m) = Vars(m)
  BY DEF Plain!Vars, Vars
<1>2. \A j : Plain!Pull(m, s, j) = Pull(m, s, j)
  BY <1>1, SumInPlain DEF Plain!Pull, Pull
<1>3. Plain!Field(m, s, i) = Field(m, s, i)
  BY <1>2 DEF Plain!Field, Field
<1>4. Plain!Energy(m, s) = Energy(m, s)
  BY <1>1, <1>2, SumInPlain DEF Plain!Energy, Energy
<1>5. \A j : Plain!NeighborSum(m, j) = NeighborSum(m, j)
  BY <1>1, SumInPlain DEF Plain!NeighborSum, NeighborSum
<1>6. Plain!AllCouplings(m) = AllCouplings(m)
  BY <1>1, <1>5, SumInPlain DEF Plain!AllCouplings, AllCouplings
<1>7. Plain!QuarterCouplings(m) = QuarterCouplings(m)
  BY <1>1 DEF Plain!QuarterCouplings, QuarterCouplings
<1>8. Plain!ToSpin(m) = ToSpin(m)
  BY <1>1, <1>5, <1>6, <1>7, SumInPlain DEF Plain!ToSpin, ToSpin
<1> QED  BY <1>1, <1>3, <1>4, <1>8

LEMMA ChangeInPlain ==
    ASSUME FastInv, Vars(model) # {}
    PROVE  Plain!Rises(spin, next) = Change
BY ChangeIsRise, BqmInPlain DEF FastInv, Plain!Rises

(* The draws that count: one for every proposal that goes uphill.           *)
LEMMA DrawsInPlain ==
    ASSUME FastInv, Vars(model) # {}
    PROVE  Drawn(Change) - Spared(Change) = IF Change <= 0 THEN 0 ELSE 1
<1>1. level \in 1 .. 4 /\ Change \in Int
  BY ViewIsModel, ChangeIsRise
<1>2. CASE level < 3
  BY <1>1, <1>2 DEF Drawn, Spared
<1>3. CASE level >= 3
  BY <1>1, <1>3 DEF Drawn, Spared
<1> QED  BY <1>1, <1>2, <1>3

LEMMA AcceptInPlain == FastInv /\ Accept => Plain!Accept
<1> SUFFICES ASSUME FastInv, Accept PROVE Plain!Accept
  OBVIOUS
<1>1. Vars(model) # {} /\ sweep < NumSweeps
  BY DEF Accept, Proposing
<1>2. Plain!Rises(spin, next) = Change /\ Change \in Int
  BY <1>1, ChangeInPlain, ChangeIsRise
<1>3. draws' - spare' = IF Change <= 0 THEN draws - spare ELSE (draws - spare) + 1
  <2> DEFINE a == Drawn(Change)
             b == Spared(Change)
  <2>1. draws' = draws + a /\ spare' = spare + b
    BY DEF Accept
  <2>2. a \in Int /\ b \in Int
    BY DEF Drawn, Spared
  <2>3. a - b = IF Change <= 0 THEN 0 ELSE 1
    BY <1>1, DrawsInPlain
  <2>4. draws \in Int /\ spare \in Int
    BY DEF FastInv
  <2> HIDE DEF a, b
  <2> QED  BY <1>2, <2>1, <2>2, <2>3, <2>4
<1>4. Plain!Proposing /\ Plain!Advance /\ spin' = Plain!Flipped(spin, next)
  BY <1>1, BqmInPlain, CardinalityInPlain DEF Accept, Advance, Plain!Proposing, Plain!Advance, Plain!Flipped
<1>5. /\ energy' = energy + Change
      /\ best' = (IF energy' < bestEnergy THEN spin' ELSE best)
      /\ bestEnergy' = (IF energy' < bestEnergy THEN energy' ELSE bestEnergy)
      /\ model' = model
  BY DEF Accept
<1> QED  BY <1>2, <1>3, <1>4, <1>5 DEF Plain!Accept

LEMMA RejectInPlain == FastInv /\ Reject => Plain!Reject
<1> SUFFICES ASSUME FastInv, Reject PROVE Plain!Reject
  OBVIOUS
<1>1. Vars(model) # {} /\ sweep < NumSweeps /\ Change > 0
  BY DEF Reject, Proposing
<1>2. Plain!Rises(spin, next) = Change /\ Change \in Int
  BY <1>1, ChangeInPlain, ChangeIsRise
<1>3. draws' - spare' = (draws - spare) + 1
  <2>1. draws' = draws + 1 /\ spare' = spare
    BY <1>1, <1>2 DEF Reject, Drawn
  <2>2. draws \in Int /\ spare \in Int
    BY DEF FastInv
  <2> QED  BY <2>1, <2>2
<1>4. Plain!Proposing /\ Plain!Advance
  BY <1>1, BqmInPlain, CardinalityInPlain DEF Reject, Advance, Plain!Proposing, Plain!Advance
<1> QED  BY <1>1, <1>2, <1>3, <1>4 DEF Reject, Plain!Reject

(* The fast annealer takes the steps of the plain one at each of its       *)
(* levels (fast_annealer.hpp:46-52).                                        *)
THEOREM FastImplementsPlain == Spec => ImplementsPlainAnnealer
<1>1. Init => Plain!Start
  BY BqmInPlain DEF Init, Plain!Start, CompactView
<1>2. FastInv /\ [Next]_fast => [Plain!Anneal]_Plain!annealing
  <2> SUFFICES ASSUME FastInv, [Next]_fast PROVE [Plain!Anneal]_Plain!annealing
    OBVIOUS
  <2>1. CASE Accept
    BY <2>1, AcceptInPlain DEF Plain!Anneal
  <2>2. CASE Reject
    BY <2>2, RejectInPlain DEF Plain!Anneal
  <2>3. CASE Return
    BY <2>3 DEF Return, Plain!annealing
  <2>4. CASE UNCHANGED fast
    BY <2>4 DEF fast, Plain!annealing
  <2> QED  BY <2>1, <2>2, <2>3, <2>4 DEF Next
<1> QED  BY <1>1, <1>2, FastInvariant, PTL DEF Spec, ImplementsPlainAnnealer, Plain!PlainSpec

-----------------------------------------------------------------------------
(* The variables of a selection model are the candidates of all agents,     *)
(* each once.                                                               *)
IsMenus(menus) ==
    /\ menus \in Seq(Seq(Seq(Cells) \ {<<>>}) \ {<<>>})
    /\ Len(menus) > 0

Candidates(menus) == {c \in Nat \X Nat : c[1] \in DOMAIN menus /\ c[2] \in DOMAIN menus[c[1]]}

CandidatesOf(menus) == [a \in 1 .. Len(menus) |-> [i \in DOMAIN menus[a] |-> <<a, i>>]]

IsFlat(F, seqs, n) == F = [i \in 1 .. n |-> IF i = 1 THEN seqs[i] ELSE F[i - 1] \o seqs[i]]

LEMMA FlatExists == ASSUME NEW seqs, NEW n \in Nat PROVE \E F : IsFlat(F, seqs, n)
<1> DEFINE T == {k \in Nat : \E F : IsFlat(F, seqs, k)}
<1>1. 0 \in T
  <2> DEFINE F == [i \in 1 .. 0 |-> 0]
  <2>1. IsFlat(F, seqs, 0)
    BY DEF IsFlat
  <2> HIDE DEF F
  <2> QED  BY <2>1
<1>2. ASSUME NEW k \in Nat, k \in T PROVE k + 1 \in T
  <2>1. PICK F : IsFlat(F, seqs, k)
    BY <1>2
  <2> DEFINE G == [i \in 1 .. k + 1 |->
                      IF i <= k THEN F[i] ELSE IF i = 1 THEN seqs[i] ELSE F[i - 1] \o seqs[i]]
  <2>2. ASSUME NEW i \in 1 .. k + 1
        PROVE  G[i] = IF i = 1 THEN seqs[i] ELSE G[i - 1] \o seqs[i]
    <3>1. i # 1 => G[i - 1] = F[i - 1]
      OBVIOUS
    <3>2. CASE i <= k
      <4>0. i \in 1 .. k
        BY <3>2
      <4>1. F[i] = IF i = 1 THEN seqs[i] ELSE F[i - 1] \o seqs[i]
        BY <2>1, <4>0 DEF IsFlat
      <4> QED  BY <3>1, <3>2, <4>1
    <3>3. CASE ~(i <= k)
      BY <3>1, <3>3
    <3> QED  BY <3>2, <3>3
  <2>3. IsFlat(G, seqs, k + 1)
    <3>1. G = [i \in 1 .. k + 1 |-> G[i]]
      OBVIOUS
    <3> HIDE DEF G
    <3> QED  BY <2>2, <3>1 DEF IsFlat
  <2> HIDE DEF G
  <2> QED  BY <2>3
<1>3. Nat \subseteq T
  <2> HIDE DEF T
  <2> QED  BY <1>1, <1>2, NaturalInduction
<1> QED  BY <1>3

LEMMA MenusShape ==
    ASSUME NEW menus, IsMenus(menus)
    PROVE  /\ Len(menus) \in Nat /\ DOMAIN menus = 1 .. Len(menus) /\ Len(menus) > 0
           /\ \A a \in DOMAIN menus :
                /\ menus[a] \in Seq(Seq(Cells)) /\ DOMAIN menus[a] = 1 .. Len(menus[a])
                /\ Len(menus[a]) \in Nat /\ Len(menus[a]) > 0
                /\ \A i \in DOMAIN menus[a] :
                     menus[a][i] \in Seq(Cells) /\ Len(menus[a][i]) \in Nat /\ Len(menus[a][i]) > 0
<1>1. Len(menus) \in Nat /\ DOMAIN menus = 1 .. Len(menus) /\ Len(menus) > 0
  BY DEF IsMenus
<1>2. ASSUME NEW a \in DOMAIN menus
      PROVE  /\ menus[a] \in Seq(Seq(Cells)) /\ DOMAIN menus[a] = 1 .. Len(menus[a])
             /\ Len(menus[a]) \in Nat /\ Len(menus[a]) > 0
             /\ \A i \in DOMAIN menus[a] :
                  menus[a][i] \in Seq(Cells) /\ Len(menus[a][i]) \in Nat /\ Len(menus[a][i]) > 0
  <2>1. menus[a] \in Seq(Seq(Cells) \ {<<>>}) /\ menus[a] # <<>>
    BY <1>1 DEF IsMenus
  <2>2. DOMAIN menus[a] = 1 .. Len(menus[a]) /\ Len(menus[a]) \in Nat /\ Len(menus[a]) > 0
    BY <2>1
  <2>3. ASSUME NEW i \in DOMAIN menus[a]
        PROVE  menus[a][i] \in Seq(Cells) /\ Len(menus[a][i]) \in Nat /\ Len(menus[a][i]) > 0
    <3>1. menus[a][i] \in Seq(Cells) /\ menus[a][i] # <<>>
      BY <2>1, <2>2
    <3> QED  BY <3>1
  <2>4. menus[a] \in Seq(Seq(Cells))
    BY <2>1, <2>2, <2>3
  <2> QED  BY <2>2, <2>3, <2>4
<1> QED  BY <1>1, <1>2

Listed(menus, s, k) ==
    /\ s \in Seq(Candidates(menus))
    /\ \A v \in 1 .. Len(s) : s[v][1] <= k
    /\ \A v, w \in 1 .. Len(s) : s[v] = s[w] => v = w
    /\ \A c \in Candidates(menus) : c[1] <= k => \E v \in 1 .. Len(s) : s[v] = c

LEMMA OwnersOfAgent ==
    ASSUME NEW menus, IsMenus(menus), NEW a \in DOMAIN menus
    PROVE  LET t == CandidatesOf(menus)[a]
           IN  /\ t \in Seq(Candidates(menus)) /\ Len(t) = Len(menus[a])
               /\ \A i \in 1 .. Len(t) : t[i] = <<a, i>>
<1> DEFINE t == CandidatesOf(menus)[a]
<1>1. DOMAIN menus = 1 .. Len(menus) /\ a \in Nat /\ DOMAIN menus[a] = 1 .. Len(menus[a])
      /\ Len(menus[a]) \in Nat
  BY MenusShape
<1>2. t = [i \in 1 .. Len(menus[a]) |-> <<a, i>>]
  BY <1>1 DEF CandidatesOf
<1>3. \A i \in 1 .. Len(menus[a]) : t[i] = <<a, i>> /\ t[i] \in Candidates(menus)
  BY <1>1, <1>2 DEF Candidates
<1>4. t \in Seq(Candidates(menus)) /\ Len(t) = Len(menus[a])
  BY <1>1, <1>2, <1>3
<1> QED  BY <1>3, <1>4

LEMMA ListedGrows ==
    ASSUME NEW menus, IsMenus(menus), NEW k \in Nat, k + 1 \in DOMAIN menus,
           NEW s, Listed(menus, s, k)
    PROVE  Listed(menus, s \o CandidatesOf(menus)[k + 1], k + 1)
<1> DEFINE a == k + 1
           t == CandidatesOf(menus)[a]
           r == s \o t
           l == Len(s)
           m == Len(t)
<1>1. a \in Nat /\ a = k + 1 /\ a \in DOMAIN menus
  OBVIOUS
<1>2. t \in Seq(Candidates(menus)) /\ m = Len(menus[a]) /\ \A i \in 1 .. m : t[i] = <<a, i>>
  BY OwnersOfAgent
<1>3. s \in Seq(Candidates(menus)) /\ l \in Nat /\ m \in Nat
  BY <1>2 DEF Listed
<1>4. /\ r \in Seq(Candidates(menus)) /\ Len(r) = l + m
      /\ \A v \in 1 .. l : r[v] = s[v]
      /\ \A i \in 1 .. m : r[l + i] = t[i]
  <2> HIDE DEF t
  <2>1. t \in Seq(Candidates(menus)) /\ s \in Seq(Candidates(menus))
    BY <1>2, <1>3
  <2>2. /\ r \in Seq(Candidates(menus)) /\ Len(r) = l + m
        /\ \A v \in 1 .. l + m : r[v] = IF v <= l THEN s[v] ELSE t[v - l]
    BY <2>1, ConcatProperties
  <2>3. ASSUME NEW v \in 1 .. l PROVE r[v] = s[v]
    BY <1>3, <2>2
  <2>4. ASSUME NEW i \in 1 .. m PROVE r[l + i] = t[i]
    <3> DEFINE v == l + i
    <3>1. v \in 1 .. l + m /\ ~(v <= l) /\ v - l = i
      BY <1>3
    <3> HIDE DEF v
    <3>2. r[v] = t[v - l]
      BY <2>2, <3>1
    <3> QED  BY <3>1, <3>2 DEF v
  <2> QED  BY <2>2, <2>3, <2>4
<1> HIDE DEF a, t, r, l, m
<1>5. ASSUME NEW v \in 1 .. Len(r)
      PROVE  \/ v \in 1 .. l /\ r[v] = s[v] /\ r[v][1] <= k
             \/ v - l \in 1 .. m /\ r[v] = <<a, v - l>>
  <2>1. CASE v \in 1 .. l
    BY <1>4, <2>1 DEF Listed, l
  <2>2. CASE v \notin 1 .. l
    <3>1. v - l \in 1 .. m /\ l + (v - l) = v
      BY <1>3, <1>4, <2>2
    <3> QED  BY <1>2, <1>4, <3>1
  <2> QED  BY <2>1, <2>2
<1>6. \A v \in 1 .. Len(r) : r[v][1] <= a
  <2> SUFFICES ASSUME NEW v \in 1 .. Len(r) PROVE r[v][1] <= a
    OBVIOUS
  <2>1. r[v] \in Candidates(menus)
    BY <1>4
  <2>2. r[v][1] \in Nat
    BY <2>1 DEF Candidates
  <2>3. r[v][1] <= k \/ r[v][1] = a
    BY <1>5
  <2> QED  BY <1>1, <2>2, <2>3
<1>7. ASSUME NEW v \in 1 .. Len(r), NEW w \in 1 .. Len(r), r[v] = r[w] PROVE v = w
  <2>1. CASE v \in 1 .. l /\ r[v] = s[v] /\ r[v][1] <= k
    <3>1. r[w] # <<a, w - l>>
      BY <1>1, <1>7, <2>1
    <3>2. w \in 1 .. l /\ r[w] = s[w]
      BY <1>5, <3>1
    <3> QED  BY <1>7, <2>1, <3>2 DEF Listed, l
  <2>2. CASE v - l \in 1 .. m /\ r[v] = <<a, v - l>>
    <3>1. ~(r[w][1] <= k)
      BY <1>1, <1>7, <2>2
    <3>2. r[w] = <<a, w - l>>
      BY <1>5, <3>1
    <3>3. v - l = w - l
      <4>1. r[v][2] = v - l
        BY <2>2
      <4>2. r[w][2] = w - l
        BY <3>2
      <4> QED  BY <1>7, <4>1, <4>2
    <3> QED  BY <1>3, <1>4, <3>3
  <2> QED  BY <1>5, <2>1, <2>2
<1>8. ASSUME NEW c \in Candidates(menus), c[1] <= a
      PROVE  \E v \in 1 .. Len(r) : r[v] = c
  <2>1. c \in Nat \X Nat /\ c[1] \in Nat /\ c[2] \in DOMAIN menus[c[1]] /\ c = <<c[1], c[2]>>
    BY DEF Candidates
  <2>2. CASE c[1] <= k
    <3>1. PICK v \in 1 .. l : s[v] = c
      BY <2>2 DEF Listed, l
    <3>2. v \in 1 .. Len(r)
      BY <1>3, <1>4
    <3> QED  BY <1>4, <3>1, <3>2
  <2>3. CASE ~(c[1] <= k)
    <3>1. c[1] = a
      BY <1>1, <1>8, <2>1, <2>3
    <3>2. c[2] \in 1 .. m
      BY <1>1, <1>2, <2>1, <3>1, MenusShape
    <3>3. r[l + c[2]] = t[c[2]] /\ t[c[2]] = <<a, c[2]>>
      BY <1>2, <1>4, <3>2
    <3>4. l + c[2] \in 1 .. Len(r)
      BY <1>3, <1>4, <3>2
    <3>5. <<a, c[2]>> = c
      BY <2>1, <3>1
    <3> QED  BY <3>3, <3>4, <3>5
  <2> QED  BY <2>2, <2>3
<1> QED  BY <1>4, <1>6, <1>7, <1>8 DEF Listed, a, t, r

LEMMA OwnersAreListed ==
    ASSUME NEW menus, IsMenus(menus)
    PROVE  Listed(menus, VarOwner(menus), Len(menus))
<1> DEFINE n == Len(menus)
           seqs == CandidatesOf(menus)
           F == CHOOSE f : IsFlat(f, seqs, n)
           T == {k \in Nat : k + 1 \in 1 .. n => Listed(menus, F[k + 1], k + 1)}
<1>1. n \in Nat /\ n > 0 /\ DOMAIN menus = 1 .. n
  BY MenusShape
<1>2. IsFlat(F, seqs, n)
  BY <1>1, FlatExists
<1>3. VarOwner(menus) = F[n]
  <2>1. Len(seqs) = n /\ seqs \in Seq(Seq(Candidates(menus)))
    <3>1. seqs = [a \in 1 .. n |-> seqs[a]] /\ \A a \in 1 .. n : seqs[a] \in Seq(Candidates(menus))
      BY <1>1, OwnersOfAgent DEF CandidatesOf
    <3> HIDE DEF seqs, n
    <3> QED  BY <1>1, <3>1
  <2>2. VarOwner(menus) = FlattenSeq(seqs)
    BY DEF VarOwner, CandidatesOf
  <2> HIDE DEF seqs, n
  <2>3. FlattenSeq(seqs) = F[n]
    BY <1>1, <2>1 DEF FlattenSeq, IsFlat
  <2> QED  BY <2>2, <2>3
<1> HIDE DEF n, seqs, F
<1>4. 0 \in T
  <2>1. F[1] = seqs[1]
    BY <1>1, <1>2 DEF IsFlat
  <2>2. Listed(menus, <<>>, 0)
    <3>1. \A c \in Candidates(menus) : c[1] \in 1 .. n
      BY <1>1 DEF Candidates
    <3> QED  BY <3>1 DEF Listed
  <2>3. 0 \in Nat /\ 0 + 1 \in DOMAIN menus /\ 0 + 1 = 1
    BY <1>1
  <2>4. Listed(menus, <<>> \o seqs[1], 1)
    BY <2>2, <2>3, ListedGrows DEF seqs
  <2>5. <<>> \o seqs[1] = seqs[1]
    <3>1. seqs[1] \in Seq(Candidates(menus))
      BY <2>3, OwnersOfAgent DEF seqs
    <3> QED  BY <3>1
  <2> QED  BY <2>1, <2>4, <2>5
<1>5. ASSUME NEW k \in Nat, k \in T PROVE k + 1 \in T
  <2> SUFFICES ASSUME (k + 1) + 1 \in 1 .. n PROVE Listed(menus, F[(k + 1) + 1], (k + 1) + 1)
    OBVIOUS
  <2> DEFINE j == k + 1
  <2>1. j \in Nat /\ j \in 1 .. n /\ j + 1 \in 1 .. n /\ j + 1 # 1 /\ (j + 1) - 1 = j
    BY <1>1
  <2>2. Listed(menus, F[j], j)
    BY <1>5, <2>1
  <2> HIDE DEF j
  <2>3. F[j + 1] = F[j] \o seqs[j + 1]
    BY <1>2, <2>1 DEF IsFlat
  <2>4. Listed(menus, F[j] \o seqs[j + 1], j + 1)
    BY <1>1, <2>1, <2>2, ListedGrows DEF seqs
  <2> QED  BY <2>3, <2>4 DEF j
<1>6. Nat \subseteq T
  <2> HIDE DEF T
  <2> QED  BY <1>4, <1>5, NaturalInduction
<1>7. n - 1 \in Nat /\ (n - 1) + 1 = n /\ n \in 1 .. n
  BY <1>1
<1>8. Listed(menus, F[n], n)
  BY <1>6, <1>7
<1> QED  BY <1>3, <1>8 DEF n

-----------------------------------------------------------------------------
(* The model that is built from menus.                                      *)
AgentOf(menus) == [v \in DOMAIN VarOwner(menus) |-> VarOwner(menus)[v][1]]

CostOf(menus) ==
    [v \in DOMAIN VarOwner(menus) |-> Cost(menus, VarOwner(menus)[v][1], VarOwner(menus)[v][2])]

PathOf(menus, v) == menus[VarOwner(menus)[v][1]][VarOwner(menus)[v][2]]

ClashOf(menus, window) ==
    [v \in DOMAIN VarOwner(menus) |-> [w \in DOMAIN VarOwner(menus) |->
        IF /\ AgentOf(menus)[v] # AgentOf(menus)[w]
           /\ PathsConflict(PathOf(menus, v), PathOf(menus, w), window)
        THEN 1 ELSE 0]]

BitsOf(menus, state) == [v \in DOMAIN VarOwner(menus) |-> IF state[v] = 1 THEN 1 ELSE 0]

LEMMA OwnerFacts ==
    ASSUME NEW menus, IsMenus(menus)
    PROVE  LET owner == VarOwner(menus)
               V     == DOMAIN owner
           IN  /\ Len(owner) \in Nat /\ V = 1 .. Len(owner) /\ IsFiniteSet(V)
               /\ IsFiniteSet(DOMAIN menus) /\ Cardinality(DOMAIN menus) = Len(menus)
               /\ \A v \in V : /\ owner[v] = <<owner[v][1], owner[v][2]>>
                               /\ owner[v][1] \in DOMAIN menus
                               /\ owner[v][2] \in DOMAIN menus[owner[v][1]]
               /\ \A v, w \in V : owner[v] = owner[w] => v = w
               /\ \A a \in DOMAIN menus : \A i \in DOMAIN menus[a] :
                    \E v \in V : owner[v] = <<a, i>>
<1> DEFINE owner == VarOwner(menus)
           n == Len(menus)
           l == Len(owner)
<1>1. Listed(menus, owner, n)
  BY OwnersAreListed
<1>2. n \in Nat /\ DOMAIN menus = 1 .. n /\ n > 0
  BY MenusShape
<1>3. owner \in Seq(Candidates(menus))
  BY <1>1 DEF Listed
<1>4. l \in Nat /\ DOMAIN owner = 1 .. l
  BY <1>3
<1>5. IsFiniteSet(1 .. l) /\ IsFiniteSet(1 .. n) /\ Cardinality(1 .. n) = n
  <2> HIDE DEF owner, n, l
  <2>1. IsFiniteSet(1 .. l)
    BY <1>4, FS_Interval
  <2>2. IsFiniteSet(1 .. n) /\ Cardinality(1 .. n) = IF 1 > n THEN 0 ELSE n - 1 + 1
    BY <1>2, FS_Interval
  <2> QED  BY <1>2, <2>1, <2>2
<1>6. ASSUME NEW v \in DOMAIN owner
      PROVE  /\ owner[v] = <<owner[v][1], owner[v][2]>>
             /\ owner[v][1] \in DOMAIN menus
             /\ owner[v][2] \in DOMAIN menus[owner[v][1]]
  <2>1. owner[v] \in Candidates(menus)
    BY <1>3
  <2> HIDE DEF owner
  <2> QED  BY <2>1 DEF Candidates
<1>7. \A v, w \in DOMAIN owner : owner[v] = owner[w] => v = w
  BY <1>1, <1>4 DEF Listed
<1>8. ASSUME NEW a \in DOMAIN menus, NEW i \in DOMAIN menus[a]
      PROVE  \E v \in DOMAIN owner : owner[v] = <<a, i>>
  <2> DEFINE c == <<a, i>>
  <2>1. a \in Nat /\ i \in Nat /\ a <= n
    BY <1>2, MenusShape
  <2>2. c \in Candidates(menus) /\ c[1] <= n
    BY <2>1 DEF Candidates
  <2> HIDE DEF c, owner
  <2>3. \E v \in 1 .. Len(owner) : owner[v] = c
    BY <1>1, <2>2 DEF Listed
  <2> QED  BY <1>4, <2>3 DEF c, l
<1> QED  BY <1>2, <1>4, <1>5, <1>6, <1>7, <1>8

LEMMA ConflictIsSymmetric ==
    ASSUME NEW p, NEW q, NEW window, PathsConflict(p, q, window)
    PROVE  PathsConflict(q, p, window)
<1> DEFINE longest == Max({Len(p), Len(q)}) - 1
           horizon == IF window < longest THEN window ELSE longest
<1>1. /\ p # <<>> /\ q # <<>>
      /\ \E t \in 0 .. horizon :
           \/ PathAt(p, t) = PathAt(q, t)
           \/ t > 0 /\ PathAt(p, t) = PathAt(q, t - 1) /\ PathAt(q, t) = PathAt(p, t - 1)
  BY DEF PathsConflict
<1>2. {Len(q), Len(p)} = {Len(p), Len(q)}
  OBVIOUS
<1>3. longest = Max({Len(q), Len(p)}) - 1
  BY <1>2
<1> HIDE DEF longest
<1>4. /\ q # <<>> /\ p # <<>>
      /\ \E t \in 0 .. horizon :
           \/ PathAt(q, t) = PathAt(p, t)
           \/ t > 0 /\ PathAt(q, t) = PathAt(p, t - 1) /\ PathAt(p, t) = PathAt(q, t - 1)
  <2> HIDE DEF horizon
  <2> QED  BY <1>1
<1> QED  BY <1>3, <1>4 DEF PathsConflict

(* Menus always lead to a model in the form the solvers expect: symmetric,  *)
(* with whole weights; its variables are numbered.                          *)
LEMMA BuiltIsSelection ==
    ASSUME NEW menus, IsMenus(menus), NEW p \in Int, NEW window
    PROVE  LET m == BuildModel(menus, p, window)
           IN  /\ Vars(m) = DOMAIN VarOwner(menus) /\ m.spin = FALSE
               /\ IsSelection(m, DOMAIN menus, AgentOf(menus), CostOf(menus), ClashOf(menus, window), p)
               /\ IsModel(m)
<1> DEFINE m == BuildModel(menus, p, window)
           owner == VarOwner(menus)
           V == DOMAIN owner
           g == AgentOf(menus)
           cost == CostOf(menus)
           clash == ClashOf(menus, window)
<1>1. Vars(m) = V /\ m.spin = FALSE /\ m.offset = 4 * p * Len(menus)
  BY DEF BuildModel, Vars, Unit
<1>2. ASSUME NEW v \in V
      PROVE  /\ owner[v] = <<owner[v][1], owner[v][2]>> /\ g[v] = owner[v][1] /\ g[v] \in DOMAIN menus
             /\ cost[v] = Cost(menus, owner[v][1], owner[v][2]) /\ cost[v] \in Nat
             /\ m.linear[v] = 4 * (cost[v] - p)
  <2>1. /\ owner[v] = <<owner[v][1], owner[v][2]>>
        /\ owner[v][1] \in DOMAIN menus /\ owner[v][2] \in DOMAIN menus[owner[v][1]]
    BY OwnerFacts
  <2>2. g[v] = owner[v][1] /\ cost[v] = Cost(menus, owner[v][1], owner[v][2])
    BY DEF AgentOf, CostOf
  <2>3. Cost(menus, owner[v][1], owner[v][2]) \in Nat
    <3> DEFINE a == owner[v][1]
               i == owner[v][2]
    <3>1. a \in DOMAIN menus /\ i \in DOMAIN menus[a]
      BY <2>1
    <3> HIDE DEF a, i, owner
    <3>2. Len(menus[a][i]) \in Nat /\ Len(menus[a][i]) > 0
      BY <3>1, MenusShape
    <3> QED  BY <3>2 DEF Cost, a, i
  <2>4. m.linear[v] = 4 * (Cost(menus, owner[v][1], owner[v][2]) - p)
    BY DEF BuildModel, Unit
  <2> QED  BY <2>1, <2>2, <2>3, <2>4
<1>3. ASSUME NEW v \in V, NEW w \in V
      PROVE  /\ clash[v][w] = IF g[v] # g[w] /\ PathsConflict(PathOf(menus, v), PathOf(menus, w), window)
                              THEN 1 ELSE 0
             /\ m.quad[v][w] = IF v = w THEN 0
                               ELSE IF g[v] = g[w] THEN 8 * p ELSE 4 * p * clash[v][w]
  <2>1. clash[v][w] = IF g[v] # g[w] /\ PathsConflict(PathOf(menus, v), PathOf(menus, w), window)
                      THEN 1 ELSE 0
    BY DEF ClashOf
  <2>2. m.quad[v][w] = 4 * Coupling(menus, owner[v], owner[w], p, window)
    BY DEF BuildModel, Unit
  <2>3. g[v] = owner[v][1] /\ g[w] = owner[w][1] /\ (owner[v] = owner[w] => v = w)
    BY <1>2, OwnerFacts
  <2> HIDE DEF owner, g, clash, m
  <2>4. CASE v = w
    <3>1. Coupling(menus, owner[v], owner[w], p, window) = 0
      BY <2>4 DEF Coupling
    <3>2. m.quad[v][w] = 0
      BY <2>2, <3>1
    <3> QED  BY <2>1, <2>4, <3>2
  <2>5. CASE v # w /\ g[v] = g[w]
    <3>1. Coupling(menus, owner[v], owner[w], p, window) = 2 * p
      BY <2>3, <2>5 DEF Coupling
    <3> QED  BY <2>1, <2>2, <2>5, <3>1
  <2>6. CASE v # w /\ g[v] # g[w]
    <3>1. Coupling(menus, owner[v], owner[w], p, window) =
            IF PathsConflict(PathOf(menus, v), PathOf(menus, w), window) THEN p ELSE 0
      BY <2>3, <2>6 DEF Coupling, PathOf, owner
    <3>2. Coupling(menus, owner[v], owner[w], p, window) = p * clash[v][w]
      BY <2>1, <2>6, <3>1
    <3>3. clash[v][w] \in Int
      BY <2>1
    <3> QED  BY <2>1, <2>2, <2>6, <3>2, <3>3
  <2> QED  BY <2>1, <2>4, <2>5, <2>6
<1>4. IsSelection(m, DOMAIN menus, g, cost, clash, p)
  <2>1. cost \in [V -> Int] /\ clash \in [V -> [V -> {0, 1}]]
    <3>1. cost = [v \in V |-> cost[v]] /\ clash = [v \in V |-> clash[v]]
          /\ \A v \in V : clash[v] = [w \in V |-> clash[v][w]]
      BY DEF CostOf, ClashOf
    <3>2. \A v \in V : cost[v] \in Int
      BY <1>2
    <3>3. \A v, w \in V : clash[v][w] \in {0, 1}
      BY <1>3
    <3> HIDE DEF cost, clash, V
    <3> QED  BY <3>1, <3>2, <3>3
  <2>2. m.offset = 4 * p * Cardinality(DOMAIN menus)
    BY <1>1, OwnerFacts
  <2>3. \A v \in V : m.linear[v] = 4 * (cost[v] - p)
    BY <1>2
  <2>4. \A v, w \in V : /\ g[v] = g[w] => clash[v][w] = 0
                        /\ m.quad[v][w] = IF v = w THEN 0
                                          ELSE IF g[v] = g[w] THEN 8 * p ELSE 4 * p * clash[v][w]
    BY <1>3
  <2> HIDE DEF m, g, cost, clash, V
  <2> QED  BY <1>1, <2>1, <2>2, <2>3, <2>4 DEF IsSelection
<1>5. IsModel(m)
  <2>1. m.linear = [v \in V |-> m.linear[v]] /\ m.quad = [v \in V |-> m.quad[v]]
        /\ \A v \in V : m.quad[v] = [w \in V |-> m.quad[v][w]]
    BY DEF BuildModel
  <2>2. \A v, w \in V : clash[v][w] = clash[w][v] /\ clash[v][w] \in {0, 1}
    <3> SUFFICES ASSUME NEW v \in V, NEW w \in V
                 PROVE  clash[v][w] = clash[w][v] /\ clash[v][w] \in {0, 1}
      OBVIOUS
    <3>1. PathsConflict(PathOf(menus, v), PathOf(menus, w), window) <=>
            PathsConflict(PathOf(menus, w), PathOf(menus, v), window)
      BY ConflictIsSymmetric
    <3> QED  BY <1>3, <3>1
  <2>3. \A v \in V : m.linear[v] \in Int /\ IsWhole(m.linear[v])
    BY <1>2 DEF IsWhole, Unit
  <2>4. ASSUME NEW v \in V, NEW w \in V
        PROVE  m.quad[v][w] \in Int /\ m.quad[v][w] = m.quad[w][v] /\ IsWhole(m.quad[v][w])
    <3> DEFINE c == clash[v][w]
    <3>1. c \in {0, 1} /\ c = clash[w][v]
      BY <2>2
    <3>2. m.quad[v][w] = (IF v = w THEN 0 ELSE IF g[v] = g[w] THEN 8 * p ELSE 4 * p * c)
      BY <1>3
    <3>3. m.quad[w][v] = (IF w = v THEN 0 ELSE IF g[w] = g[v] THEN 8 * p ELSE 4 * p * c)
      BY <1>3, <3>1
    <3> HIDE DEF c, m, g
    <3>4. \E k \in Int : m.quad[v][w] = 4 * k
      <4>1. CASE v = w
        <5>1. m.quad[v][w] = 4 * 0
          BY <3>2, <4>1
        <5> QED  BY <5>1
      <4>2. CASE v # w /\ g[v] = g[w]
        <5>1. m.quad[v][w] = 4 * (2 * p)
          BY <3>2, <4>2
        <5> QED  BY <5>1
      <4>3. CASE v # w /\ g[v] # g[w]
        <5>1. m.quad[v][w] = 4 * (p * c) /\ p * c \in Int
          BY <3>1, <3>2, <4>3
        <5> QED  BY <5>1
      <4> QED  BY <4>1, <4>2, <4>3
    <3>5. m.quad[v][w] \in Int /\ IsWhole(m.quad[v][w])
      BY <3>4 DEF IsWhole, Unit
    <3> QED  BY <3>2, <3>3, <3>5
  <2>5. \A v \in V : m.quad[v][v] = 0
    BY <1>3
  <2>6. IsFiniteSet(V) /\ m.offset \in Int
    <3>1. Len(menus) \in Nat
      BY MenusShape
    <3> QED  BY <1>1, <3>1, OwnerFacts
  <2> HIDE DEF m, V
  <2>7. m.linear \in [V -> Int] /\ m.quad \in [V -> [V -> Int]]
    BY <2>1, <2>3, <2>4
  <2> QED  BY <1>1, <2>3, <2>4, <2>5, <2>6, <2>7 DEF IsModel
<1> QED  BY <1>1, <1>4, <1>5

-----------------------------------------------------------------------------
(* What a state selects.                                                    *)
IsPick(menus, x, f) ==
    \A v \in DOMAIN VarOwner(menus) : x[v] = 1 <=> VarOwner(menus)[v][2] = f[VarOwner(menus)[v][1]]

LEMMA BitsAreGrouped ==
    ASSUME NEW menus, IsMenus(menus), NEW state
    PROVE  /\ IsGrouped(DOMAIN VarOwner(menus), DOMAIN menus, AgentOf(menus), BitsOf(menus, state))
           /\ \A v \in DOMAIN VarOwner(menus) : BitsOf(menus, state)[v] = 1 <=> state[v] = 1
<1> DEFINE V == DOMAIN VarOwner(menus)
<1>1. IsFiniteSet(V) /\ IsFiniteSet(DOMAIN menus)
  BY OwnerFacts
<1>2. AgentOf(menus) \in [V -> DOMAIN menus]
  <2>1. \A v \in V : VarOwner(menus)[v][1] \in DOMAIN menus
    BY OwnerFacts
  <2> QED  BY <2>1 DEF AgentOf
<1>3. BitsOf(menus, state) \in [V -> {0, 1}]
  BY DEF BitsOf
<1>4. \A v \in V : BitsOf(menus, state)[v] = 1 <=> state[v] = 1
  BY DEF BitsOf
<1> QED  BY <1>1, <1>2, <1>3, <1>4 DEF IsGrouped

LEMMA OneMark ==
    ASSUME NEW V, NEW A, NEW g, NEW x, IsGrouped(V, A, g, x), NEW a
    PROVE  Marks(x, V, g, a) = 1 <=>
             \E v \in V : g[v] = a /\ x[v] = 1 /\ \A w \in V : g[w] = a /\ x[w] = 1 => w = v
<1> DEFINE f == OfGroup(x, V, g, a)
           One(v) == g[v] = a /\ x[v] = 1 /\ \A w \in V : g[w] = a /\ x[w] = 1 => w = v
<1>1. IsFiniteSet(V) /\ \A v \in V : f[v] = (IF g[v] = a /\ x[v] = 1 THEN 1 ELSE 0)
  BY DEF IsGrouped, OfGroup
<1>2. Marks(x, V, g, a) = SumFunctionOnSet(f, V)
  BY DEF Marks
<1> HIDE DEF f
<1>3. ASSUME NEW v \in V, One(v) PROVE SumFunctionOnSet(f, V) = 1
  <2>1. f[v] = 1 /\ \A w \in V \ {v} : f[w] = 0
    BY <1>1, <1>3
  <2>2. f[v] \in Int
    BY <2>1
  <2>3. SumFunctionOnSet(f, V) = f[v]
    BY <1>1, <2>1, <2>2, SumSingle
  <2> QED  BY <2>1, <2>3
<1>4. ASSUME SumFunctionOnSet(f, V) = 1 PROVE \E v \in V : One(v)
  <2>1. \E v \in V : f[v] = 1
    <3> SUFFICES ASSUME ~\E v \in V : f[v] = 1 PROVE FALSE
      OBVIOUS
    <3>1. \A v \in V : f[v] = 0
      BY <1>1
    <3>2. SumFunctionOnSet(f, V) = 0
      BY <1>1, <3>1, SumZero
    <3> QED  BY <1>4, <3>2
  <2>2. PICK v \in V : f[v] = 1
    BY <2>1
  <2>3. ASSUME NEW w \in V, g[w] = a, x[w] = 1 PROVE w = v
    <3> SUFFICES ASSUME w # v PROVE FALSE
      OBVIOUS
    <3>1. f[w] = 1
      BY <1>1, <2>3
    <3>2. \A k \in V : f[k] \in Nat
      BY <1>1
    <3>3. \A k, l \in V : k # l => f[k] + f[l] <= SumFunctionOnSet(f, V)
      BY <1>1, <3>2, SumOfNaturals
    <3>4. f[w] + f[v] <= SumFunctionOnSet(f, V)
      BY <3>3
    <3> QED  BY <1>4, <2>2, <3>1, <3>4
  <2>4. g[v] = a /\ x[v] = 1
    BY <1>1, <2>2
  <2>5. One(v)
    BY <2>3, <2>4
  <2> QED  BY <2>5
<1> QED  BY <1>2, <1>3, <1>4

(* The decoder's view and the sums agree: one marked candidate is one mark. *)
LEMMA OneMarked ==
    ASSUME NEW menus, IsMenus(menus), NEW state, NEW a \in DOMAIN menus
    PROVE  Cardinality(Marked(menus, state, a)) = 1 <=>
             Marks(BitsOf(menus, state), DOMAIN VarOwner(menus), AgentOf(menus), a) = 1
<1> DEFINE owner == VarOwner(menus)
           V == DOMAIN owner
           M == Marked(menus, state, a)
           x == BitsOf(menus, state)
           g == AgentOf(menus)
           One(v) == g[v] = a /\ x[v] = 1 /\ \A w \in V : g[w] = a /\ x[w] = 1 => w = v
<1>1. IsGrouped(V, DOMAIN menus, g, x) /\ \A v \in V : x[v] = 1 <=> state[v] = 1
  BY BitsAreGrouped
<1>2. /\ \A v \in V : g[v] = owner[v][1] /\ owner[v] = <<owner[v][1], owner[v][2]>>
                      /\ owner[v][2] \in DOMAIN menus[owner[v][1]]
      /\ \A v, w \in V : owner[v] = owner[w] => v = w
  BY OwnerFacts DEF AgentOf
<1>3. M = {owner[v][2] : v \in {w \in V : g[w] = a /\ x[w] = 1}}
  BY <1>1, <1>2 DEF Marked
<1>4. IsFiniteSet(M)
  <2> DEFINE n == Len(menus[a])
  <2>1. n \in Nat /\ DOMAIN menus[a] = 1 .. n
    BY MenusShape
  <2>2. M \subseteq 1 .. n
    BY <1>2, <1>3, <2>1
  <2> HIDE DEF M, n
  <2>3. IsFiniteSet(1 .. n)
    BY <2>1, FS_Interval
  <2> QED  BY <2>2, <2>3, FS_Subset
<1> HIDE DEF M, owner, V, x, g
<1>5. Cardinality(M) = 1 <=> \E i : M = {i}
  BY <1>4, FS_Singleton
<1>6. ASSUME NEW i, M = {i} PROVE \E v \in V : One(v)
  <2>1. PICK v \in V : g[v] = a /\ x[v] = 1 /\ owner[v][2] = i
    BY <1>3, <1>6
  <2>2. ASSUME NEW w \in V, g[w] = a, x[w] = 1 PROVE w = v
    <3>1. owner[w][2] = i
      BY <1>3, <1>6, <2>2
    <3>2. owner[w] = owner[v]
      BY <1>2, <2>1, <2>2, <3>1
    <3> QED  BY <1>2, <3>2
  <2> QED  BY <2>1, <2>2
<1>7. ASSUME NEW v \in V, One(v) PROVE M = {owner[v][2]}
  BY <1>3, <1>7
<1>8. Marks(x, V, g, a) = 1 <=> \E v \in V : One(v)
  BY <1>1, OneMark
<1> QED  BY <1>5, <1>6, <1>7, <1>8 DEF M, V, x, g, owner

LEMMA SelectionType ==
    ASSUME NEW menus, NEW f
    PROVE  f \in Selections(menus) <=>
             f = [a \in DOMAIN menus |-> f[a]] /\ \A a \in DOMAIN menus : f[a] \in DOMAIN menus[a]
BY DEF Selections

(* A state in which each agent has one path says which.                     *)
LEMMA OneHotPicks ==
    ASSUME NEW menus, IsMenus(menus), NEW state, OneHot(menus, state)
    PROVE  Chosen(menus, state) \in Selections(menus)
           /\ IsPick(menus, BitsOf(menus, state), Chosen(menus, state))
<1> DEFINE owner == VarOwner(menus)
           V == DOMAIN owner
           x == BitsOf(menus, state)
           f == Chosen(menus, state)
<1>1. ASSUME NEW a \in DOMAIN menus
      PROVE  f[a] \in DOMAIN menus[a] /\ Marked(menus, state, a) = {f[a]}
  <2> DEFINE M == Marked(menus, state, a)
  <2>1. Cardinality(M) = 1
    BY DEF OneHot
  <2>2. M = {owner[v][2] : v \in {w \in V : owner[w][1] = a /\ state[w] = 1}}
    BY DEF Marked
  <2>3. M \subseteq DOMAIN menus[a]
    <3>1. \A v \in V : owner[v][2] \in DOMAIN menus[owner[v][1]]
      BY OwnerFacts
    <3> HIDE DEF owner, V, M
    <3> QED  BY <2>2, <3>1
  <2>4. IsFiniteSet(M)
    <3> DEFINE n == Len(menus[a])
    <3>1. n \in Nat /\ DOMAIN menus[a] = 1 .. n
      BY MenusShape
    <3> HIDE DEF M, n
    <3>2. IsFiniteSet(1 .. n)
      BY <3>1, FS_Interval
    <3> QED  BY <2>3, <3>1, <3>2, FS_Subset
  <2> HIDE DEF M
  <2>5. \E i : M = {i}
    BY <2>1, <2>4, FS_Singleton
  <2>6. PICK i : M = {i}
    BY <2>5
  <2>7. i \in DOMAIN menus[a] /\ i \in Nat
    BY <2>3, <2>6, MenusShape
  <2>8. f[a] = Cheapest(menus, a, M)
    BY <2>6 DEF Chosen, M
  <2>9. Cheapest(menus, a, {i}) = i
    <3>1. \A j \in {i} : \/ Cost(menus, a, i) < Cost(menus, a, j)
                         \/ Cost(menus, a, i) = Cost(menus, a, j) /\ i <= j
      BY <2>7
    <3> QED  BY <3>1 DEF Cheapest
  <2> QED  BY <2>6, <2>7, <2>8, <2>9 DEF M
<1>2. f = [a \in DOMAIN menus |-> f[a]]
  BY DEF Chosen
<1>3. f \in Selections(menus)
  <2> HIDE DEF f
  <2> QED  BY <1>1, <1>2, SelectionType
<1>4. ASSUME NEW v \in V PROVE x[v] = 1 <=> owner[v][2] = f[owner[v][1]]
  <2> DEFINE a == owner[v][1]
  <2>1. /\ a \in DOMAIN menus /\ owner[v] = <<a, owner[v][2]>>
        /\ owner[v][2] \in DOMAIN menus[a]
    BY OwnerFacts
  <2>2. Marked(menus, state, a) = {f[a]}
    BY <1>1, <2>1
  <2>3. Marked(menus, state, a) = {owner[w][2] : w \in {u \in V : owner[u][1] = a /\ state[u] = 1}}
    BY DEF Marked
  <2>4. \A w \in V : x[w] = 1 <=> state[w] = 1
    BY BitsAreGrouped
  <2>5. \A w \in V : owner[w] = <<owner[w][1], owner[w][2]>> /\ (owner[w] = owner[v] => w = v)
    BY OwnerFacts
  <2> HIDE DEF f, x, V, owner
  <2>6. ASSUME x[v] = 1 PROVE owner[v][2] = f[a]
    <3>1. owner[v][2] \in Marked(menus, state, a)
      BY <2>3, <2>4, <2>6
    <3> QED  BY <2>2, <3>1
  <2>7. ASSUME owner[v][2] = f[a] PROVE x[v] = 1
    <3>1. owner[v][2] \in Marked(menus, state, a)
      BY <2>2, <2>7
    <3>2. PICK w \in V : owner[w][1] = a /\ state[w] = 1 /\ owner[w][2] = owner[v][2]
      BY <2>3, <3>1
    <3>3. owner[w] = owner[v]
      BY <2>5, <3>2
    <3> QED  BY <2>4, <2>5, <3>2, <3>3
  <2> QED  BY <2>6, <2>7
<1> QED  BY <1>3, <1>4 DEF IsPick

LEMMA PickAt ==
    ASSUME NEW menus, IsMenus(menus), NEW x, NEW f \in Selections(menus), IsPick(menus, x, f),
           NEW a \in DOMAIN menus
    PROVE  \E v \in DOMAIN VarOwner(menus) :
             /\ VarOwner(menus)[v] = <<a, f[a]>> /\ AgentOf(menus)[v] = a /\ x[v] = 1
             /\ \A w \in DOMAIN VarOwner(menus) : AgentOf(menus)[w] = a /\ x[w] = 1 => w = v
<1> DEFINE owner == VarOwner(menus)
           V == DOMAIN owner
           g == AgentOf(menus)
<1>1. f[a] \in DOMAIN menus[a]
  BY SelectionType
<1>2. PICK v \in V : owner[v] = <<a, f[a]>>
  BY <1>1, OwnerFacts
<1>3. \A w \in V : /\ g[w] = owner[w][1] /\ owner[w] = <<owner[w][1], owner[w][2]>>
                   /\ (owner[w] = owner[v] => w = v)
                   /\ (x[w] = 1 <=> owner[w][2] = f[owner[w][1]])
  BY OwnerFacts DEF AgentOf, IsPick
<1> HIDE DEF owner, V, g
<1>4. owner[v][1] = a /\ owner[v][2] = f[a]
  BY <1>2
<1>5. g[v] = a /\ x[v] = 1
  BY <1>3, <1>4
<1>6. ASSUME NEW w \in V, g[w] = a, x[w] = 1 PROVE w = v
  <2>1. owner[w][1] = a /\ owner[w][2] = f[a]
    BY <1>3, <1>6
  <2>2. owner[w] = <<a, f[a]>>
    BY <1>3, <2>1
  <2> QED  BY <1>2, <1>3, <2>2
<1> QED  BY <1>2, <1>5, <1>6 DEF owner, V, g

(* Conversely, a selection says which states select it.                     *)
LEMMA PicksAreOneHot ==
    ASSUME NEW menus, IsMenus(menus), NEW state, NEW f \in Selections(menus),
           IsPick(menus, BitsOf(menus, state), f)
    PROVE  OneHot(menus, state) /\ Chosen(menus, state) = f
<1> DEFINE V == DOMAIN VarOwner(menus)
           x == BitsOf(menus, state)
           g == AgentOf(menus)
           c == Chosen(menus, state)
<1>1. ASSUME NEW a \in DOMAIN menus PROVE Cardinality(Marked(menus, state, a)) = 1
  <2>1. \E v \in V : g[v] = a /\ x[v] = 1 /\ \A w \in V : g[w] = a /\ x[w] = 1 => w = v
    BY PickAt
  <2>2. IsGrouped(V, DOMAIN menus, g, x)
    BY BitsAreGrouped
  <2> HIDE DEF V, g, x
  <2>3. Marks(x, V, g, a) = 1
    BY <2>1, <2>2, OneMark
  <2> QED  BY <2>3, OneMarked DEF V, g, x
<1>2. OneHot(menus, state)
  BY <1>1 DEF OneHot
<1>3. c \in Selections(menus) /\ IsPick(menus, x, c)
  BY <1>2, OneHotPicks
<1>4. ASSUME NEW a \in DOMAIN menus PROVE c[a] = f[a]
  <2>1. PICK v \in V : VarOwner(menus)[v] = <<a, f[a]>> /\ x[v] = 1
    BY PickAt
  <2>2. VarOwner(menus)[v][2] = c[VarOwner(menus)[v][1]]
    BY <1>3, <2>1 DEF IsPick
  <2>3. VarOwner(menus)[v][2] = f[a] /\ VarOwner(menus)[v][1] = a
    BY <2>1
  <2> QED  BY <2>2, <2>3
<1>5. c = [a \in DOMAIN menus |-> c[a]] /\ f = [a \in DOMAIN menus |-> f[a]]
  BY <1>3, SelectionType
<1> QED  BY <1>2, <1>4, <1>5

LEMMA CostsAreNatural ==
    ASSUME NEW menus, IsMenus(menus), NEW a \in DOMAIN menus, NEW i \in DOMAIN menus[a]
    PROVE  Cost(menus, a, i) \in Nat
<1>1. Len(menus[a][i]) \in Nat /\ Len(menus[a][i]) > 0
  BY MenusShape
<1> QED  BY <1>1 DEF Cost

LEMMA TotalIsSum ==
    ASSUME NEW menus, IsMenus(menus), NEW f \in Selections(menus)
    PROVE  LET c == [a \in DOMAIN menus |-> Cost(menus, a, f[a])]
           IN  /\ TotalCost(menus, f) = SumFunctionOnSet(c, DOMAIN menus)
               /\ \A a \in DOMAIN menus : c[a] \in Nat
               /\ TotalCost(menus, f) \in Nat
<1> DEFINE A == DOMAIN menus
           c == [a \in A |-> Cost(menus, a, f[a])]
<1>1. \A a \in A : c[a] \in Nat
  BY CostsAreNatural, SelectionType
<1>2. TotalCost(menus, f) = SumFunction(c) /\ DOMAIN c = A
  BY DEF TotalCost
<1>3. IsFiniteSet(A)
  BY OwnerFacts
<1> HIDE DEF c, A
<1>4. SumFunctionOnSet(c, A) \in Nat
  BY <1>1, <1>3, SumOfNaturals
<1>5. TotalCost(menus, f) = SumFunctionOnSet(c, A)
  BY <1>2, SumWhole
<1> QED  BY <1>1, <1>4, <1>5 DEF c, A

(* What a selection's state costs is what its paths cost.                   *)
LEMMA PickCost ==
    ASSUME NEW menus, IsMenus(menus), NEW state, NEW f \in Selections(menus),
           IsPick(menus, BitsOf(menus, state), f)
    PROVE  LET V == DOMAIN VarOwner(menus)
               x == BitsOf(menus, state)
           IN  /\ Misses(x, V, AgentOf(menus), DOMAIN menus) = 0
               /\ Travel(x, V, CostOf(menus)) = TotalCost(menus, f)
<1> DEFINE owner == VarOwner(menus)
           V == DOMAIN owner
           A == DOMAIN menus
           x == BitsOf(menus, state)
           g == AgentOf(menus)
           cost == CostOf(menus)
           Price == [v \in V |-> cost[v] * x[v]]
           c == [a \in A |-> Cost(menus, a, f[a])]
           R == [a \in A |-> SumFunctionOnSet(OfGroup(Price, V, g, a), V)]
           Ms == [a \in A |-> (Marks(x, V, g, a) - 1) * (Marks(x, V, g, a) - 1)]
<1>1. IsGrouped(V, A, g, x) /\ IsFiniteSet(V) /\ IsFiniteSet(A) /\ g \in [V -> A]
  BY BitsAreGrouped DEF IsGrouped
<1>2. ASSUME NEW v \in V PROVE cost[v] \in Nat /\ Price[v] \in Int /\ x[v] \in {0, 1}
  <2>1. owner[v][1] \in A /\ owner[v][2] \in DOMAIN menus[owner[v][1]]
    BY OwnerFacts
  <2>2. cost[v] = Cost(menus, owner[v][1], owner[v][2])
    BY DEF CostOf
  <2>3. x[v] \in {0, 1}
    BY DEF BitsOf
  <2>4. cost[v] \in Nat
    <3> HIDE DEF owner, cost
    <3> QED  BY <2>1, <2>2, CostsAreNatural
  <2>5. Price[v] = cost[v] * x[v]
    OBVIOUS
  <2> HIDE DEF Price, cost, x
  <2> QED  BY <2>3, <2>4, <2>5
<1>3. ASSUME NEW a \in A PROVE Marks(x, V, g, a) = 1 /\ R[a] = c[a]
  <2>1. PICK v \in V : /\ owner[v] = <<a, f[a]>> /\ g[v] = a /\ x[v] = 1
                       /\ \A w \in V : g[w] = a /\ x[w] = 1 => w = v
    BY PickAt
  <2>2. cost[v] = c[a]
    <3>1. cost[v] = Cost(menus, owner[v][1], owner[v][2])
      BY DEF CostOf
    <3>2. owner[v][1] = a /\ owner[v][2] = f[a]
      BY <2>1
    <3> HIDE DEF owner, cost
    <3> QED  BY <3>1, <3>2
  <2> DEFINE h == OfGroup(Price, V, g, a)
  <2>3. h[v] = cost[v] /\ \A w \in V \ {v} : h[w] = 0
    <3>1. \A w \in V : h[w] = IF g[w] = a THEN cost[w] * x[w] ELSE 0
      BY DEF OfGroup
    <3> HIDE DEF h, cost, x, g, V
    <3>2. h[v] = cost[v] * 1
      BY <2>1, <3>1
    <3>3. ASSUME NEW w \in V \ {v} PROVE h[w] = 0
      <4>1. CASE g[w] = a
        <5>1. x[w] = 0 /\ cost[w] \in Nat
          BY <1>2, <2>1, <4>1
        <5>2. h[w] = cost[w] * 0
          BY <3>1, <4>1, <5>1
        <5> QED  BY <5>1, <5>2
      <4>2. CASE g[w] # a
        BY <3>1, <4>2
      <4> QED  BY <4>1, <4>2
    <3>4. cost[v] \in Nat
      BY <1>2
    <3> QED  BY <3>2, <3>3, <3>4
  <2>4. R[a] = SumFunctionOnSet(h, V)
    OBVIOUS
  <2>5. h[v] \in Int
    <3> HIDE DEF h, cost
    <3> QED  BY <1>2, <2>3
  <2> HIDE DEF h, cost, x, g, V, R, c
  <2>6. SumFunctionOnSet(h, V) = h[v]
    BY <1>1, <2>3, <2>5, SumSingle
  <2>7. Marks(x, V, g, a) = 1
    BY <1>1, <2>1, OneMark
  <2> QED  BY <2>2, <2>3, <2>4, <2>6, <2>7
<1>4. TotalCost(menus, f) = SumFunctionOnSet(c, A)
  BY TotalIsSum
<1>5. \A a \in A : Ms[a] = 0
  <2> SUFFICES ASSUME NEW a \in A PROVE Ms[a] = 0
    OBVIOUS
  <2>1. Marks(x, V, g, a) = 1 /\ Ms[a] = (Marks(x, V, g, a) - 1) * (Marks(x, V, g, a) - 1)
    BY <1>3
  <2> HIDE DEF Ms, x, g, V
  <2> QED  BY <2>1
<1>6. Misses(x, V, g, A) = SumFunctionOnSet(Ms, A) /\ Travel(x, V, cost) = SumFunctionOnSet(Price, V)
  BY DEF Misses, Travel
<1> HIDE DEF V, A, x, g, cost, Price, c, R, Ms
<1>7. SumFunctionOnSet(Ms, A) = 0
  BY <1>1, <1>5, SumZero
<1>8. SumFunctionOnSet(Price, V) = SumFunctionOnSet(R, A)
  <2>1. \A v \in V : Price[v] \in Int
    BY <1>2
  <2> QED  BY <1>1, <2>1, SumByGroup DEF R
<1>9. SumFunctionOnSet(R, A) = SumFunctionOnSet(c, A)
  BY <1>1, <1>3, SumEqual
<1> QED  BY <1>4, <1>6, <1>7, <1>8, <1>9 DEF Price, V, A, x, g, cost, owner

(* It has a clash, seen from both of its ends, exactly when its paths       *)
(* collide.                                                                 *)
LEMMA PickClashes ==
    ASSUME NEW menus, IsMenus(menus), NEW state, NEW f \in Selections(menus),
           IsPick(menus, BitsOf(menus, state), f)
    PROVE  LET V == DOMAIN VarOwner(menus)
               K == Clashes(BitsOf(menus, state), V, ClashOf(menus, WholePath))
           IN  /\ Collides(menus, f) => K >= 2
               /\ ~Collides(menus, f) => K = 0
<1> DEFINE owner == VarOwner(menus)
           V == DOMAIN owner
           x == BitsOf(menus, state)
           g == AgentOf(menus)
           clash == ClashOf(menus, WholePath)
           Terms(v) == [w \in V |-> clash[v][w] * x[w]]
           All == [v \in V |-> x[v] * ClashesOf(x, V, clash, v)]
           Hit(a, b) == PathsConflict(menus[a][f[a]], menus[b][f[b]], WholePath)
<1>1. IsFiniteSet(V) /\ \A v \in V : x[v] \in {0, 1}
  BY BitsAreGrouped DEF IsGrouped, BitsOf
<1>2. ASSUME NEW v \in V, x[v] = 1
      PROVE  g[v] \in DOMAIN menus /\ PathOf(menus, v) = menus[g[v]][f[g[v]]]
  <2>1. owner[v][1] \in DOMAIN menus /\ owner[v][2] = f[owner[v][1]] /\ g[v] = owner[v][1]
    BY <1>2, OwnerFacts DEF IsPick, AgentOf
  <2> QED  BY <2>1 DEF PathOf
<1>3. ASSUME NEW v \in V, NEW w \in V
      PROVE  clash[v][w] = IF g[v] # g[w] /\ PathsConflict(PathOf(menus, v), PathOf(menus, w), WholePath)
                           THEN 1 ELSE 0
  BY DEF ClashOf
<1>4. \A a, b \in DOMAIN menus : Hit(a, b) => Hit(b, a)
  BY ConflictIsSymmetric
<1>5. ASSUME NEW v \in V
      PROVE  /\ \A w \in V : Terms(v)[w] \in Nat
             /\ ClashesOf(x, V, clash, v) = SumFunctionOnSet(Terms(v), V)
  BY <1>1, <1>3 DEF ClashesOf
<1>6. \A v \in V : All[v] = x[v] * ClashesOf(x, V, clash, v)
  OBVIOUS
<1>7. Clashes(x, V, clash) = SumFunctionOnSet(All, V)
  BY DEF Clashes
<1>8. ASSUME NEW v \in V, NEW w \in V PROVE Terms(v)[w] = clash[v][w] * x[w]
  OBVIOUS
<1> HIDE DEF x, V, clash, g, owner, Terms, All
<1>9. \A v \in V : ClashesOf(x, V, clash, v) \in Nat /\ All[v] \in Nat
  <2> SUFFICES ASSUME NEW v \in V PROVE ClashesOf(x, V, clash, v) \in Nat /\ All[v] \in Nat
    OBVIOUS
  <2> DEFINE r == Terms(v)
  <2>1. \A w \in V : r[w] \in Nat
    BY <1>5
  <2> HIDE DEF r
  <2>2. SumFunctionOnSet(r, V) \in Nat
    BY <1>1, <2>1, SumOfNaturals
  <2>3. ClashesOf(x, V, clash, v) \in Nat
    BY <1>5, <2>2 DEF r
  <2>4. x[v] = 0 \/ x[v] = 1
    BY <1>1
  <2> QED  BY <1>6, <2>3, <2>4
<1>10. ASSUME NEW v \in V, NEW w \in V, x[v] = 1, x[w] = 1, clash[v][w] = 1 PROVE All[v] >= 1
  <2> DEFINE r == Terms(v)
  <2>1. (\A k \in V : r[k] \in Nat) /\ r[w] = 1
    BY <1>5, <1>8, <1>10
  <2> HIDE DEF r
  <2>2. \A k \in V : r[k] <= SumFunctionOnSet(r, V)
    BY <1>1, <2>1, SumOfNaturals
  <2>3. ClashesOf(x, V, clash, v) >= 1 /\ ClashesOf(x, V, clash, v) \in Nat
    BY <1>5, <1>9, <2>1, <2>2 DEF r
  <2> QED  BY <1>6, <1>10, <2>3
<1>11. ASSUME Collides(menus, f) PROVE Clashes(x, V, clash) >= 2
  <2>1. PICK a \in DOMAIN menus, b \in DOMAIN menus : a < b /\ Hit(a, b)
    BY <1>11 DEF Collides
  <2>2. Hit(b, a) /\ a # b
    <3>1. a \in Nat /\ b \in Nat
      BY MenusShape
    <3> QED  BY <1>4, <2>1, <3>1
  <2>3. \E v \in V : g[v] = a /\ x[v] = 1
    BY PickAt DEF V, g, owner, x
  <2>4. PICK v \in V : g[v] = a /\ x[v] = 1
    BY <2>3
  <2>5. \E w \in V : g[w] = b /\ x[w] = 1
    BY PickAt DEF V, g, owner, x
  <2>6. PICK w \in V : g[w] = b /\ x[w] = 1
    BY <2>5
  <2>7. PathOf(menus, v) = menus[a][f[a]] /\ PathOf(menus, w) = menus[b][f[b]]
    BY <1>2, <2>4, <2>6
  <2>8. clash[v][w] = 1 /\ clash[w][v] = 1
    BY <1>3, <2>1, <2>2, <2>4, <2>6, <2>7
  <2>9. All[v] >= 1 /\ All[w] >= 1 /\ v # w
    BY <1>10, <2>2, <2>4, <2>6, <2>8
  <2>10. \A k \in V : All[k] \in Nat
    BY <1>9
  <2>11. \A k, l \in V : k # l => All[k] + All[l] <= SumFunctionOnSet(All, V)
    BY <1>1, <2>10, SumOfNaturals
  <2>12. All[v] + All[w] <= SumFunctionOnSet(All, V) /\ SumFunctionOnSet(All, V) \in Nat
    BY <1>1, <2>9, <2>10, <2>11, SumOfNaturals
  <2>13. All[v] \in Nat /\ All[w] \in Nat
    BY <2>10
  <2> QED  BY <1>7, <2>9, <2>12, <2>13
<1>12. ASSUME ~Collides(menus, f) PROVE Clashes(x, V, clash) = 0
  <2>1. ASSUME NEW v \in V PROVE All[v] = 0
    <3>1. CASE x[v] = 0
      BY <1>6, <1>9, <3>1
    <3>2. CASE x[v] = 1
      <4> DEFINE r == Terms(v)
      <4>1. ASSUME NEW w \in V PROVE r[w] = 0
        <5>1. CASE x[w] = 0
          <6>1. clash[v][w] \in Int
            BY <1>3
          <6> QED  BY <1>8, <5>1, <6>1
        <5>2. CASE x[w] = 1
          <6> DEFINE a == g[v]
                     b == g[w]
          <6>1. /\ a \in DOMAIN menus /\ b \in DOMAIN menus /\ PathOf(menus, v) = menus[a][f[a]]
                /\ PathOf(menus, w) = menus[b][f[b]]
            BY <1>2, <3>2, <5>2
          <6>2. ASSUME a # b PROVE ~Hit(a, b)
            <7>1. a \in Nat /\ b \in Nat
              BY <6>1, MenusShape
            <7>2. a < b \/ b < a
              BY <6>2, <7>1
            <7>3. a < b => ~Hit(a, b)
              BY <1>12, <6>1 DEF Collides
            <7>4. b < a => ~Hit(b, a)
              BY <1>12, <6>1 DEF Collides
            <7> HIDE DEF a, b
            <7> QED  BY <1>4, <6>1, <7>2, <7>3, <7>4
          <6>3. clash[v][w] = 0
            BY <1>3, <6>1, <6>2
          <6> QED  BY <1>8, <5>2, <6>3
        <5> QED  BY <1>1, <5>1, <5>2
      <4> HIDE DEF r
      <4>2. SumFunctionOnSet(r, V) = 0
        BY <1>1, <4>1, SumZero
      <4>3. ClashesOf(x, V, clash, v) = 0
        BY <1>5, <4>2 DEF r
      <4> QED  BY <1>6, <3>2, <4>3
    <3> QED  BY <1>1, <3>1, <3>2
  <2>2. SumFunctionOnSet(All, V) = 0
    BY <1>1, <2>1, SumZero
  <2> QED  BY <1>7, <2>2
<1> QED  BY <1>11, <1>12 DEF x, V, clash, owner

IsFree(menus, state) == OneHot(menus, state) /\ ~Collides(menus, Chosen(menus, state))

(* The energies of the states of a built model: the travel cost of a        *)
(* selection without collisions, and at least the penalty for all others.   *)
LEMMA EnergyOfState ==
    ASSUME NEW menus, IsMenus(menus), NEW p \in Int, p > 0, NEW state
    PROVE  LET m == BuildModel(menus, p, WholePath)
               e == Energy(m, BitsOf(menus, state))
           IN  /\ e \in Nat
               /\ IsFree(menus, state) => e = 4 * TotalCost(menus, Chosen(menus, state))
               /\ ~IsFree(menus, state) => e >= 4 * p
<1> DEFINE m == BuildModel(menus, p, WholePath)
           V == DOMAIN VarOwner(menus)
           A == DOMAIN menus
           x == BitsOf(menus, state)
           g == AgentOf(menus)
           cost == CostOf(menus)
           clash == ClashOf(menus, WholePath)
           f == Chosen(menus, state)
           Price == [v \in V |-> cost[v] * x[v]]
           C == Travel(x, V, cost)
           M == Misses(x, V, g, A)
           K == Clashes(x, V, clash)
           e == Energy(m, x)
<1>1. Vars(m) = V /\ IsSelection(m, A, g, cost, clash, p)
  BY BuiltIsSelection
<1>2. IsGrouped(V, A, g, x)
  BY BitsAreGrouped
<1>3. e = 4 * C + 4 * p * M + 2 * p * K /\ M \in Nat /\ K \in Nat
  <2>1. IsGrouped(Vars(m), A, g, x)
    BY <1>1, <1>2
  <2>2. /\ Energy(m, x) = 4 * Travel(x, Vars(m), cost)
                               + 4 * p * Misses(x, Vars(m), g, A)
                               + 2 * p * Clashes(x, Vars(m), clash)
        /\ Misses(x, Vars(m), g, A) \in Nat /\ Clashes(x, Vars(m), clash) \in Nat
    <3>1. IsSelection(m, A, g, cost, clash, p)
      BY <1>1
    <3> HIDE DEF m, A, g, cost, clash, x
    <3> QED  BY <2>1, <3>1, SelectionEnergy, SMTT(30)
  <2> HIDE DEF m, A, g, cost, clash, x, V
  <2> QED  BY <1>1, <2>2
<1>4. C \in Nat
  <2>1. \A v \in V : Price[v] \in Nat
    <3> SUFFICES ASSUME NEW v \in V PROVE Price[v] \in Nat
      OBVIOUS
    <3>1. VarOwner(menus)[v][1] \in A /\ VarOwner(menus)[v][2] \in DOMAIN menus[VarOwner(menus)[v][1]]
      BY OwnerFacts
    <3>2. cost[v] \in Nat
      BY <3>1, CostsAreNatural DEF CostOf
    <3>3. x[v] \in {0, 1} /\ Price[v] = cost[v] * x[v]
      BY DEF BitsOf
    <3> HIDE DEF Price, cost, x
    <3> QED  BY <3>2, <3>3
  <2> HIDE DEF Price, V
  <2>2. IsFiniteSet(V)
    BY OwnerFacts DEF V
  <2>3. SumFunctionOnSet(Price, V) \in Nat
    BY <2>1, <2>2, SumOfNaturals
  <2> QED  BY <2>3 DEF Travel, Price
<1> HIDE DEF m, V, A, x, g, cost, clash, Price, C, M, K, e
<1>5. 4 * p * M \in Nat /\ 2 * p * K \in Nat
  <2>1. p * M \in Nat /\ p * K \in Nat
    BY <1>3
  <2>2. 4 * p * M = 4 * (p * M) /\ 2 * p * K = 2 * (p * K)
    BY <1>3
  <2> QED  BY <2>1, <2>2
<1>6. e \in Nat
  BY <1>3, <1>4, <1>5
<1>7. ASSUME OneHot(menus, state)
      PROVE  /\ M = 0 /\ C = TotalCost(menus, f)
             /\ Collides(menus, f) => K >= 2
             /\ ~Collides(menus, f) => K = 0
  <2>1. f \in Selections(menus) /\ IsPick(menus, BitsOf(menus, state), f)
    BY <1>7, OneHotPicks
  <2> HIDE DEF f
  <2>2. M = 0 /\ C = TotalCost(menus, f)
    BY <2>1, PickCost DEF M, C, V, A, x, g, cost
  <2>3. /\ Collides(menus, f) => K >= 2
        /\ ~Collides(menus, f) => K = 0
    BY <2>1, PickClashes DEF K, V, x, clash
  <2> QED  BY <2>2, <2>3
<1>8. ASSUME ~OneHot(menus, state) PROVE M >= 1
  <2> DEFINE Ms == [a \in A |-> (Marks(x, V, g, a) - 1) * (Marks(x, V, g, a) - 1)]
  <2>1. PICK a \in A : Cardinality(Marked(menus, state, a)) # 1
    BY <1>8 DEF OneHot, A
  <2>2. Marks(x, V, g, a) # 1
    BY <2>1, OneMarked DEF A, x, V, g
  <2>3. ASSUME NEW b \in A
        PROVE  Ms[b] \in Nat /\ (Marks(x, V, g, b) # 1 => Ms[b] >= 1)
    <3> DEFINE k == Marks(x, V, g, b)
    <3>1. k \in Nat /\ Ms[b] = (k - 1) * (k - 1)
      BY <1>2, MarksType
    <3> HIDE DEF k, Ms
    <3>2. CASE k = 0
      BY <3>1, <3>2
    <3>3. CASE k = 1
      BY <3>1, <3>3 DEF k
    <3>4. CASE k > 1
      <4>1. k - 1 \in Nat /\ k - 1 >= 1
        BY <3>1, <3>4
      <4>2. (k - 1) * (k - 1) >= 1 /\ (k - 1) * (k - 1) \in Nat
        BY <4>1
      <4> QED  BY <3>1, <4>2
    <3> QED  BY <3>1, <3>2, <3>3, <3>4
  <2>4. M = SumFunctionOnSet(Ms, A)
    BY DEF Misses, M
  <2>5. IsFiniteSet(A)
    BY OwnerFacts DEF A
  <2>6. \A b \in A : Ms[b] \in Nat
    BY <2>3
  <2>7. Ms[a] >= 1
    BY <2>2, <2>3
  <2> HIDE DEF Ms
  <2>8. Ms[a] <= SumFunctionOnSet(Ms, A)
    BY <2>5, <2>6, SumOfNaturals
  <2> QED  BY <1>3, <2>4, <2>6, <2>7, <2>8
<1>9. IsFree(menus, state) => e = 4 * TotalCost(menus, f)
  <2> SUFFICES ASSUME IsFree(menus, state) PROVE e = 4 * TotalCost(menus, f)
    OBVIOUS
  <2>1. M = 0 /\ K = 0 /\ C = TotalCost(menus, f)
    BY <1>7 DEF IsFree
  <2> QED  BY <1>3, <1>4, <2>1
<1>10. ~IsFree(menus, state) => e >= 4 * p
  <2> SUFFICES ASSUME ~IsFree(menus, state) PROVE e >= 4 * p
    OBVIOUS
  <2>1. CASE ~OneHot(menus, state)
    <3>1. M >= 1
      BY <1>8, <2>1
    <3>2. p * M >= p
      <4>1. p * M = p + p * (M - 1) /\ p * (M - 1) >= 0
        <5>1. M - 1 \in Nat
          BY <1>3, <3>1
        <5>2. p * (M - 1) \in Nat
          BY <5>1
        <5> QED  BY <1>3, <5>1, <5>2
      <4> QED  BY <1>3, <4>1
    <3>3. 4 * p * M = 4 * (p * M) /\ p * M \in Int
      BY <1>3
    <3> QED  BY <1>3, <1>4, <1>5, <3>2, <3>3
  <2>2. CASE OneHot(menus, state)
    <3>1. K >= 2
      BY <1>7, <2>2 DEF IsFree
    <3>2. p * K >= 2 * p
      <4>1. K - 2 \in Nat
        BY <1>3, <3>1
      <4>2. p * (K - 2) \in Nat
        BY <4>1
      <4>3. p * K = 2 * p + p * (K - 2)
        BY <1>3, <4>1
      <4> QED  BY <4>2, <4>3
    <3>3. 2 * p * K = 2 * (p * K) /\ p * K \in Int
      BY <1>3
    <3> QED  BY <1>3, <1>4, <1>5, <3>2, <3>3
  <2> QED  BY <2>1, <2>2
<1> QED  BY <1>6, <1>9, <1>10 DEF e, m, x

LEMMA CostRange ==
    ASSUME NEW menus, IsMenus(menus), NEW a \in DOMAIN menus
    PROVE  LET D == {Cost(menus, a, i) : i \in DOMAIN menus[a]}
           IN  IsFiniteSet(D) /\ D \subseteq Nat /\ D # {}
<1> DEFINE n == Len(menus[a])
           f == [i \in 1 .. n |-> Cost(menus, a, i)]
           D == {Cost(menus, a, i) : i \in DOMAIN menus[a]}
<1>1. n \in Nat /\ n > 0 /\ DOMAIN menus[a] = 1 .. n
  BY MenusShape
<1>2. f \in Surjection(1 .. n, D)
  <2> HIDE DEF n
  <2>1. D = {Cost(menus, a, i) : i \in 1 .. n}
    BY <1>1
  <2>2. f \in [1 .. n -> D] /\ \A c \in D : \E i \in 1 .. n : f[i] = c
    BY <2>1
  <2> HIDE DEF D, f
  <2> QED  BY <2>2 DEF Surjection
<1>3. D \subseteq Nat
  BY CostsAreNatural
<1>4. D # {}
  BY <1>1
<1> HIDE DEF n, f, D
<1>5. IsFiniteSet(1 .. n)
  BY <1>1, FS_Interval
<1>6. IsFiniteSet(D)
  BY <1>2, <1>5, FS_Surjection
<1> QED  BY <1>3, <1>4, <1>6 DEF D

(* The solvers' penalty is more than any selection costs.                   *)
LEMMA DefaultIsEnough ==
    ASSUME NEW menus, IsMenus(menus)
    PROVE  /\ DefaultPenalty(menus) \in Int
           /\ \A f \in Selections(menus) :
                TotalCost(menus, f) \in Nat /\ TotalCost(menus, f) < DefaultPenalty(menus)
<1> DEFINE A == DOMAIN menus
           D(a) == {Cost(menus, a, i) : i \in DOMAIN menus[a]}
           top == [a \in A |-> Max(D(a))]
<1>1. ASSUME NEW a \in A PROVE top[a] \in Int /\ \A x \in D(a) : x <= top[a]
  <2> DEFINE S == D(a)
  <2>1. IsFiniteSet(S) /\ S \subseteq Int /\ S # {}
    BY CostRange
  <2> HIDE DEF S
  <2>2. Max(S) \in S /\ \A x \in S : x <= Max(S)
    BY <2>1, LargestExists
  <2> QED  BY <2>1, <2>2 DEF S
<1>2. IsFiniteSet(A)
  BY OwnerFacts
<1>3. DefaultPenalty(menus) = SumFunction(top) + 1 /\ DOMAIN top = A
  BY DEF DefaultPenalty
<1> HIDE DEF A, D, top
<1>4. SumFunction(top) = SumFunctionOnSet(top, A)
  BY <1>3, SumWhole
<1>5. SumFunctionOnSet(top, A) \in Int
  BY <1>1, <1>2, SumType
<1>6. ASSUME NEW f \in Selections(menus)
      PROVE  TotalCost(menus, f) \in Nat /\ TotalCost(menus, f) <= SumFunctionOnSet(top, A)
  <2> DEFINE c == [a \in A |-> Cost(menus, a, f[a])]
  <2>1. /\ TotalCost(menus, f) = SumFunctionOnSet(c, A) /\ TotalCost(menus, f) \in Nat
        /\ \A a \in A : c[a] \in Nat
    BY TotalIsSum DEF A
  <2>2. \A a \in A : c[a] \in D(a)
    BY SelectionType DEF A, D
  <2> HIDE DEF c
  <2>3. \A a \in A : c[a] \in Int /\ top[a] \in Int /\ c[a] <= top[a]
    BY <1>1, <2>1, <2>2
  <2>4. SumFunctionOnSet(c, A) <= SumFunctionOnSet(top, A)
    BY <1>2, <2>3, SumMonotone
  <2> QED  BY <2>1, <2>4
<1> QED  BY <1>3, <1>4, <1>5, <1>6

LEMMA DearestIsWhole ==
    ASSUME NEW menus, IsMenus(menus)
    PROVE  DearestPath(menus) \in Nat
<1> DEFINE A == DOMAIN menus
           D(a) == {Cost(menus, a, i) : i \in DOMAIN menus[a]}
           f == [a \in A |-> D(a)]
           S == {D(a) : a \in A}
           U == UNION S
<1>1. \A a \in A : IsFiniteSet(D(a)) /\ D(a) \subseteq Nat /\ D(a) # {}
  BY CostRange
<1>2. IsFiniteSet(A) /\ A # {}
  <2>1. Len(menus) \in Nat /\ Len(menus) > 0 /\ A = 1 .. Len(menus)
    BY MenusShape
  <2>2. 1 \in A
    BY <2>1
  <2>3. IsFiniteSet(A)
    BY OwnerFacts
  <2> QED  BY <2>2, <2>3
<1>3. DearestPath(menus) = Max(U)
  BY DEF DearestPath
<1> HIDE DEF A, D
<1>4. f \in Surjection(A, S)
  BY DEF Surjection
<1>5. \A T \in S : IsFiniteSet(T) /\ T \subseteq Nat /\ T # {}
  BY <1>1
<1>6. S # {}
  BY <1>2
<1> HIDE DEF S, f
<1>7. IsFiniteSet(S)
  BY <1>2, <1>4, FS_Surjection
<1>8. IsFiniteSet(U) /\ U \subseteq Int /\ U # {} /\ U \subseteq Nat
  <2>1. IsFiniteSet(U)
    BY <1>5, <1>7, FS_UNION
  <2> QED  BY <1>5, <1>6, <2>1
<1> HIDE DEF U
<1>9. Max(U) \in U
  BY <1>8, LargestExists
<1> QED  BY <1>3, <1>8, <1>9

-----------------------------------------------------------------------------
(* The ground state that brute force finds: among any states there is one   *)
(* that comes first.                                                        *)
LEMMA FirstExists ==
    ASSUME NEW n \in Nat, NEW G, G \subseteq [1 .. n -> {0, 1}], G # {}
    PROVE  \E s \in G : \A r \in G : r = s \/ Before(s, r)
<1> DEFINE Same(s, r, i) == \A j \in 1 .. n : j > i => s[j] = r[j]
           Leads(s, i) == \A r \in G : Same(s, r, i) \/ Before(s, r)
           T == {k \in Nat : k <= n => \E s \in G : Leads(s, n - k)}
<1>0. ASSUME NEW s \in G, NEW r \in G
      PROVE  /\ DOMAIN s = 1 .. n /\ \A j \in 1 .. n : s[j] \in {0, 1} /\ r[j] \in {0, 1}
             /\ Before(s, r) <=> \E i \in 1 .. n : s[i] < r[i] /\ Same(s, r, i)
  <2>1. s \in [1 .. n -> {0, 1}] /\ r \in [1 .. n -> {0, 1}]
    OBVIOUS
  <2>2. DOMAIN s = 1 .. n
    BY <2>1
  <2>3. Before(s, r) <=> \E i \in 1 .. n : s[i] < r[i] /\ Same(s, r, i)
    BY <2>2 DEF Before
  <2> QED  BY <2>1, <2>2, <2>3
<1>1. 0 \in T
  <2>1. PICK s \in G : TRUE
    OBVIOUS
  <2>2. Leads(s, n - 0)
    OBVIOUS
  <2> QED  BY <2>2
<1>2. ASSUME NEW k \in Nat, k \in T PROVE k + 1 \in T
  <2> SUFFICES ASSUME k + 1 <= n PROVE \E u \in G : Leads(u, n - (k + 1))
    OBVIOUS
  <2> DEFINE i == n - k
  <2>1. i \in 1 .. n /\ n - (k + 1) = i - 1 /\ k <= n
    OBVIOUS
  <2>2. PICK s \in G : Leads(s, i)
    BY <1>2, <2>1
  <2> HIDE DEF i
  <2>3. \E u \in G : Same(s, u, i) /\ (u[i] = 0 \/ \A r \in G : Same(s, r, i) => r[i] = 1)
    <3>1. CASE \E u \in G : Same(s, u, i) /\ u[i] = 0
      BY <3>1
    <3>2. CASE ~\E u \in G : Same(s, u, i) /\ u[i] = 0
      <4>1. \A r \in G : Same(s, r, i) => r[i] = 1
        BY <1>0, <2>1, <3>2
      <4> QED  BY <4>1
    <3> QED  BY <3>1, <3>2
  <2>4. PICK u \in G : Same(s, u, i) /\ (u[i] = 0 \/ \A r \in G : Same(s, r, i) => r[i] = 1)
    BY <2>3
  <2>5. ASSUME NEW r \in G PROVE Same(u, r, i - 1) \/ Before(u, r)
    <3>1. CASE Same(s, r, i)
      <4>1. Same(u, r, i)
        BY <2>4, <3>1
      <4>2. u[i] \in {0, 1} /\ r[i] \in {0, 1}
        BY <1>0, <2>1
      <4>3. u[i] = r[i] \/ u[i] < r[i]
        <5>1. CASE u[i] = 0
          BY <4>2, <5>1
        <5>2. CASE u[i] # 0
          BY <2>4, <3>1, <4>2, <5>2
        <5> QED  BY <5>1, <5>2
      <4>4. ASSUME u[i] = r[i] PROVE Same(u, r, i - 1)
        BY <2>1, <4>1, <4>4
      <4>5. ASSUME u[i] < r[i] PROVE Before(u, r)
        BY <1>0, <2>1, <4>1, <4>5
      <4> QED  BY <4>3, <4>4, <4>5
    <3>2. CASE ~Same(s, r, i)
      <4>1. Before(s, r)
        BY <2>2, <3>2
      <4>2. PICK h \in 1 .. n : s[h] < r[h] /\ Same(s, r, h)
        BY <1>0, <4>1
      <4>3. h > i
        BY <2>1, <3>2, <4>2
      <4>4. u[h] = s[h] /\ Same(u, r, h)
        BY <2>1, <2>4, <4>2, <4>3
      <4> QED  BY <1>0, <4>2, <4>4
    <3> QED  BY <3>1, <3>2
  <2> QED  BY <2>1, <2>5
<1>3. n \in T
  <2> HIDE DEF T
  <2>1. Nat \subseteq T
    BY <1>1, <1>2, NaturalInduction
  <2> QED  BY <2>1
<1>4. PICK s \in G : Leads(s, 0)
  BY <1>3
<1>5. ASSUME NEW r \in G, Same(s, r, 0) PROVE r = s
  <2>1. s \in [1 .. n -> {0, 1}] /\ r \in [1 .. n -> {0, 1}] /\ \A j \in 1 .. n : s[j] = r[j]
    BY <1>5
  <2> QED  BY <2>1
<1> QED  BY <1>4, <1>5

LEMMA GroundExists ==
    ASSUME NEW m, NEW n \in Nat, States(m) = [1 .. n -> {0, 1}],
           \A s \in States(m) : Energy(m, s) \in Nat
    PROVE  /\ GroundState(m) \in States(m)
           /\ \A s \in States(m) : Energy(m, GroundState(m)) <= Energy(m, s)
<1> DEFINE D == {Energy(m, s) : s \in States(m)}
           least == Min(D)
           G == {s \in States(m) : Energy(m, s) = least}
<1>1. D \subseteq Nat /\ D # {}
  <2>1. [i \in 1 .. n |-> 0] \in States(m)
    OBVIOUS
  <2> QED  BY <2>1
<1>2. GroundState(m) = CHOOSE s \in G : \A r \in G : r = s \/ Before(s, r)
  BY DEF GroundState
<1> HIDE DEF D
<1>3. least \in D /\ \A x \in D : least <= x
  BY <1>1, LeastNatural
<1>4. G # {} /\ G \subseteq [1 .. n -> {0, 1}]
  BY <1>3 DEF D
<1> HIDE DEF G, least
<1>5. \E s \in G : \A r \in G : r = s \/ Before(s, r)
  BY <1>4, FirstExists
<1>6. GroundState(m) \in G
  BY <1>2, <1>5
<1>7. GroundState(m) \in States(m) /\ Energy(m, GroundState(m)) = least
  BY <1>6 DEF G
<1> QED  BY <1>3, <1>7 DEF D

-----------------------------------------------------------------------------
(* A row of the table: the annealer's invariant, the model the menus lead   *)
(* to, and what is printed once the annealer has returned.                  *)
BuiltInv ==
    /\ IsMenus(pools) /\ penalty \in Int /\ penalty > 0
    /\ model = BuildModel(pools, penalty, WholePath)
    /\ optimal = BestConflictFreeCost(pools)

RowInv ==
    /\ done => optimal # NoCost
    /\ \/ row = NoRow
       \/ /\ done
          /\ row = [told |-> TRUE, gs |-> DecodedIsOptimal(GroundState(model)),
                    hit |-> DecodedIsOptimal(best)]

ExperimentInv == FastInv /\ BuiltInv /\ RowInv

LEMMA PoolsAreMenus ==
    ASSUME pools \in [1 .. Cardinality(Agents) -> MenuChoices]
    PROVE  IsMenus(pools)
<1> DEFINE n == Cardinality(Agents)
           M == Seq(Seq(Cells) \ {<<>>}) \ {<<>>}
<1>1. n \in Nat /\ n # 0
  <2>1. IsFiniteSet(Agents) /\ Agents # {}
    BY AgentsAssumption
  <2> QED  BY <2>1, FS_CardinalityType, FS_EmptySet
<1>2. \A a \in 1 .. n : pools[a] \in M
  BY ExperimentAssumption
<1>3. pools = [a \in 1 .. n |-> pools[a]]
  OBVIOUS
<1> HIDE DEF n, M
<1>4. pools \in Seq(M) /\ Len(pools) = n
  BY <1>1, <1>2, <1>3
<1> QED  BY <1>1, <1>4 DEF IsMenus, M

LEMMA BeginExperiment == Begin => ExperimentInv
<1> SUFFICES ASSUME Begin PROVE ExperimentInv
  OBVIOUS
<1>1. IsMenus(pools)
  BY PoolsAreMenus DEF Begin
<1>2. penalty \in Int
  <2>1. DearestPath(pools) \in Nat /\ DefaultPenalty(pools) \in Int
    BY <1>1, DearestIsWhole, DefaultIsEnough
  <2>2. \A s \in Scales : s \in Nat /\ s * DearestPath(pools) \in Int
    BY <2>1, ExperimentAssumption
  <2>3. penalty \in {s * DearestPath(pools) : s \in Scales} \cup {DefaultPenalty(pools)}
    BY DEF Begin
  <2> QED  BY <2>1, <2>2, <2>3
<1>3. BuiltInv
  BY <1>1, <1>2 DEF Begin, BuiltInv
<1>4. RowInv
  BY DEF Begin, Init, RowInv
<1>5. FastInv
  BY InitFast DEF Begin
<1> QED  BY <1>3, <1>4, <1>5 DEF ExperimentInv

LEMMA StepExperiment == ExperimentInv /\ [ExperimentNext]_vars => ExperimentInv'
<1> SUFFICES ASSUME ExperimentInv, [ExperimentNext]_vars PROVE ExperimentInv'
  OBVIOUS
<1>1. CASE AnnealStep
  <2>1. Next /\ optimal # NoCost /\ UNCHANGED <<pools, penalty, optimal, row>>
    BY <1>1 DEF AnnealStep
  <2>2. FastInv'
    BY <2>1, StepFast DEF ExperimentInv
  <2>3. model' = model /\ ~done
    BY <2>1 DEF Next, Accept, Reject, Return, Proposing
  <2>4. BuiltInv'
    BY <2>1, <2>3 DEF ExperimentInv, BuiltInv
  <2>5. row' = NoRow /\ optimal' # NoCost
    BY <2>1, <2>3 DEF ExperimentInv, RowInv
  <2>6. RowInv'
    BY <2>5 DEF RowInv
  <2> QED  BY <2>2, <2>4, <2>6 DEF ExperimentInv
<1>2. CASE PrintRow
  <2>1. UNCHANGED fast /\ UNCHANGED <<pools, penalty, optimal>> /\ done
        /\ row' = [told |-> TRUE, gs |-> DecodedIsOptimal(GroundState(model)),
                   hit |-> DecodedIsOptimal(best)]
    BY <1>2 DEF PrintRow
  <2>2. FastInv'
    BY <2>1, StepFast DEF ExperimentInv
  <2>3. done' = done /\ model' = model /\ best' = best
    BY <2>1 DEF fast
  <2>4. BuiltInv'
    BY <2>1, <2>3 DEF ExperimentInv, BuiltInv
  <2>5. DecodedIsOptimal(best)' = DecodedIsOptimal(best)
        /\ DecodedIsOptimal(GroundState(model))' = DecodedIsOptimal(GroundState(model))
    BY <2>1, <2>3 DEF DecodedIsOptimal
  <2>6. RowInv'
    BY <2>1, <2>3, <2>5 DEF ExperimentInv, RowInv
  <2> QED  BY <2>2, <2>4, <2>6 DEF ExperimentInv
<1>3. CASE UNCHANGED vars
  <2>1. UNCHANGED fast /\ UNCHANGED <<pools, penalty, optimal, row>>
    BY <1>3 DEF vars
  <2>2. FastInv'
    BY <2>1, StepFast DEF ExperimentInv
  <2>3. done' = done /\ model' = model /\ best' = best
    BY <2>1 DEF fast
  <2>4. BuiltInv'
    BY <2>1, <2>3 DEF ExperimentInv, BuiltInv
  <2>5. DecodedIsOptimal(best)' = DecodedIsOptimal(best)
        /\ DecodedIsOptimal(GroundState(model))' = DecodedIsOptimal(GroundState(model))
    BY <2>1, <2>3 DEF DecodedIsOptimal
  <2>6. RowInv'
    BY <2>1, <2>3, <2>5 DEF ExperimentInv, RowInv
  <2> QED  BY <2>2, <2>4, <2>6 DEF ExperimentInv
<1> QED  BY <1>1, <1>2, <1>3 DEF ExperimentNext

LEMMA ExperimentInvariant == ExperimentSpec => []ExperimentInv
BY BeginExperiment, StepExperiment, PTL DEF ExperimentSpec

(* The annealer's spins, as bits.                                           *)
LEMMA SpinsAreBits ==
    ASSUME BuiltInv, NEW s, s \in [Vars(model) -> {-1, 1}]
    PROVE  FromSpins(model, s) = BitsOf(pools, s)
<1>1. Vars(model) = DOMAIN VarOwner(pools) /\ model.spin = FALSE
  BY BuiltIsSelection DEF BuiltInv
<1>2. \A v \in Vars(model) : (s[v] + 1) \div 2 = IF s[v] = 1 THEN 1 ELSE 0
  <2> SUFFICES ASSUME NEW v \in Vars(model)
               PROVE  (s[v] + 1) \div 2 = IF s[v] = 1 THEN 1 ELSE 0
    OBVIOUS
  <2>1. CASE s[v] = 1
    BY <2>1
  <2>2. CASE s[v] = -1
    BY <2>2
  <2> QED  BY <2>1, <2>2
<1> QED  BY <1>1, <1>2 DEF FromSpins, BitsOf

(* The energies of all states, next to the cost of a conflict-free one.     *)
LEMMA StatesCompare ==
    ASSUME BuiltInv, penalty >= DefaultPenalty(pools), NEW f \in Selections(pools), NEW state
    PROVE  ~IsFree(pools, state) => Energy(model, BitsOf(pools, state)) > 4 * TotalCost(pools, f)
<1> SUFFICES ASSUME ~IsFree(pools, state)
             PROVE  Energy(model, BitsOf(pools, state)) > 4 * TotalCost(pools, f)
  OBVIOUS
<1> DEFINE e == Energy(model, BitsOf(pools, state))
<1>1. e \in Nat /\ e >= 4 * penalty /\ penalty \in Int
  BY EnergyOfState DEF BuiltInv
<1>2. /\ TotalCost(pools, f) \in Nat /\ TotalCost(pools, f) < DefaultPenalty(pools)
      /\ DefaultPenalty(pools) \in Int
  BY DefaultIsEnough DEF BuiltInv
<1> HIDE DEF e
<1>3. e > 4 * TotalCost(pools, f)
  BY <1>1, <1>2
<1> QED  BY <1>3 DEF e

(* No saving pays for a violation, whatever the menus, and whichever state  *)
(* the annealer passes through (conflict_qubo.hpp:32-39).                   *)
THEOREM NoSavingPays == ExperimentSpec => []PenaltiesOutweighSavings
<1>1. ExperimentInv => PenaltiesOutweighSavings
  <2> SUFFICES ASSUME ExperimentInv, penalty >= DefaultPenalty(pools)
               PROVE  IF Valid(spin) THEN energy = Unit * TotalCost(pools, Chosen(pools, spin))
                      ELSE \A f \in FreeSelections(pools) : energy > Unit * TotalCost(pools, f)
    BY DEF PenaltiesOutweighSavings
  <2>1. BuiltInv /\ FastInv
    BY DEF ExperimentInv
  <2>2. energy = Energy(model, BitsOf(pools, spin))
    BY <2>1, SpinsAreBits, EnergiesHold DEF EnergiesAreTrue, FastInv, Spins
  <2>3. Valid(spin) <=> IsFree(pools, spin)
    BY DEF Valid, IsFree
  <2>4. ASSUME IsFree(pools, spin) PROVE energy = Unit * TotalCost(pools, Chosen(pools, spin))
    BY <2>1, <2>2, <2>4, EnergyOfState DEF BuiltInv, Unit
  <2>5. ASSUME ~IsFree(pools, spin), NEW f \in FreeSelections(pools)
        PROVE  energy > Unit * TotalCost(pools, f)
    <3>1. f \in Selections(pools)
      BY DEF FreeSelections
    <3> QED  BY <2>1, <2>2, <2>5, <3>1, StatesCompare DEF Unit
  <2> QED  BY <2>3, <2>4, <2>5
<1> QED  BY <1>1, ExperimentInvariant, PTL

(* A state decodes to a best conflict-free selection exactly when it has    *)
(* the least energy there is, and there is such a state.                    *)
LEMMA OptimumIsGround ==
    ASSUME BuiltInv, penalty >= DefaultPenalty(pools), optimal # NoCost
    PROVE  /\ optimal \in Nat
           /\ \A state : /\ Energy(model, BitsOf(pools, state)) \in Nat
                         /\ Energy(model, BitsOf(pools, state)) >= 4 * optimal
                         /\ DecodedIsOptimal(state) <=>
                              Energy(model, BitsOf(pools, state)) = 4 * optimal
           /\ \E s \in States(model) : Energy(model, s) = 4 * optimal
<1> DEFINE Ways == FreeSelections(pools)
           D == {TotalCost(pools, f) : f \in Ways}
<1>0. IsMenus(pools)
  BY DEF BuiltInv
<1>1. Ways # {} /\ optimal = Min(D)
  BY DEF BuiltInv, BestConflictFreeCost
<1>2. \A f \in Ways : f \in Selections(pools) /\ TotalCost(pools, f) \in Nat
  BY <1>0, TotalIsSum DEF FreeSelections
<1>3. D \subseteq Nat /\ D # {}
  BY <1>1, <1>2
<1> HIDE DEF D
<1>4. optimal \in D /\ \A x \in D : optimal <= x
  BY <1>1, <1>3, LeastNatural
<1>5. PICK f \in Ways : TotalCost(pools, f) = optimal
  BY <1>4 DEF D
<1>6. optimal \in Nat /\ f \in Selections(pools)
  BY <1>2, <1>5
<1>7. ASSUME NEW state
      PROVE  /\ Energy(model, BitsOf(pools, state)) \in Nat
             /\ Energy(model, BitsOf(pools, state)) >= 4 * optimal
             /\ DecodedIsOptimal(state) <=> Energy(model, BitsOf(pools, state)) = 4 * optimal
  <2> DEFINE e == Energy(model, BitsOf(pools, state))
             c == TotalCost(pools, Chosen(pools, state))
  <2>1. e \in Nat /\ (IsFree(pools, state) => e = 4 * c)
    BY EnergyOfState DEF BuiltInv
  <2>2. DecodedIsOptimal(state) <=> IsFree(pools, state) /\ c = optimal
    BY DEF DecodedIsOptimal, IsFree
  <2>3. IsFree(pools, state) => c \in Nat /\ optimal <= c
    <3> SUFFICES ASSUME IsFree(pools, state) PROVE c \in Nat /\ optimal <= c
      OBVIOUS
    <3>1. Chosen(pools, state) \in Ways
      BY <1>0, OneHotPicks DEF IsFree, FreeSelections
    <3>2. c \in D
      BY <3>1 DEF D
    <3> QED  BY <1>3, <1>4, <3>2
  <2>4. ~IsFree(pools, state) => e > 4 * optimal
    BY <1>5, <1>6, StatesCompare
  <2> HIDE DEF e, c
  <2>5. CASE IsFree(pools, state)
    <3>1. e = 4 * c /\ c \in Nat /\ optimal <= c
      BY <2>1, <2>3, <2>5
    <3>2. e >= 4 * optimal /\ (c = optimal <=> e = 4 * optimal)
      BY <1>6, <3>1
    <3> QED  BY <2>1, <2>2, <2>5, <3>2 DEF e
  <2>6. CASE ~IsFree(pools, state)
    <3>1. e >= 4 * optimal /\ e # 4 * optimal
      BY <1>6, <2>1, <2>4, <2>6
    <3> QED  BY <2>1, <2>2, <2>6, <3>1 DEF e
  <2> QED  BY <2>5, <2>6
<1>8. \E s \in States(model) : Energy(model, s) = 4 * optimal
  <2> DEFINE owner == VarOwner(pools)
             s == [v \in DOMAIN owner |-> IF owner[v][2] = f[owner[v][1]] THEN 1 ELSE 0]
  <2>1. BitsOf(pools, s) = s
    BY DEF BitsOf
  <2>2. IsPick(pools, s, f)
    BY DEF IsPick
  <2>3. s \in States(model)
    <3>1. Vars(model) = DOMAIN owner /\ model.spin = FALSE
      BY BuiltIsSelection DEF BuiltInv
    <3> QED  BY <3>1 DEF States, Values
  <2> HIDE DEF s
  <2>4. OneHot(pools, s) /\ Chosen(pools, s) = f
    BY <1>0, <1>6, <2>1, <2>2, PicksAreOneHot
  <2>5. ~Collides(pools, f)
    BY DEF FreeSelections
  <2>6. DecodedIsOptimal(s)
    BY <1>5, <2>4, <2>5 DEF DecodedIsOptimal
  <2>7. Energy(model, BitsOf(pools, s)) = 4 * optimal
    BY <1>7, <2>6
  <2> QED  BY <2>1, <2>3, <2>7
<1> QED  BY <1>6, <1>7, <1>8

(* With the solvers' penalties the exact ground state is a best selection,  *)
(* and the annealer's answer is one exactly when its energy is the least    *)
(* (mapf_penalty_experiment.cpp:13-18, 64-77, 128-137).                     *)
THEOREM GroundIsBest == ExperimentSpec => []GroundStateIsBestSelection
<1>1. ExperimentInv => GroundStateIsBestSelection
  <2> SUFFICES ASSUME ExperimentInv, row.told, penalty >= DefaultPenalty(pools)
               PROVE  row.gs /\ (row.hit <=> bestEnergy = Energy(model, GroundState(model)))
    BY DEF GroundStateIsBestSelection
  <2> DEFINE g == GroundState(model)
  <2>1. BuiltInv /\ FastInv /\ RowInv
    BY DEF ExperimentInv
  <2>2. done /\ row = [told |-> TRUE, gs |-> DecodedIsOptimal(g), hit |-> DecodedIsOptimal(best)]
    BY <2>1 DEF RowInv, NoRow
  <2>3. optimal # NoCost
    BY <2>1, <2>2 DEF RowInv
  <2>4. /\ optimal \in Nat
        /\ \A state : /\ Energy(model, BitsOf(pools, state)) \in Nat
                      /\ Energy(model, BitsOf(pools, state)) >= 4 * optimal
                      /\ DecodedIsOptimal(state) <=>
                           Energy(model, BitsOf(pools, state)) = 4 * optimal
        /\ \E s \in States(model) : Energy(model, s) = 4 * optimal
    BY <2>1, <2>3, OptimumIsGround
  <2>5. \E n \in Nat : States(model) = [1 .. n -> {0, 1}]
    <3>1. /\ Vars(model) = DOMAIN VarOwner(pools) /\ model.spin = FALSE
          /\ Len(VarOwner(pools)) \in Nat /\ DOMAIN VarOwner(pools) = 1 .. Len(VarOwner(pools))
      <4>1. IsMenus(pools)
        BY <2>1 DEF BuiltInv
      <4>2. Vars(model) = DOMAIN VarOwner(pools) /\ model.spin = FALSE
        BY <2>1, BuiltIsSelection DEF BuiltInv
      <4>3. Len(VarOwner(pools)) \in Nat /\ DOMAIN VarOwner(pools) = 1 .. Len(VarOwner(pools))
        BY <4>1, OwnerFacts
      <4> QED  BY <4>2, <4>3
    <3> QED  BY <3>1 DEF States, Values
  <2>6. ASSUME NEW s \in States(model) PROVE BitsOf(pools, s) = s
    <3>1. Vars(model) = DOMAIN VarOwner(pools) /\ model.spin = FALSE
      BY <2>1, BuiltIsSelection DEF BuiltInv
    <3>2. s \in [DOMAIN VarOwner(pools) -> {0, 1}]
      BY <3>1 DEF States, Values
    <3> QED  BY <3>2 DEF BitsOf
  <2>7. g \in States(model) /\ \A s \in States(model) : Energy(model, g) <= Energy(model, s)
    <3>1. \A s \in States(model) : Energy(model, s) \in Nat
      BY <2>4, <2>6
    <3> QED  BY <2>5, <3>1, GroundExists
  <2> HIDE DEF g
  <2>8. Energy(model, g) = 4 * optimal
    <3>1. Energy(model, g) <= 4 * optimal
      BY <2>4, <2>7
    <3>2. Energy(model, g) \in Nat /\ Energy(model, g) >= 4 * optimal
      BY <2>4, <2>6, <2>7
    <3> QED  BY <2>4, <3>1, <3>2
  <2>9. DecodedIsOptimal(g)
    BY <2>4, <2>6, <2>7, <2>8
  <2>10. bestEnergy = Energy(model, BitsOf(pools, best))
    BY <2>1, SpinsAreBits, EnergiesHold DEF EnergiesAreTrue, FastInv, Spins
  <2>11. DecodedIsOptimal(best) <=> bestEnergy = Energy(model, g)
    BY <2>4, <2>8, <2>10
  <2>12. row.gs = DecodedIsOptimal(g) /\ row.hit = DecodedIsOptimal(best)
    BY <2>2
  <2> QED  BY <2>9, <2>11, <2>12 DEF g
<1> QED  BY <1>1, ExperimentInvariant, PTL
=============================================================================
