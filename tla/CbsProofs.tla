----------------------------- MODULE CbsProofs ------------------------------
(***************************************************************************)
(* Theorems about conflict-based search, for every map, fleet, budget and  *)
(* choice among equally short paths: the paths of a node obey its          *)
(* constraints, a success has no collision, and none is cheaper.           *)
(***************************************************************************)
EXTENDS CbsProps, BqmTheorems, SequenceTheorems

(* The path p makes only moves the constraints allow, the waits on its last *)
(* cell, for ever after its end, included.                                  *)
Obeys(p, cons) == \A t \in Nat : MayMove(PathAt(p, t), PathAt(p, t + 1), t, cons)

IsWay(p, start, goal, cons) ==
    /\ p \in Seq(Free) /\ p # <<>>
    /\ p[1] = start /\ p[Len(p)] = goal
    /\ Obeys(p, cons)

(* The constraints the search makes.                                        *)
IsConstraint(c) ==
    /\ c.t \in Nat
    /\ c = VertexConstraint(c.from, c.t) \/ c = EdgeConstraint(c.from, c.to, c.t)

IsConstraints(cons) == IsFiniteSet(cons) /\ \A c \in cons : IsConstraint(c)

Touches(c) == IF c.kind = "edge" THEN c.t + 1 ELSE c.t

-----------------------------------------------------------------------------
(* Cells, times and constraints.                                            *)
LEMMA CellCount ==
    /\ IsFiniteSet(Free) /\ Cardinality(Free) <= Width * Height
    /\ Cardinality(Free) \in Nat /\ Width * Height \in Nat
<1>1. Width \in Nat \ {0} /\ Height \in Nat \ {0}
  BY GridAssumption
<1> DEFINE A == 0 .. Width - 1
           B == 0 .. Height - 1
<1>2. /\ IsFiniteSet(A) /\ Cardinality(A) = Width
      /\ IsFiniteSet(B) /\ Cardinality(B) = Height
  BY <1>1, FS_Interval
<1> HIDE DEF A, B
<1>3. IsFiniteSet(A \X B) /\ Cardinality(A \X B) = Width * Height
  <2>1. IsFiniteSet(A \X B) /\ Cardinality(A \X B) = Cardinality(A) * Cardinality(B)
    BY <1>2, FS_Product
  <2> QED  BY <1>2, <2>1
<1>4. Free \subseteq A \X B
  BY DEF Free, Cells, A, B
<1>5. IsFiniteSet(Free) /\ Cardinality(Free) <= Cardinality(A \X B)
  BY <1>3, <1>4, FS_Subset
<1>6. Width * Height \in Nat
  BY <1>1
<1>7. Cardinality(Free) \in Nat
  BY <1>5, FS_CardinalityType
<1> QED  BY <1>3, <1>5, <1>6, <1>7

LEMMA WaitingIsLegal ==
    ASSUME NEW c \in Free
    PROVE  c \in MovesFrom(c)
<1>1. Distance(c[1], c[1]) = 0 /\ Distance(c[2], c[2]) = 0
  BY GridAssumption DEF Distance, Free, Cells
<1> QED  BY <1>1 DEF MovesFrom, Manhattan

LEMMA PathAtFacts ==
    ASSUME NEW S, NEW p \in Seq(S), p # <<>>, NEW t \in Nat
    PROVE  /\ PathAt(p, t) \in S
           /\ t + 1 >= Len(p) => PathAt(p, t) = p[Len(p)]
           /\ t < Len(p) => PathAt(p, t) = p[t + 1]
<1>1. Len(p) \in Nat /\ Len(p) > 0
  OBVIOUS
<1>2. CASE t < Len(p)
  <2>1. PathAt(p, t) = p[t + 1] /\ t + 1 \in 1 .. Len(p)
    BY <1>1, <1>2 DEF PathAt
  <2>2. t + 1 >= Len(p) => t + 1 = Len(p)
    BY <1>1, <1>2
  <2> QED  BY <1>2, <2>1, <2>2
<1>3. CASE ~(t < Len(p))
  BY <1>1, <1>3 DEF PathAt
<1> QED  BY <1>2, <1>3

LEMMA LatestTouches ==
    ASSUME NEW cons, IsConstraints(cons)
    PROVE  /\ Latest(cons) \in Nat
           /\ \A c \in cons : Touches(c) <= Latest(cons)
           /\ Latest(cons) = 0 \/ \E c \in cons : Latest(cons) = Touches(c)
<1> DEFINE f == [c \in cons |-> Touches(c)]
           S == {Touches(c) : c \in cons}
           D == {0} \cup S
<1>1. \A c \in cons : Touches(c) \in Nat
  BY DEF IsConstraints, IsConstraint, Touches
<1>2. IsFiniteSet(S)
  <2>1. f \in Surjection(cons, S)
    BY DEF Surjection
  <2> HIDE DEF f, S
  <2> QED  BY <2>1, FS_Surjection DEF IsConstraints
<1>3. IsFiniteSet(D)
  <2> HIDE DEF S
  <2>1. IsFiniteSet(S \cup {0}) /\ S \cup {0} = D
    BY <1>2, FS_AddElement
  <2> QED  BY <2>1
<1>4. D \subseteq Nat /\ 0 \in D
  BY <1>1
<1>5. Max(D) \in D /\ \A x \in D : x <= Max(D)
  <2> HIDE DEF D
  <2>1. D \subseteq Int /\ D # {}
    BY <1>4
  <2> QED  BY <1>3, <2>1, LargestExists
<1>6. Latest(cons) = Max(D)
  BY DEF Latest, Touches
<1>7. Max(D) \in Nat /\ \A c \in cons : Touches(c) <= Max(D)
  BY <1>4, <1>5
<1>8. Max(D) = 0 \/ \E c \in cons : Max(D) = Touches(c)
  BY <1>5
<1> HIDE DEF D
<1> QED  BY <1>6, <1>7, <1>8

(* After the last constraint every legal move is allowed.                   *)
LEMMA FreeAfterLatest ==
    ASSUME NEW cons, IsConstraints(cons), NEW t \in Nat, t >= Latest(cons),
           NEW c, NEW d \in MovesFrom(c)
    PROVE  MayMove(c, d, t, cons)
<1>1. Latest(cons) \in Nat /\ \A k \in cons : Touches(k) <= Latest(cons)
  BY LatestTouches
<1>2. VertexConstraint(d, t + 1) \notin cons
  <2>1. Touches(VertexConstraint(d, t + 1)) = t + 1
    BY DEF Touches, VertexConstraint
  <2> QED  BY <1>1, <2>1
<1>3. EdgeConstraint(c, d, t) \notin cons
  <2>1. Touches(EdgeConstraint(c, d, t)) = t + 1
    BY DEF Touches, EdgeConstraint
  <2> QED  BY <1>1, <2>1
<1> QED  BY <1>2, <1>3 DEF MayMove

-----------------------------------------------------------------------------
(* The low level: the layers a search forward fills, and the ways through   *)
(* them, are recursive tables.                                              *)
Onward(S, t, cons) == UNION {{d \in MovesFrom(c) : MayMove(c, d, t, cons)} : c \in S}

IsLayers(g, start, cons, n) ==
    g = [t \in 0 .. n |-> IF t = 0 THEN {start} ELSE Onward(g[t - 1], t - 1, cons)]

LEMMA LayersUnfold ==
    ASSUME NEW start, NEW cons
    PROVE  Layers(start, cons) = CHOOSE g : IsLayers(g, start, cons, TimeBound(cons))
BY DEF Layers, IsLayers, Onward

LEMMA LayersExist ==
    ASSUME NEW start, NEW cons, NEW h \in Nat
    PROVE  \E g : IsLayers(g, start, cons, h)
<1> DEFINE T == {n \in Nat : \E g : IsLayers(g, start, cons, n)}
<1>1. 0 \in T
  <2> DEFINE g == [k \in 0 .. 0 |-> {start}]
  <2>1. IsLayers(g, start, cons, 0)
    BY DEF IsLayers
  <2> QED  BY <2>1
<1>2. ASSUME NEW n \in Nat, n \in T PROVE n + 1 \in T
  <2>1. PICK g : IsLayers(g, start, cons, n)
    BY <1>2
  <2> DEFINE f == [k \in 0 .. n + 1 |-> IF k <= n THEN g[k] ELSE Onward(g[n], n, cons)]
  <2>2. ASSUME NEW k \in 0 .. n + 1
        PROVE  f[k] = IF k = 0 THEN {start} ELSE Onward(f[k - 1], k - 1, cons)
    <3>1. CASE k <= n
      <4>1. k \in 0 .. n /\ (k # 0 => k - 1 \in 0 .. n /\ f[k - 1] = g[k - 1]) /\ f[k] = g[k]
        BY <3>1
      <4>2. g[k] = IF k = 0 THEN {start} ELSE Onward(g[k - 1], k - 1, cons)
        BY <2>1, <4>1 DEF IsLayers
      <4> QED  BY <4>1, <4>2
    <3>2. CASE k = n + 1
      BY <3>2
    <3> QED  BY <3>1, <3>2
  <2>3. IsLayers(f, start, cons, n + 1)
    <3>1. f = [k \in 0 .. n + 1 |-> IF k = 0 THEN {start} ELSE Onward(f[k - 1], k - 1, cons)]
      BY <2>2
    <3> HIDE DEF f
    <3> QED  BY <3>1 DEF IsLayers
  <2> QED  BY <2>3
<1>3. Nat \subseteq T
  <2> HIDE DEF T
  <2> QED  BY <1>1, <1>2, NaturalInduction
<1> QED  BY <1>3

LEMMA LayersAre ==
    ASSUME NEW start, NEW cons, IsConstraints(cons)
    PROVE  /\ TimeBound(cons) \in Nat /\ TimeBound(cons) >= Latest(cons)
           /\ DOMAIN Layers(start, cons) = 0 .. TimeBound(cons)
           /\ Layers(start, cons)[0] = {start}
           /\ \A t \in Nat : t < TimeBound(cons) =>
                Layers(start, cons)[t + 1] = Onward(Layers(start, cons)[t], t, cons)
<1> DEFINE h == TimeBound(cons)
           g == Layers(start, cons)
<1>1. h \in Nat /\ h >= Latest(cons)
  <2>1. Latest(cons) \in Nat /\ Width * Height \in Nat
    BY LatestTouches, CellCount
  <2> QED  BY <2>1 DEF TimeBound
<1>2. IsLayers(g, start, cons, h)
  <2> HIDE DEF h
  <2>1. \E f : IsLayers(f, start, cons, h)
    BY <1>1, LayersExist
  <2> QED  BY <2>1, LayersUnfold DEF h
<1> HIDE DEF g, h
<1>3. g = [t \in 0 .. h |-> IF t = 0 THEN {start} ELSE Onward(g[t - 1], t - 1, cons)]
  BY <1>2 DEF IsLayers
<1>4. DOMAIN g = 0 .. h
  BY <1>3
<1>5. g[0] = {start}
  BY <1>1, <1>3
<1>6. ASSUME NEW t \in Nat, t < h PROVE g[t + 1] = Onward(g[t], t, cons)
  <2>1. t + 1 \in 0 .. h /\ t + 1 # 0 /\ (t + 1) - 1 = t
    BY <1>1, <1>6
  <2> QED  BY <1>3, <2>1
<1> QED  BY <1>1, <1>4, <1>5, <1>6 DEF g, h

LEMMA LayersAreFree ==
    ASSUME NEW start \in Free, NEW cons, IsConstraints(cons)
    PROVE  \A t \in 0 .. TimeBound(cons) : Layers(start, cons)[t] \subseteq Free
<1> DEFINE g == Layers(start, cons)
           h == TimeBound(cons)
           T == {t \in Nat : t <= h => g[t] \subseteq Free}
<1>1. /\ h \in Nat /\ g[0] = {start}
      /\ \A t \in Nat : t < h => g[t + 1] = Onward(g[t], t, cons)
  BY LayersAre
<1> HIDE DEF g, h
<1>2. 0 \in T
  BY <1>1
<1>3. ASSUME NEW t \in Nat, t \in T PROVE t + 1 \in T
  <2> SUFFICES ASSUME t + 1 <= h PROVE g[t + 1] \subseteq Free
    OBVIOUS
  <2>1. g[t + 1] = Onward(g[t], t, cons)
    BY <1>1
  <2> QED  BY <2>1 DEF Onward, MovesFrom
<1>4. Nat \subseteq T
  <2> HIDE DEF T
  <2> QED  BY <1>2, <1>3, NaturalInduction
<1> QED  BY <1>1, <1>4 DEF g, h

Prefixed(S, t, cons, layers) ==
    {<<x[1]>> \o x[2] : x \in {y \in layers[t] \X S : MayMove(y[1], y[2][1], t, cons)}}

IsWays(w, layers, goal, cons, h, n) ==
    w = [k \in 0 .. n |-> IF k = 0 THEN {<<goal>>} ELSE Prefixed(w[k - 1], h - k, cons, layers)]

LEMMA WaysUnfold ==
    ASSUME NEW layers, NEW goal, NEW cons, NEW h
    PROVE  Ways(layers, goal, cons, h) = (CHOOSE w : IsWays(w, layers, goal, cons, h, h))[h]
BY DEF Ways, IsWays, Prefixed

LEMMA WaysExist ==
    ASSUME NEW layers, NEW goal, NEW cons, NEW h \in Nat
    PROVE  \E w : IsWays(w, layers, goal, cons, h, h)
<1> DEFINE T == {n \in Nat : \E w : IsWays(w, layers, goal, cons, h, n)}
<1>1. 0 \in T
  <2> DEFINE w == [k \in 0 .. 0 |-> {<<goal>>}]
  <2>1. IsWays(w, layers, goal, cons, h, 0)
    BY DEF IsWays
  <2> QED  BY <2>1
<1>2. ASSUME NEW n \in Nat, n \in T PROVE n + 1 \in T
  <2>1. PICK w : IsWays(w, layers, goal, cons, h, n)
    BY <1>2
  <2> DEFINE f == [k \in 0 .. n + 1 |->
                     IF k <= n THEN w[k] ELSE Prefixed(w[n], h - (n + 1), cons, layers)]
  <2>2. ASSUME NEW k \in 0 .. n + 1
        PROVE  f[k] = IF k = 0 THEN {<<goal>>} ELSE Prefixed(f[k - 1], h - k, cons, layers)
    <3>1. CASE k <= n
      <4>1. k \in 0 .. n /\ (k # 0 => k - 1 \in 0 .. n /\ f[k - 1] = w[k - 1]) /\ f[k] = w[k]
        BY <3>1
      <4>2. w[k] = IF k = 0 THEN {<<goal>>} ELSE Prefixed(w[k - 1], h - k, cons, layers)
        BY <2>1, <4>1 DEF IsWays
      <4> QED  BY <4>1, <4>2
    <3>2. CASE k = n + 1
      BY <3>2
    <3> QED  BY <3>1, <3>2
  <2>3. IsWays(f, layers, goal, cons, h, n + 1)
    <3>1. f = [k \in 0 .. n + 1 |->
                 IF k = 0 THEN {<<goal>>} ELSE Prefixed(f[k - 1], h - k, cons, layers)]
      BY <2>2
    <3> HIDE DEF f
    <3> QED  BY <3>1 DEF IsWays
  <2> QED  BY <2>3
<1>3. Nat \subseteq T
  <2> HIDE DEF T
  <2> QED  BY <1>1, <1>2, NaturalInduction
<1> QED  BY <1>3

(* The ways, one step of the table after the other.                         *)
LEMMA WaysAre ==
    ASSUME NEW layers, NEW goal, NEW cons, NEW h \in Nat
    PROVE  \E w : /\ w[0] = {<<goal>>}
                  /\ \A k \in Nat : k < h => w[k + 1] = Prefixed(w[k], h - (k + 1), cons, layers)
                  /\ Ways(layers, goal, cons, h) = w[h]
<1> DEFINE w == CHOOSE v : IsWays(v, layers, goal, cons, h, h)
<1>1. IsWays(w, layers, goal, cons, h, h)
  BY WaysExist
<1>2. Ways(layers, goal, cons, h) = w[h]
  BY WaysUnfold
<1> HIDE DEF w
<1>3. w = [k \in 0 .. h |-> IF k = 0 THEN {<<goal>>} ELSE Prefixed(w[k - 1], h - k, cons, layers)]
  BY <1>1 DEF IsWays
<1>4. w[0] = {<<goal>>}
  BY <1>3
<1>5. ASSUME NEW k \in Nat, k < h
      PROVE  w[k + 1] = Prefixed(w[k], h - (k + 1), cons, layers)
  <2>1. k + 1 \in 0 .. h /\ k + 1 # 0 /\ (k + 1) - 1 = k
    BY <1>5
  <2> QED  BY <1>3, <2>1
<1> QED  BY <1>2, <1>4, <1>5

-----------------------------------------------------------------------------
(* What the low level finds is a shortest way, and it finds one if there is *)
(* one.                                                                     *)

(* The part of a way from time h - k on.                                    *)
IsTail(q, k, layers, goal, cons, h) ==
    /\ q \in Seq(Free) /\ Len(q) = k + 1
    /\ q[1] \in layers[h - k] /\ q[k + 1] = goal
    /\ \A j \in 1 .. k : MayMove(q[j], q[j + 1], h - k + j - 1, cons)

LEMMA TailExtended ==
    ASSUME NEW layers, NEW goal, NEW cons, NEW h \in Nat, NEW k \in Nat, k < h,
           NEW q, IsTail(q, k, layers, goal, cons, h),
           NEW c \in Free, c \in layers[h - (k + 1)], MayMove(c, q[1], h - (k + 1), cons)
    PROVE  IsTail(<<c>> \o q, k + 1, layers, goal, cons, h)
<1> DEFINE r == <<c>> \o q
<1>1. q \in Seq(Free) /\ Len(q) = k + 1
  BY DEF IsTail
<1>2. r \in Seq(Free) /\ Len(r) = k + 2 /\ r[1] = c /\ \A j \in 1 .. k + 1 : r[j + 1] = q[j]
  <2>1. <<c>> \in Seq(Free) /\ Len(<<c>>) = 1 /\ <<c>>[1] = c
    OBVIOUS
  <2> QED  BY <1>1, <2>1
<1> HIDE DEF r
<1>3. r[k + 2] = goal
  <2>1. k + 1 \in 1 .. k + 1 /\ (k + 1) + 1 = k + 2
    OBVIOUS
  <2> QED  BY <1>2, <2>1 DEF IsTail
<1>4. ASSUME NEW j \in 1 .. k + 1
      PROVE  MayMove(r[j], r[j + 1], h - (k + 1) + j - 1, cons)
  <2>1. CASE j = 1
    <3>1. r[j] = c /\ r[j + 1] = q[1] /\ h - (k + 1) + j - 1 = h - (k + 1)
      BY <1>2, <2>1
    <3> QED  BY <3>1
  <2>2. CASE j # 1
    <3>1. j - 1 \in 1 .. k /\ j - 1 \in 1 .. k + 1 /\ (j - 1) + 1 = j
      BY <2>2
    <3>2. r[j] = q[j - 1] /\ r[j + 1] = q[j]
      BY <1>2, <3>1
    <3>3. MayMove(q[j - 1], q[(j - 1) + 1], h - k + (j - 1) - 1, cons)
      BY <3>1 DEF IsTail
    <3>4. h - k + (j - 1) - 1 = h - (k + 1) + j - 1
      OBVIOUS
    <3> QED  BY <3>1, <3>2, <3>3, <3>4
  <2> QED  BY <2>1, <2>2
<1> QED  BY <1>2, <1>3, <1>4 DEF IsTail, r

LEMMA WaysAreTails ==
    ASSUME NEW layers, NEW goal \in Free, NEW cons, NEW h \in Nat, goal \in layers[h],
           \A t \in 0 .. h : layers[t] \subseteq Free, NEW w, w[0] = {<<goal>>},
           \A k \in Nat : k < h => w[k + 1] = Prefixed(w[k], h - (k + 1), cons, layers)
    PROVE  \A k \in 0 .. h : \A q \in w[k] : IsTail(q, k, layers, goal, cons, h)
<1> DEFINE T == {k \in Nat : k <= h => \A q \in w[k] : IsTail(q, k, layers, goal, cons, h)}
<1>1. 0 \in T
  <2>1. <<goal>> \in Seq(Free) /\ Len(<<goal>>) = 0 + 1 /\ <<goal>>[1] = goal /\ h - 0 = h
    OBVIOUS
  <2>2. IsTail(<<goal>>, 0, layers, goal, cons, h)
    BY <2>1 DEF IsTail
  <2> QED  BY <2>2
<1>2. ASSUME NEW k \in Nat, k \in T PROVE k + 1 \in T
  <2> SUFFICES ASSUME k + 1 <= h, NEW r \in w[k + 1]
               PROVE  IsTail(r, k + 1, layers, goal, cons, h)
    OBVIOUS
  <2>1. k < h /\ r \in Prefixed(w[k], h - (k + 1), cons, layers)
    OBVIOUS
  <2>2. PICK x \in layers[h - (k + 1)] \X w[k] :
            r = <<x[1]>> \o x[2] /\ MayMove(x[1], x[2][1], h - (k + 1), cons)
    BY <2>1 DEF Prefixed
  <2>3. IsTail(x[2], k, layers, goal, cons, h)
    BY <1>2, <2>1
  <2>4. h - (k + 1) \in 0 .. h
    BY <2>1
  <2>5. x[1] \in Free /\ x[1] \in layers[h - (k + 1)]
    BY <2>2, <2>4
  <2> HIDE DEF T
  <2> QED  BY <2>1, <2>2, <2>3, <2>5, TailExtended
<1>3. Nat \subseteq T
  <2> HIDE DEF T
  <2> QED  BY <1>1, <1>2, NaturalInduction
<1> QED  BY <1>3

LEMMA WaysAreWays ==
    ASSUME NEW start \in Free, NEW goal \in Free, NEW cons, IsConstraints(cons),
           NEW h \in 0 .. TimeBound(cons), h >= Latest(cons), goal \in Layers(start, cons)[h]
    PROVE  /\ \A p \in Ways(Layers(start, cons), goal, cons, h) :
                IsWay(p, start, goal, cons) /\ Len(p) = h + 1
           /\ Ways(Layers(start, cons), goal, cons, h) # {}
<1> DEFINE g == Layers(start, cons)
<1>1. /\ TimeBound(cons) \in Nat /\ g[0] = {start}
      /\ \A t \in Nat : t < TimeBound(cons) => g[t + 1] = Onward(g[t], t, cons)
  BY LayersAre
<1>2. \A t \in 0 .. TimeBound(cons) : g[t] \subseteq Free
  BY LayersAreFree
<1>3. h \in Nat /\ h <= TimeBound(cons)
  BY <1>1
<1> HIDE DEF g
<1>4. PICK w : /\ w[0] = {<<goal>>}
               /\ \A k \in Nat : k < h => w[k + 1] = Prefixed(w[k], h - (k + 1), cons, g)
               /\ Ways(g, goal, cons, h) = w[h]
  <2>1. \E w : /\ w[0] = {<<goal>>}
               /\ \A k \in Nat : k < h => w[k + 1] = Prefixed(w[k], h - (k + 1), cons, g)
               /\ Ways(g, goal, cons, h) = w[h]
    BY <1>3, WaysAre
  <2> QED  BY <2>1
<1>5. \A t \in 0 .. h : g[t] \subseteq Free
  BY <1>1, <1>2, <1>3
<1>6. \A k \in 0 .. h : \A q \in w[k] : IsTail(q, k, g, goal, cons, h)
  <2>1. goal \in g[h]
    BY DEF g
  <2> QED  BY <1>3, <1>4, <1>5, <2>1, WaysAreTails
<1>7. ASSUME NEW p \in w[h] PROVE IsWay(p, start, goal, cons) /\ Len(p) = h + 1
  <2>1. IsTail(p, h, g, goal, cons, h)
    BY <1>3, <1>6
  <2>2. p \in Seq(Free) /\ Len(p) = h + 1 /\ p[1] \in g[h - h] /\ p[h + 1] = goal
    BY <2>1 DEF IsTail
  <2>3. p # <<>> /\ p[1] = start /\ p[Len(p)] = goal
    BY <1>1, <1>3, <2>2
  <2>4. ASSUME NEW t \in Nat PROVE MayMove(PathAt(p, t), PathAt(p, t + 1), t, cons)
    <3>1. CASE t < h
      <4>1. t + 1 \in 1 .. h /\ t < Len(p) /\ t + 1 < Len(p) /\ t + 1 \in Nat
        BY <1>3, <2>2, <3>1
      <4>2. PathAt(p, t) = p[t + 1] /\ PathAt(p, t + 1) = p[(t + 1) + 1]
        BY <4>1 DEF PathAt
      <4>3. MayMove(p[t + 1], p[(t + 1) + 1], h - h + (t + 1) - 1, cons)
        BY <2>1, <4>1 DEF IsTail
      <4>4. h - h + (t + 1) - 1 = t
        BY <1>3
      <4> QED  BY <4>2, <4>3, <4>4
    <3>2. CASE t >= h
      <4>1. t + 1 >= Len(p) /\ (t + 1) + 1 >= Len(p) /\ t + 1 \in Nat
        BY <1>3, <2>2, <3>2
      <4>2. PathAt(p, t) = goal /\ PathAt(p, t + 1) = goal
        BY <2>2, <2>3, <4>1, PathAtFacts
      <4>3. t >= Latest(cons)
        <5>1. Latest(cons) \in Nat
          BY LatestTouches
        <5> QED  BY <1>3, <3>2, <5>1
      <4> QED  BY <4>2, <4>3, WaitingIsLegal, FreeAfterLatest
    <3> QED  BY <1>3, <3>1, <3>2
  <2> QED  BY <2>2, <2>3, <2>4 DEF IsWay, Obeys
<1>8. w[h] # {}
  <2> DEFINE T == {k \in Nat : k <= h => w[k] # {}}
  <2>1. 0 \in T
    BY <1>4
  <2>2. ASSUME NEW k \in Nat, k \in T PROVE k + 1 \in T
    <3> SUFFICES ASSUME k + 1 <= h PROVE w[k + 1] # {}
      OBVIOUS
    <3>1. k \in 0 .. h /\ h - (k + 1) \in Nat /\ h - (k + 1) < TimeBound(cons)
          /\ (h - (k + 1)) + 1 = h - k
      BY <1>1, <1>3
    <3>2. PICK q \in w[k] : IsTail(q, k, g, goal, cons, h)
      BY <1>6, <2>2, <3>1
    <3>3. q[1] \in Onward(g[h - (k + 1)], h - (k + 1), cons)
      <4>1. g[h - k] = Onward(g[h - (k + 1)], h - (k + 1), cons)
        BY <1>1, <3>1
      <4> QED  BY <3>2, <4>1 DEF IsTail
    <3>4. PICK c \in g[h - (k + 1)] : MayMove(c, q[1], h - (k + 1), cons)
      BY <3>3 DEF Onward
    <3>5. <<c>> \o q \in Prefixed(w[k], h - (k + 1), cons, g)
      <4> DEFINE x == <<c, q>>
      <4>1. x \in g[h - (k + 1)] \X w[k] /\ x[1] = c /\ x[2] = q
        BY <3>2, <3>4
      <4>2. MayMove(x[1], x[2][1], h - (k + 1), cons)
        BY <3>4, <4>1
      <4> HIDE DEF x
      <4> QED  BY <4>1, <4>2 DEF Prefixed
    <3>6. w[k + 1] = Prefixed(w[k], h - (k + 1), cons, g)
      BY <1>3, <1>4
    <3> QED  BY <3>5, <3>6
  <2>3. Nat \subseteq T
    <3> HIDE DEF T
    <3> QED  BY <2>1, <2>2, NaturalInduction
  <2> QED  BY <1>3, <2>3
<1> QED  BY <1>4, <1>7, <1>8 DEF g

(* The low level takes the earliest arrival.                                *)
LEMMA EarliestArrival ==
    ASSUME NEW start, NEW goal, NEW cons, IsConstraints(cons)
    PROVE  LET A == Arrivals(Layers(start, cons), goal, cons)
           IN  /\ A \subseteq 0 .. TimeBound(cons)
               /\ A = {} => LowLevel(start, goal, cons) = {}
               /\ A # {} => /\ Min(A) \in A /\ \A t \in A : Min(A) <= t
                            /\ LowLevel(start, goal, cons) =
                                 Ways(Layers(start, cons), goal, cons, Min(A))
<1> DEFINE A == Arrivals(Layers(start, cons), goal, cons)
<1>1. TimeBound(cons) \in Nat /\ A \subseteq 0 .. TimeBound(cons)
  BY LayersAre DEF Arrivals
<1>2. ASSUME A = {} PROVE LowLevel(start, goal, cons) = {}
  BY <1>2 DEF LowLevel
<1>3. ASSUME A # {} PROVE Min(A) \in A /\ \A t \in A : Min(A) <= t
  <2> HIDE DEF A
  <2>1. IsFiniteSet(0 .. TimeBound(cons)) /\ A \subseteq Int
    BY <1>1, FS_Interval
  <2>2. IsFiniteSet(A)
    BY <1>1, <2>1, FS_Subset
  <2> QED  BY <1>3, <2>1, <2>2, SmallestExists
<1>4. ASSUME A # {}
      PROVE  LowLevel(start, goal, cons) = Ways(Layers(start, cons), goal, cons, Min(A))
  BY <1>4 DEF LowLevel
<1> QED  BY <1>1, <1>2, <1>3, <1>4

LEMMA FoundIsAWay ==
    ASSUME NEW start \in Free, NEW goal \in Free, NEW cons, IsConstraints(cons),
           NEW p \in LowLevel(start, goal, cons)
    PROVE  /\ IsWay(p, start, goal, cons)
           /\ Len(p) - 1 \in Arrivals(Layers(start, cons), goal, cons)
           /\ \A t \in Arrivals(Layers(start, cons), goal, cons) : Len(p) - 1 <= t
<1> DEFINE A == Arrivals(Layers(start, cons), goal, cons)
           h == Min(A)
<1>1. A # {} /\ h \in A /\ \A t \in A : h <= t
  BY EarliestArrival
<1>2. p \in Ways(Layers(start, cons), goal, cons, h)
  BY <1>1, EarliestArrival
<1>3. h \in 0 .. TimeBound(cons) /\ h >= Latest(cons) /\ goal \in Layers(start, cons)[h]
  <2>1. A \subseteq 0 .. TimeBound(cons)
    BY EarliestArrival
  <2>2. h >= Latest(cons) /\ goal \in Layers(start, cons)[h]
    BY <1>1 DEF Arrivals
  <2> HIDE DEF A, h
  <2> QED  BY <1>1, <2>1, <2>2
<1> HIDE DEF A, h
<1>4. IsWay(p, start, goal, cons) /\ Len(p) = h + 1
  BY <1>2, <1>3, WaysAreWays
<1>5. Len(p) - 1 = h
  <2>1. TimeBound(cons) \in Nat
    BY LayersAre
  <2> QED  BY <1>3, <1>4, <2>1
<1> QED  BY <1>1, <1>4, <1>5 DEF A

(* Whatever obeys the constraints stays within the layers.                  *)
LEMMA WaysStayInLayers ==
    ASSUME NEW start \in Free, NEW cons, IsConstraints(cons),
           NEW q \in Seq(Free), q # <<>>, q[1] = start, Obeys(q, cons)
    PROVE  \A t \in 0 .. TimeBound(cons) : PathAt(q, t) \in Layers(start, cons)[t]
<1> DEFINE g == Layers(start, cons)
           b == TimeBound(cons)
           T == {t \in Nat : t <= b => PathAt(q, t) \in g[t]}
<1>1. b \in Nat /\ g[0] = {start} /\ \A t \in Nat : t < b => g[t + 1] = Onward(g[t], t, cons)
  BY LayersAre
<1> HIDE DEF g, b
<1>2. 0 \in T
  <2>1. Len(q) \in Nat /\ Len(q) > 0
    OBVIOUS
  <2>2. PathAt(q, 0) = q[1]
    BY <2>1 DEF PathAt
  <2> QED  BY <1>1, <2>2
<1>3. ASSUME NEW t \in Nat, t \in T PROVE t + 1 \in T
  <2> SUFFICES ASSUME t + 1 <= b PROVE PathAt(q, t + 1) \in g[t + 1]
    OBVIOUS
  <2>1. PathAt(q, t) \in g[t] /\ g[t + 1] = Onward(g[t], t, cons)
    BY <1>1, <1>3
  <2>2. MayMove(PathAt(q, t), PathAt(q, t + 1), t, cons)
    BY DEF Obeys
  <2>3. PathAt(q, t + 1) \in MovesFrom(PathAt(q, t))
    BY <2>2 DEF MayMove
  <2> QED  BY <2>1, <2>2, <2>3 DEF Onward
<1>4. Nat \subseteq T
  <2> HIDE DEF T
  <2> QED  BY <1>2, <1>3, NaturalInduction
<1> QED  BY <1>1, <1>4 DEF g, b

(* No move leads out of S.                                                  *)
Closed(S) == \A c \in S : MovesFrom(c) \subseteq S

(* After the last constraint the layers only grow, by a cell at least until *)
(* they are closed, and there are no more cells than steps to the bound.    *)
LEMMA LastLayerIsClosed ==
    ASSUME NEW start \in Free, NEW cons, IsConstraints(cons),
           Layers(start, cons)[Latest(cons)] # {}
    PROVE  Closed(Layers(start, cons)[TimeBound(cons)])
<1> DEFINE g == Layers(start, cons)
           b == TimeBound(cons)
           l == Latest(cons)
           n == Width * Height
           T == {i \in Nat : i <= n + 1 => Closed(g[l + i]) \/ Cardinality(g[l + i]) >= i + 1}
<1>1. b \in Nat /\ \A t \in Nat : t < b => g[t + 1] = Onward(g[t], t, cons)
  BY LayersAre
<1>2. l \in Nat /\ n \in Nat /\ b = l + n + 1
  BY LatestTouches, CellCount DEF TimeBound
<1>3. \A t \in 0 .. b : g[t] \subseteq Free
  BY LayersAreFree
<1>4. IsFiniteSet(Free) /\ Cardinality(Free) <= n /\ Cardinality(Free) \in Nat
  BY CellCount
<1>5. \A t \in Nat : t >= l => \A c : \A d \in MovesFrom(c) : MayMove(c, d, t, cons)
  BY FreeAfterLatest
<1>0. g[l] # {}
  OBVIOUS
<1> HIDE DEF g, b, l, n
<1>6. ASSUME NEW t \in 0 .. b
      PROVE  IsFiniteSet(g[t]) /\ Cardinality(g[t]) \in Nat /\ Cardinality(g[t]) <= n
  <2>1. IsFiniteSet(g[t]) /\ Cardinality(g[t]) <= Cardinality(Free)
    BY <1>3, <1>4, FS_Subset
  <2>2. Cardinality(g[t]) \in Nat
    BY <2>1, FS_CardinalityType
  <2> QED  BY <1>2, <1>4, <2>1, <2>2
<1>7. 0 \in T
  <2>1. l + 0 = l /\ l \in 0 .. b
    BY <1>1, <1>2
  <2>2. IsFiniteSet(g[l]) /\ Cardinality(g[l]) \in Nat
    BY <1>6, <2>1
  <2>3. Cardinality(g[l]) # 0
    BY <1>0, <2>2, FS_EmptySet
  <2>4. Cardinality(g[l + 0]) >= 0 + 1
    BY <2>1, <2>2, <2>3
  <2> QED  BY <2>4
<1>8. ASSUME NEW i \in Nat, i \in T PROVE i + 1 \in T
  <2> SUFFICES ASSUME i + 1 <= n + 1
               PROVE  Closed(g[l + (i + 1)]) \/ Cardinality(g[l + (i + 1)]) >= (i + 1) + 1
    OBVIOUS
  <2> DEFINE t == l + i
             S == g[t]
             R == g[t + 1]
  <2>1. t \in Nat /\ t < b /\ t >= l /\ t \in 0 .. b /\ t + 1 \in 0 .. b /\ l + (i + 1) = t + 1
    BY <1>1, <1>2
  <2>2. Closed(S) \/ Cardinality(S) >= i + 1
    BY <1>2, <1>8
  <2>3. R = Onward(S, t, cons) /\ S \subseteq Free /\ R \subseteq Free
    BY <1>1, <1>3, <2>1
  <2>4. /\ IsFiniteSet(S) /\ Cardinality(S) \in Nat
        /\ IsFiniteSet(R) /\ Cardinality(R) \in Nat
    BY <1>6, <2>1
  <2>5. \A c : \A d \in MovesFrom(c) : MayMove(c, d, t, cons)
    BY <1>5, <2>1
  <2> HIDE DEF S, R, t
  <2>6. R = UNION {MovesFrom(c) : c \in S}
    BY <2>3, <2>5 DEF Onward
  <2>7. S \subseteq R
    BY <2>3, <2>6, WaitingIsLegal
  <2>8. CASE S = R
    <3>1. Closed(R)
      BY <2>6, <2>8 DEF Closed
    <3> QED  BY <2>1, <3>1 DEF R
  <2>9. CASE S # R
    <3>1. ~Closed(S)
      BY <2>6, <2>7, <2>9 DEF Closed
    <3>2. Cardinality(S) < Cardinality(R)
      <4>1. Cardinality(S) <= Cardinality(R) /\ (Cardinality(S) = Cardinality(R) => S = R)
        BY <2>4, <2>7, FS_Subset
      <4> QED  BY <2>4, <2>9, <4>1
    <3>3. Cardinality(R) >= (i + 1) + 1
      BY <2>2, <2>4, <3>1, <3>2
    <3> QED  BY <2>1, <3>3 DEF R
  <2> QED  BY <2>8, <2>9
<1>9. Nat \subseteq T
  <2> HIDE DEF T
  <2> QED  BY <1>7, <1>8, NaturalInduction
<1>10. Closed(g[b]) \/ Cardinality(g[b]) >= n + 2
  <2>1. n + 1 \in T
    BY <1>2, <1>9
  <2>2. l + (n + 1) = b /\ (n + 1) + 1 = n + 2 /\ n + 1 <= n + 1
    BY <1>2
  <2> QED  BY <2>1, <2>2
<1>11. Cardinality(g[b]) \in Nat /\ Cardinality(g[b]) <= n
  <2>1. b \in 0 .. b
    BY <1>1
  <2> QED  BY <1>6, <2>1
<1>12. Closed(g[b])
  <2> HIDE DEF T
  <2> QED  BY <1>2, <1>10, <1>11
<1> QED  BY <1>12 DEF g, b

(* A way that ends after the last constraint arrives within the bound, not  *)
(* later than it ends.                                                      *)
LEMMA WaysArrive ==
    ASSUME NEW start \in Free, NEW goal \in Free, NEW cons, IsConstraints(cons),
           NEW q, IsWay(q, start, goal, cons), Len(q) - 1 >= Latest(cons)
    PROVE  \E t \in Arrivals(Layers(start, cons), goal, cons) : t <= Len(q) - 1
<1> DEFINE g == Layers(start, cons)
           b == TimeBound(cons)
           l == Latest(cons)
           e == Len(q) - 1
<1>1. b \in Nat /\ l \in Nat /\ b >= l /\ DOMAIN g = 0 .. b
  BY LayersAre, LatestTouches
<1>2. q \in Seq(Free) /\ q # <<>> /\ q[1] = start /\ q[Len(q)] = goal /\ Obeys(q, cons)
  BY DEF IsWay
<1>3. e \in Nat /\ e + 1 = Len(q) /\ e >= l
  BY <1>2
<1>4. \A t \in 0 .. b : PathAt(q, t) \in g[t]
  BY <1>2, WaysStayInLayers
<1>5. PathAt(q, e) = goal
  BY <1>2, <1>3, PathAtFacts
<1>6. g[l] # {}
  <2>1. l \in 0 .. b
    BY <1>1
  <2> QED  BY <1>4, <2>1
<1>7. Closed(g[b])
  BY <1>6, LastLayerIsClosed
<1> HIDE DEF g, b, l, e
<1>8. CASE e <= b
  <2>1. e \in 0 .. b /\ goal \in g[e]
    BY <1>1, <1>3, <1>4, <1>5, <1>8
  <2>2. e \in Arrivals(g, goal, cons)
    BY <1>1, <1>3, <2>1 DEF Arrivals, l
  <2> QED  BY <1>3, <2>2 DEF g, e
<1>9. CASE ~(e <= b)
  <2> DEFINE T == {i \in Nat : PathAt(q, b + i) \in g[b]}
  <2>1. 0 \in T
    <3>1. b + 0 = b /\ b \in 0 .. b
      BY <1>1
    <3> QED  BY <1>4, <3>1
  <2>2. ASSUME NEW i \in Nat, i \in T PROVE i + 1 \in T
    <3>1. b + i \in Nat /\ b + (i + 1) = (b + i) + 1
      BY <1>1
    <3>2. MayMove(PathAt(q, b + i), PathAt(q, (b + i) + 1), b + i, cons)
      BY <1>2, <3>1 DEF Obeys
    <3>3. PathAt(q, (b + i) + 1) \in MovesFrom(PathAt(q, b + i))
      BY <3>2 DEF MayMove
    <3>4. PathAt(q, (b + i) + 1) \in g[b]
      BY <1>7, <2>2, <3>3 DEF Closed
    <3> QED  BY <3>1, <3>4
  <2>3. Nat \subseteq T
    <3> HIDE DEF T
    <3> QED  BY <2>1, <2>2, NaturalInduction
  <2>4. e - b \in Nat /\ b + (e - b) = e
    BY <1>1, <1>3, <1>9
  <2>5. goal \in g[b]
    <3>1. PathAt(q, b + (e - b)) \in g[b]
      BY <2>3, <2>4
    <3> QED  BY <1>5, <2>4, <3>1
  <2>6. b \in Arrivals(g, goal, cons)
    BY <1>1, <2>5 DEF Arrivals, l
  <2>7. b <= e
    BY <1>1, <1>3, <1>9
  <2> QED  BY <2>6, <2>7 DEF g, e
<1> QED  BY <1>8, <1>9

LEMMA ShortestIsFound ==
    ASSUME NEW start \in Free, NEW goal \in Free, NEW cons, IsConstraints(cons),
           NEW q, IsWay(q, start, goal, cons), Len(q) - 1 >= Latest(cons)
    PROVE  /\ LowLevel(start, goal, cons) # {}
           /\ \A p \in LowLevel(start, goal, cons) : Len(p) <= Len(q)
<1> DEFINE A == Arrivals(Layers(start, cons), goal, cons)
           h == Min(A)
<1>1. PICK t \in A : t <= Len(q) - 1
  <2>1. \E t \in A : t <= Len(q) - 1
    BY WaysArrive
  <2> QED  BY <2>1
<1>2. /\ A \subseteq 0 .. TimeBound(cons) /\ h \in A
      /\ LowLevel(start, goal, cons) = Ways(Layers(start, cons), goal, cons, h)
  BY <1>1, EarliestArrival
<1>3. h >= Latest(cons) /\ goal \in Layers(start, cons)[h]
  BY <1>2 DEF Arrivals
<1>4. h \in 0 .. TimeBound(cons)
  <2> HIDE DEF A, h
  <2> QED  BY <1>2
<1>5. LowLevel(start, goal, cons) # {}
  <2> HIDE DEF A, h
  <2> QED  BY <1>2, <1>3, <1>4, WaysAreWays
<1>6. ASSUME NEW p \in LowLevel(start, goal, cons) PROVE Len(p) <= Len(q)
  <2>1. IsWay(p, start, goal, cons) /\ \A s \in A : Len(p) - 1 <= s
    BY FoundIsAWay
  <2>2. Len(p) \in Nat /\ Len(q) \in Nat
    BY <2>1 DEF IsWay
  <2>3. t \in Int
    <3>1. TimeBound(cons) \in Nat
      BY LayersAre
    <3> HIDE DEF A, h
    <3> QED  BY <1>1, <1>2, <3>1
  <2>4. Len(p) - 1 <= t /\ t <= Len(q) - 1
    BY <1>1, <2>1
  <2> HIDE DEF A, h
  <2> QED  BY <2>2, <2>3, <2>4
<1> QED  BY <1>5, <1>6

-----------------------------------------------------------------------------
(* Choosing a collision and a node.                                         *)

(* A total order has a least element on every finite set that is not empty. *)
LEMMA LeastExists ==
    ASSUME NEW D, IsFiniteSet(D), D # {}, NEW R,
           \A x, y \in D : <<x, y>> \in R \/ <<y, x>> \in R,
           \A x, y, z \in D : <<x, y>> \in R /\ <<y, z>> \in R => <<x, z>> \in R
    PROVE  \E x \in D : \A y \in D : <<x, y>> \in R
<1> DEFINE T == {s \in SUBSET D : s # {} => \E x \in s : \A y \in s : <<x, y>> \in R}
<1>1. {} \in T
  OBVIOUS
<1>2. ASSUME NEW S \in SUBSET D, NEW k \in D \ S, S \in T
      PROVE  S \cup {k} \in T
  <2>0. <<k, k>> \in R
    OBVIOUS
  <2>1. CASE S = {}
    BY <2>0, <2>1
  <2>2. CASE S # {}
    <3>1. PICK x \in S : \A y \in S : <<x, y>> \in R
      BY <1>2, <2>2
    <3>2. CASE <<x, k>> \in R
      BY <3>1, <3>2
    <3>3. CASE <<k, x>> \in R
      <4>1. \A y \in S : <<k, y>> \in R
        BY <3>1, <3>3
      <4> QED  BY <2>0, <4>1
    <3> QED  BY <3>1, <3>2, <3>3
  <2> QED  BY <2>1, <2>2
<1>3. D \in T
  <2> HIDE DEF T
  <2> QED  BY <1>1, <1>2, ElementInduction
<1> QED  BY <1>3

(* The paths of a node, whatever they are.                                  *)
IsPaths(paths) == paths \in [Agents -> Seq(Free) \ {<<>>}]

LEMMA MakespanOf ==
    ASSUME NEW S, NEW paths \in [Agents -> Seq(S) \ {<<>>}]
    PROVE  Makespan(paths) \in Nat /\ \A a \in Agents : Len(paths[a]) - 1 <= Makespan(paths)
<1> DEFINE f == [a \in Agents |-> Len(paths[a]) - 1]
           L == {Len(paths[a]) - 1 : a \in Agents}
           D == {0} \cup L
<1>1. \A a \in Agents : Len(paths[a]) - 1 \in Nat
  <2> TAKE a \in Agents
  <2>1. paths[a] \in Seq(S) /\ paths[a] # <<>>
    OBVIOUS
  <2> QED  BY <2>1
<1>2. IsFiniteSet(L)
  <2>1. f \in Surjection(Agents, L)
    BY DEF Surjection
  <2> HIDE DEF f, L
  <2> QED  BY <2>1, FS_Surjection, AgentsAssumption
<1>3. IsFiniteSet(D)
  <2> HIDE DEF L
  <2>1. IsFiniteSet(L \cup {0}) /\ L \cup {0} = D
    BY <1>2, FS_AddElement
  <2> QED  BY <2>1
<1>4. D \subseteq Nat /\ 0 \in D
  BY <1>1
<1>5. Max(D) \in D /\ \A x \in D : x <= Max(D)
  <2> HIDE DEF D
  <2>1. D \subseteq Int /\ D # {}
    BY <1>4
  <2> QED  BY <1>3, <2>1, LargestExists
<1>6. Makespan(paths) = Max(D)
  BY DEF Makespan
<1>7. Max(D) \in Nat /\ \A a \in Agents : Len(paths[a]) - 1 <= Max(D)
  BY <1>4, <1>5
<1> HIDE DEF D
<1> QED  BY <1>6, <1>7

LEMMA MakespanIs ==
    ASSUME NEW paths, IsPaths(paths)
    PROVE  Makespan(paths) \in Nat /\ \A a \in Agents : Len(paths[a]) - 1 <= Makespan(paths)
BY MakespanOf DEF IsPaths

LEMMA FirstCollisionIsOne ==
    ASSUME NEW paths, IsPaths(paths), Collisions(paths) # {}
    PROVE  FirstCollision(paths) \in Collisions(paths)
<1> DEFINE C == Collisions(paths)
           R == {z \in C \X C : Before(z[1], z[2])}
           D == 0 .. Makespan(paths)
<1>1. IsFiniteSet(C)
  <2>1. IsFiniteSet(D)
    BY MakespanIs, FS_Interval
  <2>2. IsFiniteSet(Agents \X Agents)
    BY AgentsAssumption, FS_Product
  <2> HIDE DEF D
  <2>3. IsFiniteSet({<<x, y, z>> : x \in D, y \in Agents, z \in Agents})
    <3> DEFINE P == D \X (Agents \X Agents)
               Q == {<<x, y, z>> : x \in D, y \in Agents, z \in Agents}
               f == [u \in P |-> <<u[1], u[2][1], u[2][2]>>]
    <3>1. IsFiniteSet(P)
      BY <2>1, <2>2, FS_Product
    <3>2. f \in Surjection(P, Q)
      <4>1. f \in [P -> Q]
        OBVIOUS
      <4>2. ASSUME NEW q \in Q PROVE \E u \in P : f[u] = q
        <5>1. PICK x \in D, y \in Agents, z \in Agents : q = <<x, y, z>>
          OBVIOUS
        <5>2. <<x, <<y, z>>>> \in P /\ f[<<x, <<y, z>>>>] = q
          BY <5>1
        <5> QED  BY <5>2
      <4> HIDE DEF f, P, Q
      <4> QED  BY <4>1, <4>2 DEF Surjection
    <3> HIDE DEF f, P, Q
    <3>3. IsFiniteSet(Q)
      BY <3>1, <3>2, FS_Surjection
    <3> QED  BY <3>3 DEF Q
  <2>4. C \subseteq {<<x, y, z>> : x \in D, y \in Agents, z \in Agents}
    BY DEF Collisions, D
  <2> HIDE DEF C
  <2> QED  BY <2>3, <2>4, FS_Subset
<1>2. \A x \in C : x[1] \in Int /\ x[2] \in Int /\ x[3] \in Int
  <2> TAKE x \in C
  <2>1. x[1] \in D /\ x[2] \in Agents /\ x[3] \in Agents
    BY DEF Collisions
  <2>2. D \subseteq Int /\ Agents \subseteq Int
    <3>1. Makespan(paths) \in Nat
      BY MakespanIs
    <3>2. Agents \subseteq Nat
      BY CbsAssumption
    <3> QED  BY <3>1, <3>2
  <2> HIDE DEF C, D
  <2> QED  BY <2>1, <2>2
<1>3. C # {}
  OBVIOUS
<1> HIDE DEF C
<1>4. \A x, y \in C : <<x, y>> \in R \/ <<y, x>> \in R
  <2> TAKE x, y \in C
  <2>1. Before(x, y) \/ Before(y, x)
    BY <1>2 DEF Before
  <2> QED  BY <2>1
<1>5. \A x, y, z \in C : <<x, y>> \in R /\ <<y, z>> \in R => <<x, z>> \in R
  <2> SUFFICES ASSUME NEW x \in C, NEW y \in C, NEW z \in C, <<x, y>> \in R, <<y, z>> \in R
               PROVE  <<x, z>> \in R
    OBVIOUS
  <2>1. Before(x, y) /\ Before(y, z)
    OBVIOUS
  <2>2. Before(x, z)
    BY <1>2, <2>1 DEF Before
  <2> QED  BY <2>2
<1>6. \E x \in C : \A y \in C : <<x, y>> \in R
  <2> HIDE DEF R
  <2> QED  BY <1>1, <1>3, <1>4, <1>5, LeastExists
<1>7. \E x \in C : \A y \in C : Before(x, y)
  BY <1>6
<1> QED  BY <1>7 DEF FirstCollision, C

-----------------------------------------------------------------------------
(* The nodes of the constraint tree.                                        *)

(* Nobody can arrive for good before the last constraint: the test that     *)
(* rejects early arrivals turns no way away.                                *)
Tight(cons, start, goal) == \A q : IsWay(q, start, goal, cons) => Latest(cons) <= Len(q) - 1

IsNode(n, i) ==
    /\ n.cons = [a \in Agents |-> n.cons[a]]
    /\ n.paths = [a \in Agents |-> n.paths[a]]
    /\ \A a \in Agents :
         /\ IsConstraints(n.cons[a]) /\ Tight(n.cons[a], i.start[a], i.goal[a])
         /\ n.paths[a] \in LowLevel(i.start[a], i.goal[a], n.cons[a])
    /\ n.cost = CostOf(n.paths)
    /\ n.order \in Nat

(* What a new constraint touches: a time before the end of the path it is   *)
(* made from, or a later one, on the goal.                                  *)
Reaches(c, p) ==
    LET t == Touches(c)
    IN  t <= Len(p) - 1 \/ c = VertexConstraint(p[Len(p)], t)

LEMMA ConstraintsAreMet ==
    ASSUME NEW cons, NEW c, NEW q, Obeys(q, cons \cup {c})
    PROVE  Obeys(q, cons)
BY DEF Obeys, MayMove

LEMMA TightStays ==
    ASSUME NEW start \in Free, NEW goal \in Free, NEW cons, IsConstraints(cons),
           Tight(cons, start, goal), NEW p \in LowLevel(start, goal, cons),
           NEW c, IsConstraint(c), Reaches(c, p)
    PROVE  IsConstraints(cons \cup {c}) /\ Tight(cons \cup {c}, start, goal)
<1> DEFINE more == cons \cup {c}
           t == Touches(c)
<1>1. IsConstraints(more)
  <2>1. IsFiniteSet(cons \cup {c})
    BY FS_AddElement DEF IsConstraints
  <2> QED  BY <2>1 DEF IsConstraints
<1>2. t \in Nat
  BY DEF Touches, IsConstraint
<1>3. Latest(more) \in Nat /\ (Latest(more) = 0 \/ \E k \in more : Latest(more) = Touches(k))
  BY <1>1, LatestTouches
<1>4. Latest(cons) \in Nat /\ \A k \in cons : Touches(k) <= Latest(cons) /\ Touches(k) \in Nat
  <2>1. \A k \in cons : Touches(k) \in Nat
    BY DEF IsConstraints, IsConstraint, Touches
  <2> QED  BY <2>1, LatestTouches
<1>5. IsWay(p, start, goal, cons)
  BY FoundIsAWay
<1>6. ASSUME NEW q, IsWay(q, start, goal, more)
      PROVE  Latest(more) <= Len(q) - 1
  <2>1. q \in Seq(Free) /\ q # <<>> /\ q[Len(q)] = goal /\ Obeys(q, more)
    BY <1>6 DEF IsWay
  <2>2. IsWay(q, start, goal, cons)
    BY <1>6, ConstraintsAreMet DEF IsWay
  <2>3. Len(q) \in Nat /\ Len(q) > 0 /\ Latest(cons) <= Len(q) - 1
    BY <2>1, <2>2 DEF Tight
  <2>4. Len(p) \in Nat /\ Len(p) <= Len(q)
    <3>1. Len(q) - 1 >= Latest(cons)
      BY <1>4, <2>3
    <3>2. Len(p) <= Len(q)
      BY <2>2, <3>1, ShortestIsFound
    <3> QED  BY <1>5, <3>2 DEF IsWay
  <2>5. t <= Len(q) - 1
    <3> SUFFICES ASSUME t > Len(q) - 1 PROVE FALSE
      BY <1>2, <2>3
    <3>1. c = VertexConstraint(goal, t)
      <4>1. ~(t <= Len(p) - 1)
        BY <1>2, <2>3, <2>4
      <4> QED  BY <1>5, <4>1 DEF Reaches, IsWay
    <3>2. t - 1 \in Nat /\ (t - 1) + 1 = t /\ t + 1 >= Len(q)
      BY <1>2, <2>3
    <3>3. PathAt(q, t) = goal
      BY <1>2, <2>1, <3>2, PathAtFacts
    <3>4. MayMove(PathAt(q, t - 1), PathAt(q, (t - 1) + 1), t - 1, more)
      BY <2>1, <3>2 DEF Obeys
    <3>5. VertexConstraint(goal, t) \notin more
      BY <3>2, <3>3, <3>4 DEF MayMove
    <3> QED  BY <3>1, <3>5
  <2>6. CASE Latest(more) = 0
    BY <2>3, <2>6
  <2>7. CASE \E k \in more : Latest(more) = Touches(k)
    <3>1. PICK k \in more : Latest(more) = Touches(k)
      BY <2>7
    <3>2. CASE k = c
      BY <2>5, <3>1, <3>2
    <3>3. CASE k \in cons
      <4>1. Touches(k) <= Latest(cons) /\ Touches(k) \in Nat
        BY <1>4, <3>3
      <4> QED  BY <1>4, <2>3, <3>1, <4>1
    <3> QED  BY <3>2, <3>3
  <2> QED  BY <1>3, <2>6, <2>7
<1> HIDE DEF more
<1>7. Tight(more, start, goal)
  BY <1>6 DEF Tight
<1> QED  BY <1>1, <1>7 DEF more

LEMMA CollisionsAre ==
    ASSUME NEW paths, IsPaths(paths), NEW x \in Collisions(paths)
    PROVE  /\ x[1] \in Nat /\ x[2] \in Agents /\ x[3] \in Agents /\ x[2] # x[3]
           /\ Meets(paths, x[2], x[3], x[1]) \/ Trades(paths, x[2], x[3], x[1])
<1>1. /\ x[1] \in 0 .. Makespan(paths) /\ x[2] \in Agents /\ x[3] \in Agents /\ x[2] < x[3]
      /\ Meets(paths, x[2], x[3], x[1]) \/ Trades(paths, x[2], x[3], x[1])
  BY DEF Collisions
<1>2. Makespan(paths) \in Nat
  BY MakespanIs
<1>3. x[2] \in Nat /\ x[3] \in Nat
  BY <1>1, CbsAssumption
<1>4. x[2] # x[3]
  BY <1>1, <1>3
<1>5. x[1] \in Nat
  BY <1>1, <1>2
<1> QED  BY <1>1, <1>4, <1>5

LEMMA NewConstraintReaches ==
    ASSUME NEW paths, IsPaths(paths), NEW x \in Collisions(paths), NEW a \in {x[2], x[3]}
    PROVE  LET c == NewConstraint(paths, x, a)
           IN  IsConstraint(c) /\ Touches(c) = x[1] /\ Reaches(c, paths[a])
<1> DEFINE c == NewConstraint(paths, x, a)
           t == x[1]
           p == paths[a]
           d == PathAt(p, t)
           e == PathAt(p, t - 1)
<1>1. /\ t \in Nat /\ x[2] \in Agents /\ x[3] \in Agents
      /\ Meets(paths, x[2], x[3], t) \/ Trades(paths, x[2], x[3], t)
  BY CollisionsAre
<1>2. p \in Seq(Free) /\ p # <<>>
  BY <1>1 DEF IsPaths
<1>3. Len(p) \in Nat /\ Len(p) > 0
  BY <1>2
<1>4. t > Len(p) - 1 => d = p[Len(p)]
  <2>1. t > Len(p) - 1 => t + 1 >= Len(p)
    BY <1>1, <1>3
  <2> QED  BY <1>1, <1>2, <2>1, PathAtFacts
<1>5. CASE Meets(paths, x[2], x[3], t)
  <2>1. c = VertexConstraint(d, t)
    BY <1>5 DEF NewConstraint
  <2> HIDE DEF c, t, d, p
  <2>2. c.t = t /\ c.from = d /\ c.kind = "vertex"
    BY <2>1 DEF VertexConstraint
  <2>3. IsConstraint(c) /\ Touches(c) = t
    BY <1>1, <2>1, <2>2 DEF IsConstraint, Touches
  <2>4. Reaches(c, p)
    BY <1>1, <1>3, <1>4, <2>1, <2>3 DEF Reaches
  <2> QED  BY <2>3, <2>4 DEF c, t, p
<1>6. CASE ~Meets(paths, x[2], x[3], t)
  <2>1. c = EdgeConstraint(e, d, t - 1)
    BY <1>6 DEF NewConstraint
  <2>2. /\ t > 0
        /\ PathAt(paths[x[2]], t) = PathAt(paths[x[3]], t - 1)
        /\ PathAt(paths[x[3]], t) = PathAt(paths[x[2]], t - 1)
        /\ PathAt(paths[x[2]], t) # PathAt(paths[x[3]], t)
    BY <1>1, <1>6 DEF Trades, Meets
  <2>3. d # e
    BY <2>2
  <2>4. t <= Len(p) - 1
    <3> SUFFICES ASSUME t > Len(p) - 1 PROVE FALSE
      BY <1>1, <1>3
    <3>1. t - 1 \in Nat /\ (t - 1) + 1 >= Len(p)
      BY <1>1, <1>3, <2>2
    <3>2. e = p[Len(p)]
      BY <1>2, <3>1, PathAtFacts
    <3> QED  BY <1>4, <2>3, <3>2
  <2> HIDE DEF c, t, d, e, p
  <2>5. c.t = t - 1 /\ c.from = e /\ c.to = d /\ c.kind = "edge"
    BY <2>1 DEF EdgeConstraint
  <2>6. t - 1 \in Nat /\ (t - 1) + 1 = t
    BY <1>1, <2>2
  <2>7. IsConstraint(c) /\ Touches(c) = t
    BY <2>1, <2>5, <2>6 DEF IsConstraint, Touches
  <2>8. Reaches(c, p)
    BY <2>4, <2>7 DEF Reaches
  <2> QED  BY <2>7, <2>8 DEF c, t, p
<1> QED  BY <1>5, <1>6

LEMMA InstanceCells ==
    ASSUME NEW i \in Instances, NEW a \in Agents
    PROVE  i.start[a] \in Free /\ i.goal[a] \in Free
BY CbsAssumption

LEMMA NodePaths ==
    ASSUME NEW i \in Instances, NEW n, IsNode(n, i)
    PROVE  /\ IsPaths(n.paths)
           /\ \A a \in Agents : IsWay(n.paths[a], i.start[a], i.goal[a], n.cons[a])
<1>1. ASSUME NEW a \in Agents
      PROVE  IsWay(n.paths[a], i.start[a], i.goal[a], n.cons[a])
  <2>1. IsConstraints(n.cons[a]) /\ n.paths[a] \in LowLevel(i.start[a], i.goal[a], n.cons[a])
    BY DEF IsNode
  <2> QED  BY <2>1, InstanceCells, FoundIsAWay
<1>2. \A a \in Agents : n.paths[a] \in Seq(Free) \ {<<>>}
  BY <1>1 DEF IsWay
<1>3. n.paths = [a \in Agents |-> n.paths[a]]
  BY DEF IsNode
<1>4. IsPaths(n.paths)
  BY <1>2, <1>3 DEF IsPaths
<1> QED  BY <1>1, <1>4

LEMMA CostsAre ==
    ASSUME NEW paths, IsPaths(paths)
    PROVE  LET f == [a \in Agents |-> NodePathCost(paths[a])]
           IN  /\ \A a \in Agents : f[a] \in Nat
               /\ CostOf(paths) \in Int
               /\ CostOf(paths) = SumFunctionOnSet(f, Agents)
<1> DEFINE f == [a \in Agents |-> NodePathCost(paths[a])]
<1>1. ASSUME NEW a \in Agents PROVE f[a] \in Nat
  <2>1. paths[a] \in Seq(Free) /\ paths[a] # <<>>
    BY DEF IsPaths
  <2>2. Len(paths[a]) - 1 \in Nat
    BY <2>1
  <2> QED  BY <2>2 DEF NodePathCost
<1>2. DOMAIN f = Agents /\ CostOf(paths) = SumFunction(f)
  BY DEF CostOf
<1> HIDE DEF f
<1>3. CostOf(paths) = SumFunctionOnSet(f, Agents)
  BY <1>2, SumWhole
<1>4. SumFunctionOnSet(f, Agents) \in Int
  <2>1. \A a \in Agents : f[a] \in Int
    BY <1>1
  <2> QED  BY <2>1, AgentsAssumption, SumType
<1> QED  BY <1>1, <1>3, <1>4 DEF f

LEMMA CostOfReplanned ==
    ASSUME NEW paths, IsPaths(paths), NEW a \in Agents, NEW p \in Seq(Free) \ {<<>>}
    PROVE  /\ IsPaths([paths EXCEPT ![a] = p])
           /\ CostOf([paths EXCEPT ![a] = p]) =
                CostOf(paths) - NodePathCost(paths[a]) + NodePathCost(p)
<1> DEFINE more == [paths EXCEPT ![a] = p]
           f == [b \in Agents |-> NodePathCost(paths[b])]
           g == [b \in Agents |-> NodePathCost(more[b])]
<1>1. IsPaths(more)
  BY DEF IsPaths
<1>2. more[a] = p /\ \A b \in Agents \ {a} : more[b] = paths[b]
  BY DEF IsPaths
<1> HIDE DEF more
<1>3. (\A b \in Agents : f[b] \in Nat) /\ CostOf(paths) = SumFunctionOnSet(f, Agents)
  BY CostsAre
<1>4. (\A b \in Agents : g[b] \in Nat) /\ CostOf(more) = SumFunctionOnSet(g, Agents)
  BY <1>1, CostsAre
<1>5. f[a] = NodePathCost(paths[a]) /\ g[a] = NodePathCost(p) /\ \A b \in Agents \ {a} : f[b] = g[b]
  BY <1>2
<1> HIDE DEF f, g
<1>6. SumFunctionOnSet(g, Agents) = SumFunctionOnSet(f, Agents) - f[a] + g[a]
  <2>1. \A b \in Agents : f[b] \in Int /\ g[b] \in Int
    BY <1>3, <1>4
  <2> QED  BY <1>5, <2>1, AgentsAssumption, SumUpdate
<1>7. CostOf(more) = CostOf(paths) - NodePathCost(paths[a]) + NodePathCost(p)
  BY <1>3, <1>4, <1>5, <1>6
<1> QED  BY <1>1, <1>7 DEF more

(* The constraints of the child that constrains a.                          *)
Constrained(n, x, a) == [n.cons EXCEPT ![a] = n.cons[a] \cup {NewConstraint(n.paths, x, a)}]

LEMMA ChildrenAreNodes ==
    ASSUME task \in Instances, NEW n, IsNode(n, task), NEW x \in Collisions(n.paths),
           NEW a \in {x[2], x[3]}, NEW S \in Children(n, x, a), NEW k \in Nat
    PROVE  /\ \A m \in Numbered(S, k) : IsNode(m, task)
           /\ IsFiniteSet(Numbered(S, k)) /\ Cardinality(S) \in Nat
           /\ LowLevel(task.start[a], task.goal[a], Constrained(n, x, a)[a]) # {} =>
                \E m \in Numbered(S, k) : m.cons = Constrained(n, x, a)
<1> DEFINE more == n.cons[a] \cup {NewConstraint(n.paths, x, a)}
           found == PlanAgent(a, more)
           Node(p) == [cons  |-> [n.cons EXCEPT ![a] = more],
                       paths |-> [n.paths EXCEPT ![a] = p],
                       cost  |-> n.cost - NodePathCost(n.paths[a]) + NodePathCost(p)]
           Full(p) == [cons |-> Node(p).cons, paths |-> Node(p).paths, cost |-> Node(p).cost, order |-> k]
<1>1. IsPaths(n.paths) /\ a \in Agents
  BY NodePaths, CollisionsAre
<1>2. Constrained(n, x, a)[a] = more /\ Constrained(n, x, a) = [n.cons EXCEPT ![a] = more]
  BY <1>1 DEF Constrained, IsNode
<1>3. (found = {} /\ S = {}) \/ (\E p \in found : S = {Node(p)})
  BY DEF Children
<1>4. CASE found = {} /\ S = {}
  <2>1. Numbered(S, k) = {}
    BY <1>4 DEF Numbered
  <2>2. LowLevel(task.start[a], task.goal[a], more) = {}
    BY <1>4 DEF PlanAgent
  <2>3. Cardinality(S) = 0 /\ IsFiniteSet({})
    BY <1>4, FS_EmptySet
  <2> HIDE DEF more, found
  <2> QED  BY <1>2, <2>1, <2>2, <2>3
<1>5. CASE \E p \in found : S = {Node(p)}
  <2>1. PICK p \in found : S = {Node(p)}
    BY <1>5
  <2>2. Numbered(S, k) = {Full(p)}
    BY <2>1 DEF Numbered
  <2>3. Cardinality(S) = 1 /\ IsFiniteSet(Numbered(S, k))
    <3> HIDE DEF Node, Full
    <3> QED  BY <2>1, <2>2, FS_Singleton
  <2>4. task.start[a] \in Free /\ task.goal[a] \in Free
    BY <1>1, InstanceCells
  <2>5. IsConstraints(more) /\ Tight(more, task.start[a], task.goal[a])
    <3> DEFINE c == NewConstraint(n.paths, x, a)
    <3>1. IsConstraint(c) /\ Reaches(c, n.paths[a])
      BY <1>1, NewConstraintReaches
    <3>2. /\ IsConstraints(n.cons[a]) /\ Tight(n.cons[a], task.start[a], task.goal[a])
          /\ n.paths[a] \in LowLevel(task.start[a], task.goal[a], n.cons[a])
      BY <1>1 DEF IsNode
    <3> HIDE DEF c
    <3>3. IsConstraints(n.cons[a] \cup {c}) /\ Tight(n.cons[a] \cup {c}, task.start[a], task.goal[a])
      BY <2>4, <3>1, <3>2, TightStays
    <3> QED  BY <3>3 DEF c
  <2> HIDE DEF more
  <2>6. p \in LowLevel(task.start[a], task.goal[a], more)
    BY <2>1 DEF PlanAgent
  <2>7. p \in Seq(Free) \ {<<>>}
    <3>1. IsWay(p, task.start[a], task.goal[a], more)
      BY <2>4, <2>5, <2>6, FoundIsAWay
    <3> QED  BY <3>1 DEF IsWay
  <2>8. /\ IsPaths([n.paths EXCEPT ![a] = p])
        /\ CostOf([n.paths EXCEPT ![a] = p]) =
             CostOf(n.paths) - NodePathCost(n.paths[a]) + NodePathCost(p)
    BY <1>1, <2>7, CostOfReplanned
  <2> DEFINE m == Full(p)
  <2>9. /\ m.cons = [n.cons EXCEPT ![a] = more] /\ m.paths = [n.paths EXCEPT ![a] = p]
        /\ m.cost = n.cost - NodePathCost(n.paths[a]) + NodePathCost(p) /\ m.order = k
    OBVIOUS
  <2> HIDE DEF m
  <2>10. IsNode(m, task)
    <3>1. n.cons = [b \in Agents |-> n.cons[b]] /\ n.paths = [b \in Agents |-> n.paths[b]]
      BY DEF IsNode
    <3>2. /\ m.cons = [b \in Agents |-> IF b = a THEN more ELSE n.cons[b]]
          /\ m.paths = [b \in Agents |-> IF b = a THEN p ELSE n.paths[b]]
      BY <2>9, <3>1
    <3>3. m.cons = [b \in Agents |-> m.cons[b]] /\ m.paths = [b \in Agents |-> m.paths[b]]
      BY <3>2
    <3>4. ASSUME NEW b \in Agents
          PROVE  /\ IsConstraints(m.cons[b]) /\ Tight(m.cons[b], task.start[b], task.goal[b])
                 /\ m.paths[b] \in LowLevel(task.start[b], task.goal[b], m.cons[b])
      <4>1. CASE b = a
        <5>1. m.cons[b] = more /\ m.paths[b] = p
          BY <3>2, <4>1
        <5> QED  BY <2>5, <2>6, <4>1, <5>1
      <4>2. CASE b # a
        <5>1. m.cons[b] = n.cons[b] /\ m.paths[b] = n.paths[b]
          BY <3>2, <4>2
        <5> QED  BY <5>1 DEF IsNode
      <4> QED  BY <4>1, <4>2
    <3>5. m.cost = CostOf(m.paths)
      BY <2>8, <2>9 DEF IsNode
    <3> QED  BY <2>9, <3>3, <3>4, <3>5 DEF IsNode
  <2>11. m.cons = Constrained(n, x, a)
    BY <1>2, <2>9
  <2>12. Numbered(S, k) = {m}
    BY <2>2 DEF m
  <2> QED  BY <2>3, <2>10, <2>11, <2>12
<1> QED  BY <1>3, <1>4, <1>5

LEMMA TopIsLeast ==
    ASSUME task \in Instances, IsFiniteSet(open), open # {}, \A n \in open : IsNode(n, task)
    PROVE  Top \in open /\ \A m \in open : m.cost \in Int /\ Top.cost <= m.cost
<1> DEFINE Le(x, y) == x.cost < y.cost \/ (x.cost = y.cost /\ x.order <= y.order)
           R == {z \in open \X open : Le(z[1], z[2])}
<1>1. ASSUME NEW n \in open PROVE n.cost \in Int /\ n.order \in Int
  <2>1. IsNode(n, task)
    OBVIOUS
  <2>2. CostOf(n.paths) \in Int
    BY <2>1, NodePaths, CostsAre
  <2> QED  BY <2>1, <2>2 DEF IsNode
<1>2. \A x, y \in open : <<x, y>> \in R \/ <<y, x>> \in R
  <2> TAKE x, y \in open
  <2>1. Le(x, y) \/ Le(y, x)
    BY <1>1
  <2> HIDE DEF Le
  <2> QED  BY <2>1
<1>3. \A x, y, z \in open : <<x, y>> \in R /\ <<y, z>> \in R => <<x, z>> \in R
  <2> SUFFICES ASSUME NEW x \in open, NEW y \in open, NEW z \in open, <<x, y>> \in R, <<y, z>> \in R
               PROVE  <<x, z>> \in R
    OBVIOUS
  <2>1. Le(x, y) /\ Le(y, z)
    OBVIOUS
  <2>2. Le(x, z)
    BY <1>1, <2>1
  <2> HIDE DEF Le
  <2> QED  BY <2>2
<1>4. \E x \in open : \A y \in open : <<x, y>> \in R
  <2> HIDE DEF R
  <2> QED  BY <1>2, <1>3, LeastExists
<1>5. \E x \in open : \A y \in open : Le(x, y)
  <2> HIDE DEF Le
  <2> QED  BY <1>4
<1>6. Top \in open /\ \A y \in open : Le(Top, y)
  BY <1>5 DEF Top
<1> QED  BY <1>1, <1>6

-----------------------------------------------------------------------------
(* Plans without collisions: those the independent verifier accepts.        *)
Plans == [Agents -> Seq(Cells) \ {<<>>}]

Solutions(i) == {f \in Plans : Verify(i.start, i.goal, f) = {}}

(* The same, over all times.                                                *)
NeverCollide(f) ==
    \A a, b \in Agents : a # b => \A t \in Nat : ~Meets(f, a, b, t) /\ ~Trades(f, a, b, t)

IsSolution(f, i) ==
    /\ IsPaths(f) /\ NeverCollide(f)
    /\ \A a \in Agents : IsWay(f[a], i.start[a], i.goal[a], {})

LEMMA ManhattanType ==
    ASSUME NEW c \in Cells, NEW d \in Cells
    PROVE  Manhattan(c, d) \in Int
<1>1. c[1] \in Int /\ c[2] \in Int /\ d[1] \in Int /\ d[2] \in Int
  BY GridAssumption DEF Cells
<1> QED  BY <1>1 DEF Manhattan, Distance

LEMMA VerdictCoversAllTimes ==
    ASSUME NEW i \in Instances, NEW f \in Solutions(i)
    PROVE  IsSolution(f, i)
<1> DEFINE M == Makespan(f)
<1>1. f \in Plans /\ Verify(i.start, i.goal, f) = {}
  BY DEF Solutions
<1>2. ASSUME NEW a \in Agents
      PROVE  f[a] \in Seq(Cells) /\ f[a] # <<>> /\ Len(f[a]) \in Nat /\ Len(f[a]) > 0
  <2>1. f[a] \in Seq(Cells) /\ f[a] # <<>>
    BY <1>1 DEF Plans
  <2> QED  BY <2>1
<1>3. M \in Nat /\ \A a \in Agents : Len(f[a]) - 1 <= M
  BY <1>1, MakespanOf DEF Plans
<1> HIDE DEF M
<1>4. ASSUME NEW a \in Agents
      PROVE  PathAt(f[a], 0) = i.start[a] /\ f[a][Len(f[a])] = i.goal[a]
  BY <1>1 DEF Verify
<1>5. ASSUME NEW a \in Agents, NEW t \in 0 .. M, t < Len(f[a])
      PROVE  /\ PathAt(f[a], t) \in Free
             /\ t > 0 => ~(Manhattan(PathAt(f[a], t - 1), PathAt(f[a], t)) > 1)
  <2> DEFINE w == <<a, t>>
  <2>1. w \in Agents \X (0 .. M) /\ w[1] = a /\ w[2] = t
    OBVIOUS
  <2> HIDE DEF w
  <2> QED  BY <1>1, <1>5, <2>1 DEF Verify, M
<1>6. ASSUME NEW a \in Agents, NEW b \in Agents, a # b, NEW t \in 0 .. M
      PROVE  PathAt(f[a], t) # PathAt(f[b], t)
  <2> DEFINE w == <<a, b, t>>
  <2>1. w \in Agents \X Agents \X (0 .. M) /\ w[1] = a /\ w[2] = b /\ w[3] = t
    OBVIOUS
  <2> HIDE DEF w
  <2> QED  BY <1>1, <1>6, <2>1 DEF Verify, M
<1>7. ASSUME NEW a \in Agents, NEW b \in Agents, a # b, NEW t \in 1 .. M,
             PathAt(f[a], t) # PathAt(f[b], t)
      PROVE  ~(PathAt(f[a], t) = PathAt(f[b], t - 1) /\ PathAt(f[b], t) = PathAt(f[a], t - 1))
  <2> DEFINE w == <<a, b, t>>
  <2>1. w \in Agents \X Agents \X (1 .. M) /\ w[1] = a /\ w[2] = b /\ w[3] = t
    OBVIOUS
  <2> HIDE DEF w
  <2> QED  BY <1>1, <1>7, <2>1 DEF Verify, M
<1>8. ASSUME NEW a \in Agents PROVE f[a] \in Seq(Free) \ {<<>>}
  <2>1. ASSUME NEW j \in 1 .. Len(f[a]) PROVE f[a][j] \in Free
    <3>1. j - 1 \in 0 .. M /\ j - 1 < Len(f[a]) /\ j - 1 \in Nat /\ (j - 1) + 1 = j
      <4>1. Len(f[a]) - 1 <= M /\ Len(f[a]) \in Nat
        BY <1>2, <1>3
      <4> QED  BY <1>3, <4>1
    <3>2. PathAt(f[a], j - 1) = f[a][j]
      BY <3>1 DEF PathAt
    <3> QED  BY <1>5, <3>1, <3>2
  <2>2. f[a] \in Seq(Cells) /\ f[a] # <<>>
    BY <1>2
  <2>3. f[a] \in Seq(Free)
    BY <2>1, <2>2
  <2> QED  BY <2>2, <2>3
<1>9. IsPaths(f)
  BY <1>1, <1>8 DEF IsPaths, Plans
<1>10. ASSUME NEW a \in Agents, NEW t \in Nat
       PROVE  MayMove(PathAt(f[a], t), PathAt(f[a], t + 1), t, {})
  <2>1. f[a] \in Seq(Free) /\ f[a] # <<>>
    BY <1>8
  <2>2. PathAt(f[a], t) \in Free /\ PathAt(f[a], t + 1) \in Free
    BY <2>1, PathAtFacts
  <2>3. PathAt(f[a], t + 1) \in MovesFrom(PathAt(f[a], t))
    <3>1. CASE t + 1 < Len(f[a])
      <4>1. t + 1 \in 0 .. M /\ t + 1 > 0 /\ (t + 1) - 1 = t
        <5>1. Len(f[a]) - 1 <= M /\ Len(f[a]) \in Nat
          BY <1>2, <1>3
        <5> QED  BY <1>3, <3>1, <5>1
      <4>2. ~(Manhattan(PathAt(f[a], (t + 1) - 1), PathAt(f[a], t + 1)) > 1)
        BY <1>5, <3>1, <4>1
      <4>3. Manhattan(PathAt(f[a], t), PathAt(f[a], t + 1)) \in Int
        BY <2>2, ManhattanType DEF Free
      <4>4. Manhattan(PathAt(f[a], t), PathAt(f[a], t + 1)) <= 1
        BY <4>1, <4>2, <4>3
      <4> QED  BY <2>2, <4>4 DEF MovesFrom
    <3>2. CASE ~(t + 1 < Len(f[a]))
      <4>1. t + 1 >= Len(f[a]) /\ (t + 1) + 1 >= Len(f[a]) /\ t + 1 \in Nat
        BY <1>2, <3>2
      <4>2. PathAt(f[a], t) = f[a][Len(f[a])] /\ PathAt(f[a], t + 1) = f[a][Len(f[a])]
        BY <2>1, <4>1, PathAtFacts
      <4> QED  BY <2>2, <4>2, WaitingIsLegal
    <3> QED  BY <3>1, <3>2
  <2> QED  BY <2>3 DEF MayMove
<1>11. ASSUME NEW a \in Agents PROVE IsWay(f[a], i.start[a], i.goal[a], {})
  <2>1. f[a] \in Seq(Free) /\ f[a] # <<>> /\ Len(f[a]) > 0
    BY <1>2, <1>8
  <2>2. PathAt(f[a], 0) = f[a][1]
    BY <2>1 DEF PathAt
  <2>3. Obeys(f[a], {})
    BY <1>10 DEF Obeys
  <2> QED  BY <1>4, <2>1, <2>2, <2>3 DEF IsWay
<1>12. ASSUME NEW a \in Agents, NEW t \in Nat, t >= M
       PROVE  PathAt(f[a], t) = f[a][Len(f[a])]
  <2>1. t + 1 >= Len(f[a])
    <3>1. Len(f[a]) - 1 <= M /\ Len(f[a]) \in Nat
      BY <1>2, <1>3
    <3> QED  BY <1>3, <1>12, <3>1
  <2>2. f[a] \in Seq(Free) /\ f[a] # <<>>
    BY <1>8
  <2> QED  BY <2>1, <2>2, PathAtFacts
<1>13. ASSUME NEW a \in Agents, NEW b \in Agents, a # b, NEW t \in Nat
       PROVE  PathAt(f[a], t) # PathAt(f[b], t)
  <2>1. CASE t <= M
    BY <1>3, <1>6, <1>13, <2>1
  <2>2. CASE t >= M
    <3>1. PathAt(f[a], M) # PathAt(f[b], M)
      <4>1. M \in 0 .. M
        BY <1>3
      <4> QED  BY <1>6, <1>13, <4>1
    <3>2. M >= M
      BY <1>3
    <3> QED  BY <1>3, <1>12, <2>2, <3>1, <3>2
  <2> QED  BY <1>3, <2>1, <2>2
<1>14. ASSUME NEW a \in Agents, NEW b \in Agents, a # b, NEW t \in Nat, t > 0,
              PathAt(f[a], t) = PathAt(f[b], t - 1), PathAt(f[b], t) = PathAt(f[a], t - 1)
       PROVE  FALSE
  <2>1. PathAt(f[a], t) # PathAt(f[b], t)
    BY <1>13, <1>14
  <2>2. CASE t <= M
    <3>1. t \in 1 .. M
      BY <1>3, <1>14, <2>2
    <3> QED  BY <1>7, <1>14, <2>1, <3>1
  <2>3. CASE t > M
    <3>1. t - 1 \in Nat /\ t - 1 >= M /\ t >= M
      BY <1>3, <1>14, <2>3
    <3>2. PathAt(f[a], t) = PathAt(f[a], t - 1)
      BY <1>12, <3>1
    <3> QED  BY <1>14, <2>1, <3>2
  <2> QED  BY <1>3, <2>2, <2>3
<1>15. NeverCollide(f)
  BY <1>13, <1>14 DEF NeverCollide, Meets, Trades
<1> QED  BY <1>9, <1>11, <1>15 DEF IsSolution

LEMMA SolutionsAreAccepted ==
    ASSUME NEW i \in Instances, NEW f, IsSolution(f, i)
    PROVE  f \in Solutions(i)
<1> DEFINE M == Makespan(f)
<1>1. IsPaths(f) /\ NeverCollide(f) /\ \A a \in Agents : IsWay(f[a], i.start[a], i.goal[a], {})
  BY DEF IsSolution
<1>2. M \in Nat
  BY <1>1, MakespanIs
<1> HIDE DEF M
<1>3. ASSUME NEW a \in Agents
      PROVE  /\ f[a] \in Seq(Free) /\ f[a] # <<>> /\ Len(f[a]) \in Nat /\ Len(f[a]) > 0
             /\ PathAt(f[a], 0) = i.start[a] /\ f[a][Len(f[a])] = i.goal[a]
  <2>1. f[a] \in Seq(Free) /\ f[a] # <<>> /\ f[a][1] = i.start[a] /\ f[a][Len(f[a])] = i.goal[a]
    BY <1>1 DEF IsWay
  <2>2. Len(f[a]) \in Nat /\ Len(f[a]) > 0
    BY <2>1
  <2>3. PathAt(f[a], 0) = f[a][1]
    BY <2>2 DEF PathAt
  <2> QED  BY <2>1, <2>2, <2>3
<1>4. ASSUME NEW a \in Agents, NEW t \in 0 .. M
      PROVE  /\ PathAt(f[a], t) \in Free
             /\ t > 0 => ~(Manhattan(PathAt(f[a], t - 1), PathAt(f[a], t)) > 1)
  <2>0. t \in Nat
    BY <1>2
  <2>1. PathAt(f[a], t) \in Free
    BY <1>3, <2>0, PathAtFacts
  <2>2. ASSUME t > 0 PROVE ~(Manhattan(PathAt(f[a], t - 1), PathAt(f[a], t)) > 1)
    <3>1. t - 1 \in Nat /\ (t - 1) + 1 = t
      BY <2>0, <2>2
    <3>2. MayMove(PathAt(f[a], t - 1), PathAt(f[a], (t - 1) + 1), t - 1, {})
      BY <1>1, <3>1 DEF IsWay, Obeys
    <3>3. PathAt(f[a], t) \in MovesFrom(PathAt(f[a], t - 1))
      BY <3>1, <3>2 DEF MayMove
    <3>4. PathAt(f[a], t - 1) \in Free
      BY <1>3, <3>1, PathAtFacts
    <3>5. Manhattan(PathAt(f[a], t - 1), PathAt(f[a], t)) \in Int
      BY <2>1, <3>4, ManhattanType DEF Free
    <3> QED  BY <3>3, <3>5 DEF MovesFrom
  <2> QED  BY <2>1, <2>2
<1>5. \A a, b \in Agents : a # b => \A t \in Nat :
        /\ PathAt(f[a], t) # PathAt(f[b], t)
        /\ ~(t > 0 /\ PathAt(f[a], t) = PathAt(f[b], t - 1) /\ PathAt(f[b], t) = PathAt(f[a], t - 1))
  BY <1>1 DEF NeverCollide, Meets, Trades
<1>6. {b \in Agents : PathAt(f[b], 0) # i.start[b] \/ f[b][Len(f[b])] # i.goal[b]} = {}
  BY <1>3
<1>7. {w \in Agents \X (0 .. M) :
        /\ w[2] < Len(f[w[1]])
        /\ \/ PathAt(f[w[1]], w[2]) \notin Free
           \/ w[2] > 0 /\ Manhattan(PathAt(f[w[1]], w[2] - 1), PathAt(f[w[1]], w[2])) > 1} = {}
  <2> SUFFICES ASSUME NEW w \in Agents \X (0 .. M)
               PROVE  ~(/\ w[2] < Len(f[w[1]])
                        /\ \/ PathAt(f[w[1]], w[2]) \notin Free
                           \/ w[2] > 0 /\ Manhattan(PathAt(f[w[1]], w[2] - 1), PathAt(f[w[1]], w[2])) > 1)
    OBVIOUS
  <2>1. w[1] \in Agents /\ w[2] \in 0 .. M
    OBVIOUS
  <2> QED  BY <1>4, <2>1
<1>8. {w \in Agents \X Agents \X (0 .. M) :
        w[1] # w[2] /\ PathAt(f[w[1]], w[3]) = PathAt(f[w[2]], w[3])} = {}
  <2> SUFFICES ASSUME NEW w \in Agents \X Agents \X (0 .. M)
               PROVE  ~(w[1] # w[2] /\ PathAt(f[w[1]], w[3]) = PathAt(f[w[2]], w[3]))
    OBVIOUS
  <2>1. w[1] \in Agents /\ w[2] \in Agents /\ w[3] \in Nat
    BY <1>2
  <2> QED  BY <1>5, <2>1
<1>9. {w \in Agents \X Agents \X (1 .. M) :
        /\ w[1] # w[2]
        /\ PathAt(f[w[1]], w[3]) # PathAt(f[w[2]], w[3])
        /\ PathAt(f[w[1]], w[3]) = PathAt(f[w[2]], w[3] - 1)
        /\ PathAt(f[w[2]], w[3]) = PathAt(f[w[1]], w[3] - 1)} = {}
  <2> SUFFICES ASSUME NEW w \in Agents \X Agents \X (1 .. M)
               PROVE  ~(/\ w[1] # w[2]
                        /\ PathAt(f[w[1]], w[3]) = PathAt(f[w[2]], w[3] - 1)
                        /\ PathAt(f[w[2]], w[3]) = PathAt(f[w[1]], w[3] - 1))
    OBVIOUS
  <2>1. w[1] \in Agents /\ w[2] \in Agents /\ w[3] \in Nat /\ w[3] > 0
    BY <1>2
  <2> QED  BY <1>5, <2>1
<1>10. Verify(i.start, i.goal, f) = {}
  BY <1>6, <1>7, <1>8, <1>9 DEF Verify, M
<1>11. f \in Plans
  <2>1. ASSUME NEW a \in Agents PROVE f[a] \in Seq(Cells) \ {<<>>}
    <3>1. f[a] \in Seq(Free) /\ f[a] # <<>>
      BY <1>3
    <3>2. Free \subseteq Cells
      BY DEF Free
    <3> QED  BY <3>1, <3>2
  <2> QED  BY <1>1, <2>1 DEF Plans, IsPaths
<1> QED  BY <1>10, <1>11 DEF Solutions

(* A node without a collision is a solution: after the makespan everybody   *)
(* is parked where the last check found them apart.                         *)
LEMMA NoCollisionIsForEver ==
    ASSUME NEW f, IsPaths(f), Collisions(f) = {}
    PROVE  NeverCollide(f)
<1> DEFINE M == Makespan(f)
<1>1. M \in Nat /\ \A a \in Agents : Len(f[a]) - 1 <= M
  BY MakespanIs
<1> HIDE DEF M
<1>2. ASSUME NEW a \in Agents, NEW b \in Agents, a # b, NEW t \in 0 .. M
      PROVE  ~Meets(f, a, b, t) /\ ~Trades(f, a, b, t)
  <2>1. a \in Nat /\ b \in Nat
    BY CbsAssumption
  <2>2. CASE a < b
    <3> DEFINE x == <<t, a, b>>
    <3>1. x \in (0 .. M) \X Agents \X Agents /\ x[1] = t /\ x[2] = a /\ x[3] = b
      OBVIOUS
    <3> HIDE DEF x
    <3> QED  BY <2>2, <3>1 DEF Collisions, M
  <2>3. CASE b < a
    <3> DEFINE x == <<t, b, a>>
    <3>1. x \in (0 .. M) \X Agents \X Agents /\ x[1] = t /\ x[2] = b /\ x[3] = a
      OBVIOUS
    <3> HIDE DEF x
    <3>2. ~Meets(f, b, a, t) /\ ~Trades(f, b, a, t)
      BY <2>3, <3>1 DEF Collisions, M
    <3> QED  BY <3>2 DEF Meets, Trades
  <2> QED  BY <1>2, <2>1, <2>2, <2>3
<1>3. ASSUME NEW a \in Agents, NEW t \in Nat, t >= M
      PROVE  PathAt(f[a], t) = PathAt(f[a], M)
  <2>1. f[a] \in Seq(Free) /\ f[a] # <<>> /\ Len(f[a]) \in Nat
    BY DEF IsPaths
  <2>2. t + 1 >= Len(f[a]) /\ M + 1 >= Len(f[a])
    <3>1. Len(f[a]) - 1 <= M
      BY <1>1
    <3> QED  BY <1>1, <1>3, <2>1, <3>1
  <2> QED  BY <1>1, <2>1, <2>2, PathAtFacts
<1>4. ASSUME NEW a \in Agents, NEW b \in Agents, a # b, NEW t \in Nat
      PROVE  ~Meets(f, a, b, t) /\ ~Trades(f, a, b, t)
  <2>1. CASE t <= M
    BY <1>1, <1>2, <1>4, <2>1
  <2>2. CASE t > M
    <3>1. ~Meets(f, a, b, M)
      BY <1>1, <1>2, <1>4
    <3>2. /\ PathAt(f[a], t) = PathAt(f[a], M) /\ PathAt(f[b], t) = PathAt(f[b], M)
          /\ PathAt(f[b], t - 1) = PathAt(f[b], M)
      <4>1. t >= M /\ t - 1 >= M /\ t - 1 \in Nat
        BY <1>1, <2>2
      <4> QED  BY <1>3, <4>1
    <3> QED  BY <3>1, <3>2 DEF Meets, Trades
  <2> QED  BY <1>1, <2>1, <2>2
<1> QED  BY <1>4 DEF NeverCollide

LEMMA ObeysAny ==
    ASSUME NEW q, NEW cons, Obeys(q, cons)
    PROVE  Obeys(q, {})
BY DEF Obeys, MayMove

LEMMA FreeNodeIsASolution ==
    ASSUME NEW i \in Instances, NEW n, IsNode(n, i), Collisions(n.paths) = {}
    PROVE  IsSolution(n.paths, i)
<1>1. /\ IsPaths(n.paths)
      /\ \A a \in Agents : IsWay(n.paths[a], i.start[a], i.goal[a], n.cons[a])
  BY NodePaths
<1>2. \A a \in Agents : IsWay(n.paths[a], i.start[a], i.goal[a], {})
  BY <1>1, ObeysAny DEF IsWay
<1> QED  BY <1>1, <1>2, NoCollisionIsForEver DEF IsSolution

(* Two plans that are at the same places at all times.                      *)
LEMMA SamePlaces ==
    ASSUME NEW i \in Instances, NEW f, IsSolution(f, i), NEW g, IsPaths(g),
           \A a \in Agents : \A t \in Nat : PathAt(g[a], t) = PathAt(f[a], t),
           \A a \in Agents : g[a][Len(g[a])] = i.goal[a]
    PROVE  IsSolution(g, i)
<1>1. NeverCollide(g)
  <2> SUFFICES ASSUME NEW a \in Agents, NEW b \in Agents, a # b, NEW t \in Nat
               PROVE  ~Meets(g, a, b, t) /\ ~Trades(g, a, b, t)
    BY DEF NeverCollide
  <2>1. ~Meets(f, a, b, t) /\ ~Trades(f, a, b, t)
    BY DEF IsSolution, NeverCollide
  <2>2. PathAt(g[a], t) = PathAt(f[a], t) /\ PathAt(g[b], t) = PathAt(f[b], t)
    OBVIOUS
  <2>3. t > 0 => /\ PathAt(g[a], t - 1) = PathAt(f[a], t - 1)
                 /\ PathAt(g[b], t - 1) = PathAt(f[b], t - 1)
    <3>1. t > 0 => t - 1 \in Nat
      OBVIOUS
    <3> QED  BY <3>1
  <2> QED  BY <2>1, <2>2, <2>3 DEF Meets, Trades
<1>2. ASSUME NEW a \in Agents PROVE IsWay(g[a], i.start[a], i.goal[a], {})
  <2>1. IsWay(f[a], i.start[a], i.goal[a], {})
    BY DEF IsSolution
  <2>2. g[a] \in Seq(Free) /\ g[a] # <<>> /\ f[a] \in Seq(Free) /\ f[a] # <<>>
    BY <2>1 DEF IsPaths, IsWay
  <2>3. Obeys(g[a], {})
    <3> SUFFICES ASSUME NEW t \in Nat PROVE MayMove(PathAt(g[a], t), PathAt(g[a], t + 1), t, {})
      BY DEF Obeys
    <3>1. t + 1 \in Nat /\ MayMove(PathAt(f[a], t), PathAt(f[a], t + 1), t, {})
      BY <2>1 DEF IsWay, Obeys
    <3>2. PathAt(g[a], t) = PathAt(f[a], t) /\ PathAt(g[a], t + 1) = PathAt(f[a], t + 1)
      BY <3>1
    <3> QED  BY <3>1, <3>2
  <2>4. g[a][1] = f[a][1]
    <3>1. PathAt(g[a], 0) = PathAt(f[a], 0)
      OBVIOUS
    <3>2. Len(g[a]) \in Nat /\ Len(g[a]) > 0 /\ Len(f[a]) \in Nat /\ Len(f[a]) > 0
      BY <2>2
    <3>3. PathAt(g[a], 0) = g[a][1] /\ PathAt(f[a], 0) = f[a][1]
      BY <3>2 DEF PathAt
    <3> QED  BY <3>1, <3>3
  <2> QED  BY <2>1, <2>2, <2>3, <2>4 DEF IsWay
<1> QED  BY <1>1, <1>2 DEF IsSolution

(* Padding leaves everybody where they are at all times.                    *)
LEMMA PaddingStays ==
    ASSUME NEW i \in Instances, NEW f, IsPaths(f), \A a \in Agents : f[a][Len(f[a])] = i.goal[a]
    PROVE  /\ IsPaths(Padded(f))
           /\ \A a \in Agents : Padded(f)[a][Len(Padded(f)[a])] = i.goal[a]
           /\ \A a \in Agents : \A t \in Nat : PathAt(Padded(f)[a], t) = PathAt(f[a], t)
<1> DEFINE M == Makespan(f)
           g == Padded(f)
<1>1. IsPaths(f) /\ \A a \in Agents : f[a] \in Seq(Free) /\ f[a] # <<>> /\ f[a][Len(f[a])] = i.goal[a]
  BY DEF IsPaths
<1>2. M \in Nat /\ \A a \in Agents : Len(f[a]) - 1 <= M
  BY <1>1, MakespanIs
<1> HIDE DEF M
<1>3. ASSUME NEW a \in Agents
      PROVE  /\ g[a] \in Seq(Free) /\ g[a] # <<>> /\ Len(g[a]) = M + 1
             /\ \A j \in 1 .. M + 1 : g[a][j] = PathAt(f[a], j - 1)
  <2>1. g[a] = [j \in 1 .. M + 1 |-> PathAt(f[a], j - 1)]
    BY DEF Padded, M
  <2>2. ASSUME NEW j \in 1 .. M + 1 PROVE PathAt(f[a], j - 1) \in Free
    <3>1. j - 1 \in Nat
      BY <1>2
    <3>2. f[a] \in Seq(Free) /\ f[a] # <<>>
      BY <1>1
    <3> QED  BY <3>1, <3>2, PathAtFacts
  <2> HIDE DEF g
  <2>3. g[a] \in [1 .. M + 1 -> Free]
    BY <2>1, <2>2
  <2>4. g[a] \in Seq(Free) /\ Len(g[a]) = M + 1
    BY <1>2, <2>3
  <2>5. g[a] # <<>>
    BY <1>2, <2>4
  <2>6. \A j \in 1 .. M + 1 : g[a][j] = PathAt(f[a], j - 1)
    BY <2>1
  <2> QED  BY <2>4, <2>5, <2>6
<1>4. g = [a \in Agents |-> g[a]]
  BY DEF Padded
<1> HIDE DEF g
<1>5. IsPaths(g)
  BY <1>3, <1>4 DEF IsPaths
<1>6. ASSUME NEW a \in Agents, NEW t \in Nat, t >= M PROVE PathAt(f[a], t) = i.goal[a]
  <2>1. f[a] \in Seq(Free) /\ f[a] # <<>> /\ Len(f[a]) \in Nat
    BY <1>1
  <2>2. t + 1 >= Len(f[a])
    <3>1. Len(f[a]) - 1 <= M
      BY <1>2
    <3> QED  BY <1>2, <1>6, <2>1, <3>1
  <2> QED  BY <1>1, <2>1, <2>2, PathAtFacts
<1>7. ASSUME NEW a \in Agents PROVE g[a][Len(g[a])] = i.goal[a]
  <2>1. g[a][M + 1] = PathAt(f[a], (M + 1) - 1) /\ (M + 1) - 1 = M /\ M >= M
    <3>1. M + 1 \in 1 .. M + 1
      BY <1>2
    <3> QED  BY <1>2, <1>3, <3>1
  <2> QED  BY <1>2, <1>3, <1>6, <2>1
<1>8. ASSUME NEW a \in Agents, NEW t \in Nat PROVE PathAt(g[a], t) = PathAt(f[a], t)
  <2>1. CASE t < M + 1
    <3>1. t < Len(g[a]) /\ t + 1 \in 1 .. M + 1 /\ (t + 1) - 1 = t
      BY <1>2, <1>3, <2>1
    <3>2. PathAt(g[a], t) = g[a][t + 1]
      BY <3>1 DEF PathAt
    <3>3. g[a][t + 1] = PathAt(f[a], (t + 1) - 1)
      BY <1>3, <3>1
    <3> QED  BY <3>1, <3>2, <3>3
  <2>2. CASE t >= M + 1
    <3>1. ~(t < Len(g[a])) /\ t >= M
      BY <1>2, <1>3, <2>2
    <3>2. PathAt(g[a], t) = g[a][Len(g[a])]
      BY <3>1 DEF PathAt
    <3> QED  BY <1>6, <1>7, <3>1, <3>2
  <2> QED  BY <1>2, <2>1, <2>2
<1> QED  BY <1>5, <1>7, <1>8 DEF g

LEMMA PaddedIsASolution ==
    ASSUME NEW i \in Instances, NEW f, IsSolution(f, i)
    PROVE  IsSolution(Padded(f), i)
<1>1. IsPaths(f) /\ \A a \in Agents : f[a][Len(f[a])] = i.goal[a]
  BY DEF IsSolution, IsWay
<1> QED  BY <1>1, PaddingStays, SamePlaces

(* A node whose padded paths are a solution has no collision itself.        *)
LEMMA UnpaddedIsASolution ==
    ASSUME NEW i \in Instances, NEW n, IsNode(n, i), Padded(n.paths) \in Solutions(i)
    PROVE  IsSolution(n.paths, i)
<1> DEFINE f == n.paths
           g == Padded(f)
<1>1. IsPaths(f) /\ \A a \in Agents : f[a][Len(f[a])] = i.goal[a]
  BY NodePaths DEF IsWay
<1>2. IsSolution(g, i)
  BY VerdictCoversAllTimes
<1>3. \A a \in Agents : \A t \in Nat : PathAt(f[a], t) = PathAt(g[a], t)
  BY <1>1, PaddingStays
<1> HIDE DEF f, g
<1>4. IsSolution(f, i)
  BY <1>1, <1>2, <1>3, SamePlaces
<1> QED  BY <1>4 DEF f

(* A node that a solution obeys is no dearer than the solution.             *)
LEMMA NodeIsCheaper ==
    ASSUME NEW i \in Instances, NEW n, IsNode(n, i), NEW f, IsSolution(f, i),
           \A a \in Agents : Obeys(f[a], n.cons[a])
    PROVE  n.cost <= CostOf(f)
<1> DEFINE u == [a \in Agents |-> NodePathCost(n.paths[a])]
           v == [a \in Agents |-> NodePathCost(f[a])]
<1>1. IsPaths(n.paths) /\ IsPaths(f)
  BY NodePaths DEF IsSolution
<1>2. ASSUME NEW a \in Agents PROVE u[a] <= v[a]
  <2>1. IsWay(f[a], i.start[a], i.goal[a], n.cons[a])
    BY DEF IsSolution, IsWay
  <2>2. /\ IsConstraints(n.cons[a]) /\ Tight(n.cons[a], i.start[a], i.goal[a])
        /\ n.paths[a] \in LowLevel(i.start[a], i.goal[a], n.cons[a])
    BY DEF IsNode
  <2>3. Latest(n.cons[a]) <= Len(f[a]) - 1
    BY <2>1, <2>2 DEF Tight
  <2>4. Len(f[a]) \in Nat /\ Len(n.paths[a]) \in Nat /\ Latest(n.cons[a]) \in Nat
    BY <1>1, <2>2, LatestTouches DEF IsPaths
  <2>5. Len(f[a]) - 1 >= Latest(n.cons[a])
    BY <2>3, <2>4
  <2>6. i.start[a] \in Free /\ i.goal[a] \in Free
    BY InstanceCells
  <2>7. Len(n.paths[a]) <= Len(f[a])
    BY <2>1, <2>2, <2>5, <2>6, ShortestIsFound
  <2> QED  BY <2>4, <2>7 DEF NodePathCost
<1>3. /\ \A a \in Agents : u[a] \in Nat /\ v[a] \in Nat
      /\ CostOf(n.paths) = SumFunctionOnSet(u, Agents) /\ CostOf(f) = SumFunctionOnSet(v, Agents)
  BY <1>1, CostsAre
<1> HIDE DEF u, v
<1>4. SumFunctionOnSet(u, Agents) <= SumFunctionOnSet(v, Agents)
  <2>1. \A a \in Agents : u[a] \in Int /\ v[a] \in Int /\ u[a] <= v[a]
    BY <1>2, <1>3
  <2> QED  BY <2>1, AgentsAssumption, SumMonotone
<1> QED  BY <1>3, <1>4 DEF IsNode

(* No solution breaks both of the constraints a collision gives rise to.    *)
LEMMA SplitKeepsSolutions ==
    ASSUME NEW paths, IsPaths(paths), NEW x \in Collisions(paths), NEW f, NeverCollide(f),
           NEW c2, Obeys(f[x[2]], c2), NEW c3, Obeys(f[x[3]], c3)
    PROVE  \/ Obeys(f[x[2]], c2 \cup {NewConstraint(paths, x, x[2])})
           \/ Obeys(f[x[3]], c3 \cup {NewConstraint(paths, x, x[3])})
<1> DEFINE a == x[2]
           b == x[3]
           t == x[1]
<1>1. /\ t \in Nat /\ a \in Agents /\ b \in Agents /\ a # b
      /\ Meets(paths, a, b, t) \/ Trades(paths, a, b, t)
  BY CollisionsAre
<1>2. ~Meets(f, a, b, t) /\ ~Trades(f, a, b, t)
  BY <1>1 DEF NeverCollide
<1> HIDE DEF a, b, t
<1>3. CASE Meets(paths, a, b, t)
  <2> DEFINE d == PathAt(paths[a], t)
  <2>1. /\ NewConstraint(paths, x, a) = VertexConstraint(d, t)
        /\ NewConstraint(paths, x, b) = VertexConstraint(d, t)
    BY <1>3 DEF NewConstraint, Meets, a, b, t
  <2> HIDE DEF d
  <2>2. PathAt(f[a], t) # d \/ PathAt(f[b], t) # d
    BY <1>2 DEF Meets
  <2>3. ASSUME NEW q, NEW cons, Obeys(q, cons), PathAt(q, t) # d
        PROVE  Obeys(q, cons \cup {VertexConstraint(d, t)})
    <3> SUFFICES ASSUME NEW s \in Nat
                 PROVE  MayMove(PathAt(q, s), PathAt(q, s + 1), s, cons \cup {VertexConstraint(d, t)})
      BY DEF Obeys
    <3>1. MayMove(PathAt(q, s), PathAt(q, s + 1), s, cons)
      BY <2>3 DEF Obeys
    <3>2. VertexConstraint(PathAt(q, s + 1), s + 1) # VertexConstraint(d, t)
      BY <2>3 DEF VertexConstraint
    <3>3. EdgeConstraint(PathAt(q, s), PathAt(q, s + 1), s) # VertexConstraint(d, t)
      BY DEF VertexConstraint, EdgeConstraint
    <3> QED  BY <3>1, <3>2, <3>3 DEF MayMove
  <2> QED  BY <2>1, <2>2, <2>3 DEF a, b
<1>4. CASE ~Meets(paths, a, b, t)
  <2> DEFINE d == PathAt(paths[a], t)
             e == PathAt(paths[a], t - 1)
  <2>1. t > 0 /\ PathAt(paths[b], t - 1) = d /\ PathAt(paths[b], t) = e
    BY <1>1, <1>4 DEF Trades
  <2>2. /\ NewConstraint(paths, x, a) = EdgeConstraint(e, d, t - 1)
        /\ NewConstraint(paths, x, b) = EdgeConstraint(d, e, t - 1)
    BY <1>4, <2>1 DEF NewConstraint, a, b, t
  <2> HIDE DEF d, e
  <2>3. \/ ~(PathAt(f[a], t - 1) = e /\ PathAt(f[a], t) = d)
        \/ ~(PathAt(f[b], t - 1) = d /\ PathAt(f[b], t) = e)
    BY <1>2, <2>1 DEF Trades
  <2>4. ASSUME NEW q, NEW cons, Obeys(q, cons), NEW g, NEW h,
               ~(PathAt(q, t - 1) = g /\ PathAt(q, t) = h)
        PROVE  Obeys(q, cons \cup {EdgeConstraint(g, h, t - 1)})
    <3> SUFFICES ASSUME NEW s \in Nat
                 PROVE  MayMove(PathAt(q, s), PathAt(q, s + 1), s,
                                cons \cup {EdgeConstraint(g, h, t - 1)})
      BY DEF Obeys
    <3>1. MayMove(PathAt(q, s), PathAt(q, s + 1), s, cons)
      BY <2>4 DEF Obeys
    <3>2. EdgeConstraint(PathAt(q, s), PathAt(q, s + 1), s) # EdgeConstraint(g, h, t - 1)
      <4> SUFFICES ASSUME EdgeConstraint(PathAt(q, s), PathAt(q, s + 1), s) = EdgeConstraint(g, h, t - 1)
                   PROVE  FALSE
        OBVIOUS
      <4>1. PathAt(q, s) = g /\ PathAt(q, s + 1) = h /\ s = t - 1
        BY DEF EdgeConstraint
      <4>2. s + 1 = t
        BY <1>1, <4>1
      <4> QED  BY <2>4, <4>1, <4>2
    <3>3. VertexConstraint(PathAt(q, s + 1), s + 1) # EdgeConstraint(g, h, t - 1)
      BY DEF VertexConstraint, EdgeConstraint
    <3> QED  BY <3>1, <3>2, <3>3 DEF MayMove
  <2>5. CASE ~(PathAt(f[a], t - 1) = e /\ PathAt(f[a], t) = d)
    <3>1. Obeys(f[a], c2 \cup {EdgeConstraint(e, d, t - 1)})
      <4>1. Obeys(f[a], c2)
        BY DEF a
      <4> QED  BY <2>4, <2>5, <4>1
    <3> QED  BY <2>2, <3>1 DEF a
  <2>6. CASE ~(PathAt(f[b], t - 1) = d /\ PathAt(f[b], t) = e)
    <3>1. Obeys(f[b], c3 \cup {EdgeConstraint(d, e, t - 1)})
      <4>1. Obeys(f[b], c3)
        BY DEF b
      <4> QED  BY <2>4, <2>6, <4>1
    <3> QED  BY <2>2, <3>1 DEF b
  <2> QED  BY <2>3, <2>5, <2>6
<1> QED  BY <1>3, <1>4

-----------------------------------------------------------------------------
(* The sum of costs of a plan, which does not count the waits at its end.   *)
SumOfCosts(f, goal) == SumFunction([a \in Agents |-> PathCost(f[a], goal[a])])

LEMMA PathCostIs ==
    ASSUME NEW S, NEW p \in Seq(S), p # <<>>, NEW goal, p[Len(p)] = goal
    PROVE  /\ PathCost(p, goal) \in 0 .. Len(p) - 1
           /\ \A t \in 1 .. Len(p) : t > PathCost(p, goal) => p[t] = goal
           /\ PathCost(p, goal) = 0 \/ p[PathCost(p, goal)] # goal
<1> DEFINE L == {t \in 1 .. Len(p) : p[t] # goal}
           D == {0} \cup L
<1>1. Len(p) \in Nat /\ Len(p) > 0
  OBVIOUS
<1>2. IsFiniteSet(D) /\ D \subseteq 0 .. Len(p) /\ Len(p) \notin D
  <2>1. D \subseteq 0 .. Len(p)
    BY <1>1
  <2>2. IsFiniteSet(0 .. Len(p))
    BY <1>1, FS_Interval
  <2>3. Len(p) \notin D
    BY <1>1
  <2> HIDE DEF D
  <2> QED  BY <2>1, <2>2, <2>3, FS_Subset
<1>3. PathCost(p, goal) = Max(D)
  BY DEF PathCost
<1>4. Max(D) \in D /\ \A t \in D : t <= Max(D)
  <2> HIDE DEF D
  <2>1. D # {}
    BY DEF D
  <2>2. D \subseteq Int
    BY <1>1, <1>2
  <2> QED  BY <1>2, <2>1, <2>2, LargestExists
<1> DEFINE m == Max(D)
<1>5. m \in 0 .. Len(p) - 1
  <2>1. m \in 0 .. Len(p) /\ m # Len(p)
    <3> HIDE DEF D
    <3> QED  BY <1>2, <1>4
  <2> HIDE DEF m
  <2> QED  BY <1>1, <2>1
<1>6. \A t \in 1 .. Len(p) : t > m => p[t] = goal
  <2> SUFFICES ASSUME NEW t \in 1 .. Len(p), t > m, p[t] # goal PROVE FALSE
    OBVIOUS
  <2>1. t \in D
    OBVIOUS
  <2>2. t <= m
    BY <1>4, <2>1
  <2>3. m \in Int /\ t \in Int
    BY <1>1, <1>5
  <2> HIDE DEF m
  <2> QED  BY <2>2, <2>3
<1>7. m = 0 \/ p[m] # goal
  <2>1. m \in D
    BY <1>4
  <2> HIDE DEF m
  <2> QED  BY <2>1
<1> HIDE DEF D
<1> QED  BY <1>3, <1>5, <1>6, <1>7

(* A path without the waits at its end.                                     *)
Trimmed(f, i) == [a \in Agents |-> SubSeq(f[a], 1, PathCost(f[a], i.goal[a]) + 1)]

LEMMA TrimmedIsASolution ==
    ASSUME NEW i \in Instances, NEW f, IsSolution(f, i)
    PROVE  IsSolution(Trimmed(f, i), i) /\ CostOf(Trimmed(f, i)) = SumOfCosts(f, i.goal)
<1> DEFINE g == Trimmed(f, i)
<1>1. ASSUME NEW a \in Agents
      PROVE  /\ g[a] \in Seq(Free) /\ g[a] # <<>> /\ g[a][Len(g[a])] = i.goal[a]
             /\ NodePathCost(g[a]) = PathCost(f[a], i.goal[a])
             /\ \A t \in Nat : PathAt(g[a], t) = PathAt(f[a], t)
  <2> DEFINE p == f[a]
             c == PathCost(p, i.goal[a])
             q == SubSeq(p, 1, c + 1)
  <2>1. p \in Seq(Free) /\ p # <<>> /\ p[Len(p)] = i.goal[a]
    BY DEF IsSolution, IsWay
  <2>2. Len(p) \in Nat /\ Len(p) > 0
    BY <2>1
  <2>3. c \in 0 .. Len(p) - 1 /\ \A t \in 1 .. Len(p) : t > c => p[t] = i.goal[a]
    BY <2>1, PathCostIs
  <2>4. g[a] = q
    BY DEF Trimmed
  <2> HIDE DEF p, c, g
  <2>5. c \in Nat /\ c + 1 \in 1 .. Len(p) /\ c + 1 > c
    BY <2>2, <2>3
  <2>6. q \in Seq(Free) /\ Len(q) = c + 1 /\ \A j \in 1 .. c + 1 : q[j] = p[j]
    <3>1. 1 \in 1 .. Len(p)
      BY <2>2
    <3> QED  BY <2>1, <2>2, <2>5, <3>1
  <2> HIDE DEF q
  <2>7. q # <<>> /\ q[Len(q)] = i.goal[a] /\ NodePathCost(q) = c
    <3>1. q[c + 1] = p[c + 1] /\ p[c + 1] = i.goal[a]
      <4>1. c + 1 \in 1 .. c + 1
        BY <2>5
      <4> QED  BY <2>3, <2>5, <2>6, <4>1
    <3>2. (c + 1) - 1 = c /\ c + 1 > 0
      BY <2>5
    <3> QED  BY <2>6, <3>1, <3>2 DEF NodePathCost
  <2>8. ASSUME NEW t \in Nat PROVE PathAt(q, t) = PathAt(p, t)
    <3>1. CASE t < c + 1
      <4>1. t < Len(q) /\ t < Len(p) /\ t + 1 \in 1 .. c + 1
        BY <2>2, <2>5, <2>6, <3>1
      <4>2. PathAt(q, t) = q[t + 1] /\ PathAt(p, t) = p[t + 1]
        BY <4>1 DEF PathAt
      <4> QED  BY <2>6, <4>1, <4>2
    <3>2. CASE t >= c + 1
      <4>1. PathAt(q, t) = i.goal[a]
        <5>1. ~(t < Len(q))
          BY <2>5, <2>6, <3>2
        <5> QED  BY <2>7, <5>1 DEF PathAt
      <4>2. CASE t < Len(p)
        <5>1. t + 1 \in 1 .. Len(p) /\ t + 1 > c
          BY <2>2, <2>5, <3>2, <4>2
        <5>2. PathAt(p, t) = p[t + 1]
          BY <4>2 DEF PathAt
        <5> QED  BY <2>3, <4>1, <5>1, <5>2
      <4>3. CASE ~(t < Len(p))
        BY <2>1, <4>1, <4>3 DEF PathAt
      <4> QED  BY <4>2, <4>3
    <3> QED  BY <2>5, <3>1, <3>2
  <2> QED  BY <2>4, <2>6, <2>7, <2>8 DEF c, p
<1>2. g = [a \in Agents |-> g[a]]
  BY DEF Trimmed
<1> HIDE DEF g
<1>3. IsPaths(g)
  BY <1>1, <1>2 DEF IsPaths
<1>4. IsSolution(g, i)
  BY <1>1, <1>3, SamePlaces
<1>5. CostOf(g) = SumOfCosts(f, i.goal)
  <2>1. [a \in Agents |-> NodePathCost(g[a])] = [a \in Agents |-> PathCost(f[a], i.goal[a])]
    BY <1>1
  <2> QED  BY <2>1 DEF CostOf, SumOfCosts
<1> QED  BY <1>4, <1>5 DEF g

(* Padding adds no cost.                                                    *)
LEMMA SumOfCostsIs ==
    ASSUME NEW i \in Instances, NEW f, IsSolution(f, i)
    PROVE  SumOfCosts(f, i.goal) \in Int
<1> DEFINE g == Trimmed(f, i)
<1>1. IsSolution(g, i) /\ CostOf(g) = SumOfCosts(f, i.goal)
  BY TrimmedIsASolution
<1> HIDE DEF g
<1>2. CostOf(g) \in Int
  BY <1>1, CostsAre DEF IsSolution
<1> QED  BY <1>1, <1>2

LEMMA PaddingIsFree ==
    ASSUME NEW i \in Instances, NEW f, IsSolution(f, i)
    PROVE  SumOfCosts(Padded(f), i.goal) <= CostOf(f)
<1> DEFINE g == Padded(f)
           u == [a \in Agents |-> PathCost(g[a], i.goal[a])]
           v == [a \in Agents |-> NodePathCost(f[a])]
           M == Makespan(f)
<1>1. IsPaths(f) /\ IsSolution(g, i)
  BY PaddedIsASolution DEF IsSolution
<1>2. (\A a \in Agents : v[a] \in Nat) /\ CostOf(f) = SumFunctionOnSet(v, Agents)
  BY <1>1, CostsAre
<1>3. SumOfCosts(g, i.goal) = SumFunctionOnSet(u, Agents)
  <2>1. SumOfCosts(g, i.goal) = SumFunction(u) /\ DOMAIN u = Agents
    BY DEF SumOfCosts
  <2> HIDE DEF u, g
  <2> QED  BY <2>1, SumWhole
<1>4. ASSUME NEW a \in Agents PROVE u[a] \in Int /\ u[a] <= v[a]
  <2> DEFINE p == f[a]
             q == g[a]
             c == PathCost(q, i.goal[a])
  <2>1. p \in Seq(Free) /\ p # <<>> /\ p[Len(p)] = i.goal[a] /\ q \in Seq(Free) /\ q # <<>>
        /\ q[Len(q)] = i.goal[a]
    BY <1>1 DEF IsSolution, IsWay
  <2>2. Len(p) \in Nat /\ Len(p) > 0 /\ Len(q) \in Nat
    BY <2>1
  <2>3. c \in 0 .. Len(q) - 1 /\ (c = 0 \/ q[c] # i.goal[a])
    BY <2>1, PathCostIs
  <2>4. M \in Nat
    BY <1>1, MakespanIs
  <2>5. Len(q) = M + 1 /\ \A j \in 1 .. M + 1 : q[j] = PathAt(p, j - 1)
    <3> HIDE DEF M
    <3>1. q = [j \in 1 .. M + 1 |-> PathAt(p, j - 1)]
      BY DEF Padded, M
    <3> HIDE DEF q, p
    <3>2. Len(q) = M + 1
      <4>1. DOMAIN q = 1 .. M + 1
        BY <3>1
      <4>2. DOMAIN q = 1 .. Len(q) /\ Len(q) \in Nat
        BY <2>1
      <4> QED  BY <2>4, <4>1, <4>2
    <3> QED  BY <3>1, <3>2
  <2>6. u[a] = c /\ v[a] = Len(p) - 1
    BY DEF NodePathCost
  <2> HIDE DEF u, v, p, q, c, M
  <2>7. c \in Nat /\ c <= M
    BY <2>2, <2>3, <2>4, <2>5
  <2>8. c <= Len(p) - 1
    <3> SUFFICES ASSUME c > Len(p) - 1 PROVE FALSE
      BY <2>2, <2>7
    <3>1. c >= 1 /\ c \in 1 .. M + 1 /\ c - 1 \in Nat /\ (c - 1) + 1 >= Len(p)
      BY <2>2, <2>4, <2>7
    <3>2. PathAt(p, c - 1) = i.goal[a]
      BY <2>1, <3>1, PathAtFacts
    <3> QED  BY <2>3, <2>5, <2>7, <3>1, <3>2
  <2> QED  BY <2>6, <2>7, <2>8
<1> HIDE DEF u, v, g
<1>5. SumFunctionOnSet(u, Agents) <= SumFunctionOnSet(v, Agents)
  <2>1. \A a \in Agents : u[a] \in Int /\ v[a] \in Int /\ u[a] <= v[a]
    BY <1>2, <1>4
  <2> QED  BY <2>1, AgentsAssumption, SumMonotone
<1> QED  BY <1>2, <1>3, <1>5 DEF g

-----------------------------------------------------------------------------
(* The inductive invariant.                                                 *)

(* A success is a plan the verifier accepts, its cost is that plan's sum of *)
(* costs, and no plan the verifier accepts has a smaller one                *)
(* (cbs.hpp:16-18, 62-64).                                                  *)
SuccessIsBest ==
    answer.success =>
        /\ answer.plan \in Solutions(task)
        /\ answer.cost = SumOfCosts(answer.plan, task.goal)
        /\ \A f \in Solutions(task) : answer.cost <= SumOfCosts(f, task.goal)

(* A plan handed out when time is up, which nobody has looked at, costs no  *)
(* more than any plan the verifier accepts; should the verifier accept this *)
(* one, its cost is that plan's sum of costs, and it is optimal             *)
(* (cbs.hpp:56-58, 304-310).                                                *)
TimeoutIsABound ==
    answer.timeout =>
        /\ answer.cost \in Int
        /\ \A f \in Solutions(task) : answer.cost <= SumOfCosts(f, task.goal)
        /\ answer.plan \in Solutions(task) => answer.cost = SumOfCosts(answer.plan, task.goal)

(* With budget and time left, only an instance nobody can solve is refused. *)
RefusalIsRight ==
    pc = "done" /\ ~answer.success /\ ~answer.timeout /\ expansions < MaxExpansions =>
        Solutions(task) = {}

(* Every solution obeys the constraints of some open node.                  *)
Follows(f, n) == \A a \in Agents : Obeys(f[a], n.cons[a])

NoSolutionIsLost ==
    pc = "search" =>
        \A f \in Solutions(task) : \E n \in open : Follows(f, n)

CbsInv ==
    /\ task \in Instances
    /\ IsFiniteSet(open) /\ \A n \in open : IsNode(n, task)
    /\ counter \in Nat
    /\ pc \in {"root", "search", "done"}
    /\ pc = "root" => open = {}
    /\ pc # "done" => answer = NoAnswer
    /\ NoSolutionIsLost
    /\ SuccessIsBest
    /\ TimeoutIsABound
    /\ RefusalIsRight

LEMMA NoConstraints ==
    ASSUME NEW start, NEW goal
    PROVE  IsConstraints({}) /\ Latest({}) = 0 /\ Tight({}, start, goal)
<1>1. IsConstraints({})
  BY FS_EmptySet DEF IsConstraints
<1>2. Latest({}) = 0
  BY <1>1, LatestTouches
<1>3. ASSUME NEW q, IsWay(q, start, goal, {}) PROVE 0 <= Len(q) - 1
  <2>1. q \in Seq(Free) /\ q # <<>>
    BY <1>3 DEF IsWay
  <2> QED  BY <2>1
<1> QED  BY <1>1, <1>2, <1>3 DEF Tight

(* The node whose agents all go their own way.                              *)
LEMMA RootIsANode ==
    ASSUME task \in Instances, NEW n, NEW paths,
           n = [cons |-> [a \in Agents |-> {}], paths |-> paths, cost |-> CostOf(paths), order |-> 0],
           paths = [a \in Agents |-> paths[a]], \A a \in Agents : paths[a] \in PlanAgent(a, {})
    PROVE  IsNode(n, task) /\ \A a \in Agents : n.cons[a] = {}
<1>1. /\ n.cons = [a \in Agents |-> {}] /\ n.paths = paths /\ n.cost = CostOf(paths)
      /\ n.order = 0
  OBVIOUS
<1>2. ASSUME NEW a \in Agents
      PROVE  /\ IsConstraints(n.cons[a]) /\ Tight(n.cons[a], task.start[a], task.goal[a])
             /\ n.paths[a] \in LowLevel(task.start[a], task.goal[a], n.cons[a])
  <2>1. n.cons[a] = {} /\ n.paths[a] = paths[a]
    BY <1>1
  <2>2. paths[a] \in LowLevel(task.start[a], task.goal[a], {})
    BY DEF PlanAgent
  <2> QED  BY <2>1, <2>2, NoConstraints
<1>3. n.cons = [a \in Agents |-> n.cons[a]] /\ n.paths = [a \in Agents |-> n.paths[a]]
  BY <1>1
<1>4. \A a \in Agents : n.cons[a] = {}
  BY <1>1
<1> QED  BY <1>1, <1>2, <1>3, <1>4 DEF IsNode

LEMMA InvInit == Init => CbsInv
<1> SUFFICES ASSUME Init PROVE CbsInv
  OBVIOUS
<1>1. IsFiniteSet(open) /\ \A n \in open : IsNode(n, task)
  BY FS_EmptySet DEF Init
<1>2. ~answer.success /\ ~answer.timeout
  BY DEF Init, NoAnswer
<1> QED  BY <1>1, <1>2 DEF Init, CbsInv, NoSolutionIsLost, SuccessIsBest, TimeoutIsABound, RefusalIsRight

LEMMA RootKeepsInv == CbsInv /\ Root => CbsInv'
<1> SUFFICES ASSUME CbsInv, Root PROVE CbsInv'
  OBVIOUS
<1>1. PICK found \in {[a \in Agents |-> PlanAgent(a, {})]} :
      \E paths \in {f \in [Agents -> UNION {found[a] : a \in Agents}] :
                        \A a \in Agents : f[a] \in found[a]} :
         open' = {[cons |-> [a \in Agents |-> {}], paths |-> paths,
                   cost |-> CostOf(paths), order |-> 0]}
  BY DEF Root
<1>2. PICK paths \in {f \in [Agents -> UNION {found[a] : a \in Agents}] :
                        \A a \in Agents : f[a] \in found[a]} :
         open' = {[cons |-> [a \in Agents |-> {}], paths |-> paths,
                   cost |-> CostOf(paths), order |-> 0]}
  BY <1>1
<1> DEFINE n == [cons |-> [a \in Agents |-> {}], paths |-> paths, cost |-> CostOf(paths), order |-> 0]
<1>3. paths = [a \in Agents |-> paths[a]] /\ \A a \in Agents : paths[a] \in PlanAgent(a, {})
  <2>1. found = [a \in Agents |-> PlanAgent(a, {})]
    BY <1>1
  <2>2. paths = [a \in Agents |-> paths[a]]
    BY <1>2
  <2> QED  BY <1>2, <2>1, <2>2
<1>4. task \in Instances
  BY DEF CbsInv
<1>5. open' = {n}
  BY <1>2
<1>6. IsNode(n, task) /\ \A a \in Agents : n.cons[a] = {}
  <2> DEFINE m == n
  <2>1. m = [cons |-> [a \in Agents |-> {}], paths |-> paths, cost |-> CostOf(paths), order |-> 0]
    OBVIOUS
  <2> HIDE DEF m
  <2>2. IsNode(m, task) /\ \A a \in Agents : m.cons[a] = {}
    BY <1>3, <1>4, <2>1, RootIsANode
  <2> QED  BY <2>2 DEF m
<1> HIDE DEF n
<1>7. /\ task' = task /\ counter' = 1 /\ pc' = "search" /\ answer' = answer /\ answer = NoAnswer
  BY DEF Root, CbsInv
<1>8. IsFiniteSet(open')
  BY <1>5, FS_Singleton
<1>9. \A f \in Solutions(task) : \A a \in Agents : Obeys(f[a], n.cons[a])
  <2> TAKE f \in Solutions(task)
  <2>1. IsSolution(f, task)
    BY <1>4, VerdictCoversAllTimes
  <2> QED  BY <1>6, <2>1 DEF IsSolution, IsWay
<1>10. NoSolutionIsLost'
  BY <1>5, <1>7, <1>9 DEF Follows, NoSolutionIsLost
<1>11. ~answer'.success /\ ~answer'.timeout
  BY <1>7 DEF NoAnswer
<1>12. SuccessIsBest' /\ TimeoutIsABound' /\ RefusalIsRight'
  BY <1>7, <1>11 DEF SuccessIsBest, TimeoutIsABound, RefusalIsRight
<1>13. \A m \in open' : IsNode(m, task')
  BY <1>5, <1>6, <1>7
<1> QED  BY <1>4, <1>7, <1>8, <1>10, <1>12, <1>13 DEF CbsInv

LEMMA RootFailsKeepsInv == CbsInv /\ RootFails => CbsInv'
<1> SUFFICES ASSUME CbsInv, RootFails PROVE CbsInv'
  OBVIOUS
<1>1. /\ task \in Instances /\ task' = task /\ open' = open /\ counter' = counter /\ pc' = "done"
      /\ answer' = answer /\ answer = NoAnswer
  BY DEF RootFails, CbsInv
<1>2. Solutions(task) = {}
  <2> SUFFICES ASSUME NEW f \in Solutions(task) PROVE FALSE
    OBVIOUS
  <2>1. PICK a \in Agents : PlanAgent(a, {}) = {}
    BY DEF RootFails
  <2>2. IsWay(f[a], task.start[a], task.goal[a], {})
    BY <1>1, VerdictCoversAllTimes DEF IsSolution
  <2>3. IsConstraints({}) /\ Latest({}) = 0 /\ Tight({}, task.start[a], task.goal[a])
    BY NoConstraints
  <2>4. Len(f[a]) - 1 >= Latest({})
    <3>1. Latest({}) <= Len(f[a]) - 1
      BY <2>2, <2>3 DEF Tight
    <3>2. Len(f[a]) \in Nat
      BY <2>2 DEF IsWay
    <3> QED  BY <2>3, <3>1, <3>2
  <2>5. task.start[a] \in Free /\ task.goal[a] \in Free
    BY <1>1, InstanceCells
  <2>6. LowLevel(task.start[a], task.goal[a], {}) # {}
    BY <2>2, <2>3, <2>4, <2>5, ShortestIsFound
  <2> QED  BY <2>1, <2>6 DEF PlanAgent
<1>3. RefusalIsRight' /\ NoSolutionIsLost'
  BY <1>1, <1>2 DEF RefusalIsRight, NoSolutionIsLost
<1>4. ~answer'.success /\ ~answer'.timeout
  BY <1>1 DEF NoAnswer
<1>5. SuccessIsBest' /\ TimeoutIsABound'
  BY <1>4 DEF SuccessIsBest, TimeoutIsABound
<1>6. IsFiniteSet(open') /\ \A n \in open' : IsNode(n, task')
  BY <1>1 DEF CbsInv
<1>7. counter' \in Nat
  BY <1>1 DEF CbsInv
<1> QED  BY <1>1, <1>3, <1>5, <1>6, <1>7 DEF CbsInv

LEMMA GiveUpKeepsInv == CbsInv /\ GiveUp => CbsInv'
<1> SUFFICES ASSUME CbsInv, GiveUp PROVE CbsInv'
  OBVIOUS
<1>1. /\ task \in Instances /\ task' = task /\ open' = open /\ counter' = counter /\ pc' = "done"
      /\ answer' = answer /\ answer = NoAnswer /\ pc = "search" /\ expansions' = expansions
  BY DEF GiveUp, CbsInv
<1>2. ASSUME expansions < MaxExpansions PROVE Solutions(task) = {}
  <2>1. open = {}
    BY <1>1, <1>2 DEF GiveUp, Searching
  <2> QED  BY <1>1, <2>1 DEF CbsInv, NoSolutionIsLost
<1>3. RefusalIsRight' /\ NoSolutionIsLost'
  BY <1>1, <1>2 DEF RefusalIsRight, NoSolutionIsLost
<1>4. ~answer'.success /\ ~answer'.timeout
  BY <1>1 DEF NoAnswer
<1>5. SuccessIsBest' /\ TimeoutIsABound'
  BY <1>4 DEF SuccessIsBest, TimeoutIsABound
<1>6. IsFiniteSet(open') /\ \A n \in open' : IsNode(n, task')
  BY <1>1 DEF CbsInv
<1>7. counter' \in Nat
  BY <1>1 DEF CbsInv
<1> QED  BY <1>1, <1>3, <1>5, <1>6, <1>7 DEF CbsInv

(* The cheapest node is no dearer than any solution: a cheaper one would    *)
(* obey the constraints of another node, which would be cheaper.            *)
LEMMA TopIsABound ==
    ASSUME CbsInv, Searching
    PROVE  \A f \in Solutions(task) : Top.cost <= SumOfCosts(f, task.goal)
<1> SUFFICES ASSUME NEW f \in Solutions(task) PROVE Top.cost <= SumOfCosts(f, task.goal)
  OBVIOUS
<1> DEFINE n == Top
           g == Trimmed(f, task)
<1>1. task \in Instances /\ pc = "search" /\ open # {}
  BY DEF Searching, CbsInv
<1>2. n \in open /\ \A m \in open : m.cost \in Int /\ n.cost <= m.cost
  BY <1>1, TopIsLeast DEF CbsInv
<1> HIDE DEF n
<1>3. IsSolution(f, task)
  BY <1>1, VerdictCoversAllTimes
<1>4. IsSolution(g, task) /\ CostOf(g) = SumOfCosts(f, task.goal)
  BY <1>1, <1>3, TrimmedIsASolution
<1> HIDE DEF g
<1>5. g \in Solutions(task)
  BY <1>1, <1>4, SolutionsAreAccepted
<1>6. PICK m \in open : Follows(g, m)
  BY <1>1, <1>5 DEF CbsInv, NoSolutionIsLost
<1>7. IsNode(m, task)
  BY <1>6 DEF CbsInv
<1>8. m.cost <= CostOf(g)
  BY <1>1, <1>4, <1>6, <1>7, NodeIsCheaper DEF Follows
<1>9. n.cost \in Int /\ m.cost \in Int /\ n.cost <= m.cost /\ CostOf(g) \in Int
  BY <1>2, <1>4, <1>6, CostsAre DEF IsSolution
<1>10. n.cost <= SumOfCosts(f, task.goal)
  BY <1>4, <1>8, <1>9
<1> QED  BY <1>10 DEF n

(* So when its paths do not collide, its cost is what their padding costs.  *)
LEMMA TopCostsItsPlan ==
    ASSUME CbsInv, Searching, IsSolution(Top.paths, task)
    PROVE  /\ Padded(Top.paths) \in Solutions(task)
           /\ Top.cost = SumOfCosts(Padded(Top.paths), task.goal)
<1> DEFINE n == Top
           p == Padded(n.paths)
<1>1. task \in Instances /\ open # {}
  BY DEF Searching, CbsInv
<1>2. n \in open /\ n.cost \in Int
  BY <1>1, TopIsLeast DEF CbsInv
<1>3. IsNode(n, task)
  BY <1>2 DEF CbsInv
<1>4. \A f \in Solutions(task) : n.cost <= SumOfCosts(f, task.goal)
  BY TopIsABound
<1> HIDE DEF n
<1>5. IsSolution(p, task) /\ SumOfCosts(p, task.goal) <= CostOf(n.paths)
  BY <1>1, PaddedIsASolution, PaddingIsFree DEF n
<1> HIDE DEF p
<1>6. p \in Solutions(task)
  BY <1>1, <1>5, SolutionsAreAccepted
<1>7. n.cost = SumOfCosts(p, task.goal)
  <2>1. n.cost <= SumOfCosts(p, task.goal)
    BY <1>4, <1>6
  <2>2. n.cost = CostOf(n.paths)
    BY <1>3 DEF IsNode
  <2>3. SumOfCosts(p, task.goal) \in Int
    BY <1>1, <1>5, SumOfCostsIs
  <2> QED  BY <1>2, <1>5, <2>1, <2>2, <2>3
<1> QED  BY <1>6, <1>7 DEF n, p

LEMMA TimeoutKeepsInv == CbsInv /\ Timeout => CbsInv'
<1> SUFFICES ASSUME CbsInv, Timeout PROVE CbsInv'
  OBVIOUS
<1> DEFINE n == Top
           p == Padded(n.paths)
<1>1. /\ task \in Instances /\ task' = task /\ open' = open /\ counter' = counter /\ pc' = "done"
      /\ Searching /\ open # {}
  BY DEF Timeout, Searching, CbsInv
<1>2. ~answer'.success /\ answer'.timeout /\ answer'.plan = p /\ answer'.cost = n.cost
  BY DEF Timeout
<1>3. SuccessIsBest' /\ RefusalIsRight'
  BY <1>2 DEF SuccessIsBest, RefusalIsRight
<1>4. NoSolutionIsLost'
  BY <1>1 DEF NoSolutionIsLost
<1>5. IsFiniteSet(open') /\ \A m \in open' : IsNode(m, task')
  BY <1>1 DEF CbsInv
<1>6. counter' \in Nat
  BY <1>1 DEF CbsInv
<1>7. n.cost \in Int /\ \A f \in Solutions(task) : n.cost <= SumOfCosts(f, task.goal)
  BY <1>1, TopIsLeast, TopIsABound DEF CbsInv
<1>8. ASSUME p \in Solutions(task) PROVE n.cost = SumOfCosts(p, task.goal)
  <2>1. n \in open
    BY <1>1, TopIsLeast DEF CbsInv
  <2>2. IsNode(n, task)
    BY <2>1 DEF CbsInv
  <2>3. IsSolution(n.paths, task)
    BY <1>1, <1>8, <2>2, UnpaddedIsASolution
  <2> QED  BY <1>1, <2>3, TopCostsItsPlan
<1> HIDE DEF n, p
<1>9. TimeoutIsABound'
  BY <1>1, <1>2, <1>7, <1>8 DEF TimeoutIsABound
<1> QED  BY <1>1, <1>3, <1>4, <1>5, <1>6, <1>9 DEF CbsInv

(* The cheapest node without collisions is an optimal plan.                 *)
LEMMA SucceedKeepsInv == CbsInv /\ Succeed => CbsInv'
<1> SUFFICES ASSUME CbsInv, Succeed PROVE CbsInv'
  OBVIOUS
<1> DEFINE n == Top
           p == Padded(n.paths)
<1>1. /\ task \in Instances /\ task' = task /\ counter' = counter /\ pc' = "done" /\ Searching
      /\ open # {} /\ open' = open \ {n} /\ Collisions(n.paths) = {}
  BY DEF Succeed, Searching, CbsInv
<1>2. answer'.success /\ ~answer'.timeout /\ answer'.plan = p /\ answer'.cost = n.cost
  BY DEF Succeed
<1>3. n \in open
  BY <1>1, TopIsLeast DEF CbsInv
<1>4. IsNode(n, task)
  BY <1>3 DEF CbsInv
<1>5. IsSolution(n.paths, task)
  BY <1>1, <1>4, FreeNodeIsASolution
<1>6. \A f \in Solutions(task) : n.cost <= SumOfCosts(f, task.goal)
  BY <1>1, TopIsABound
<1>7. p \in Solutions(task) /\ n.cost = SumOfCosts(p, task.goal)
  BY <1>1, <1>5, TopCostsItsPlan
<1> HIDE DEF n, p
<1>10. SuccessIsBest' /\ TimeoutIsABound'
  BY <1>1, <1>2, <1>6, <1>7 DEF SuccessIsBest, TimeoutIsABound
<1>11. RefusalIsRight' /\ NoSolutionIsLost'
  BY <1>1, <1>2 DEF RefusalIsRight, NoSolutionIsLost
<1>12. IsFiniteSet(open') /\ \A m \in open' : IsNode(m, task')
  <2>1. IsFiniteSet(open')
    BY <1>1, FS_Subset DEF CbsInv
  <2> QED  BY <1>1, <2>1 DEF CbsInv
<1>13. counter' \in Nat
  BY <1>1 DEF CbsInv
<1> QED  BY <1>1, <1>10, <1>11, <1>12, <1>13 DEF CbsInv

(* The constraints on a of the child that constrains a.                     *)
More(n, x, a) == n.cons[a] \cup {NewConstraint(n.paths, x, a)}

LEMMA ChildKeepsSolution ==
    ASSUME task \in Instances, NEW n, IsNode(n, task), NEW x \in Collisions(n.paths),
           NEW a \in {x[2], x[3]}, NEW S \in Children(n, x, a), NEW k \in Nat,
           NEW f, IsSolution(f, task), Follows(f, n),
           Obeys(f[a], More(n, x, a))
    PROVE  \E m \in Numbered(S, k) : Follows(f, m)
<1> DEFINE c == NewConstraint(n.paths, x, a)
           more == n.cons[a] \cup {c}
           all == Constrained(n, x, a)
<1>1. IsPaths(n.paths) /\ a \in Agents
  BY NodePaths, CollisionsAre
<1>2. all[a] = more /\ \A b \in Agents \ {a} : all[b] = n.cons[b]
  <2>1. n.cons = [b \in Agents |-> n.cons[b]]
    BY DEF IsNode
  <2>2. all = [n.cons EXCEPT ![a] = more]
    BY DEF Constrained
  <2> HIDE DEF all, more
  <2> QED  BY <1>1, <2>1, <2>2
<1>3. IsConstraint(c) /\ Reaches(c, n.paths[a])
  BY <1>1, NewConstraintReaches
<1>4. /\ IsConstraints(n.cons[a]) /\ Tight(n.cons[a], task.start[a], task.goal[a])
      /\ n.paths[a] \in LowLevel(task.start[a], task.goal[a], n.cons[a])
      /\ task.start[a] \in Free /\ task.goal[a] \in Free
  BY <1>1, InstanceCells DEF IsNode
<1>5. Obeys(f[a], more)
  BY DEF More
<1>6. IsConstraints(more) /\ Tight(more, task.start[a], task.goal[a])
  <2> HIDE DEF c
  <2> QED  BY <1>3, <1>4, TightStays
<1> HIDE DEF more, all
<1>7. IsWay(f[a], task.start[a], task.goal[a], more)
  BY <1>1, <1>5 DEF IsSolution, IsWay
<1>8. Len(f[a]) - 1 >= Latest(more)
  <2>1. Latest(more) <= Len(f[a]) - 1
    BY <1>6, <1>7 DEF Tight
  <2>2. Len(f[a]) \in Nat /\ Latest(more) \in Nat
    BY <1>6, <1>7, LatestTouches DEF IsWay
  <2> QED  BY <2>1, <2>2
<1>9. LowLevel(task.start[a], task.goal[a], more) # {}
  BY <1>4, <1>6, <1>7, <1>8, ShortestIsFound
<1>10. PICK m \in Numbered(S, k) : m.cons = all
  <2>1. LowLevel(task.start[a], task.goal[a], all[a]) # {}
    BY <1>2, <1>9
  <2> QED  BY <2>1, ChildrenAreNodes DEF all
<1>11. ASSUME NEW b \in Agents PROVE Obeys(f[b], m.cons[b])
  BY <1>2, <1>5, <1>10, <1>11 DEF Follows
<1> QED  BY <1>10, <1>11 DEF Follows

LEMMA SplitKeepsInv == CbsInv /\ Split => CbsInv'
<1> SUFFICES ASSUME CbsInv, Split PROVE CbsInv'
  OBVIOUS
<1> DEFINE n == Top
           x == FirstCollision(n.paths)
<1>1. /\ task \in Instances /\ task' = task /\ pc' = pc /\ pc = "search" /\ answer' = answer
      /\ open # {} /\ Collisions(n.paths) # {} /\ answer = NoAnswer /\ counter \in Nat
  BY DEF Split, Searching, CbsInv
<1>2. n \in open
  BY <1>1, TopIsLeast DEF CbsInv
<1>3. IsNode(n, task)
  BY <1>2 DEF CbsInv
<1>4. IsPaths(n.paths)
  BY <1>1, <1>3, NodePaths
<1>5. x \in Collisions(n.paths)
  <2> HIDE DEF n
  <2> QED  BY <1>1, <1>4, FirstCollisionIsOne
<1>6. PICK left \in Children(n, x, x[2]), right \in Children(n, x, x[3]) :
        /\ open' = (open \ {n}) \cup Numbered(left, counter)
                                \cup Numbered(right, counter + Cardinality(left))
        /\ counter' = counter + Cardinality(left) + Cardinality(right)
  <2>1. \E left \in Children(n, x, x[2]), right \in Children(n, x, x[3]) :
        /\ open' = (open \ {n}) \cup Numbered(left, counter)
                                \cup Numbered(right, counter + Cardinality(left))
        /\ counter' = counter + Cardinality(left) + Cardinality(right)
    BY DEF Split
  <2> QED  BY <2>1
<1> HIDE DEF n, x
<1> DEFINE A == Numbered(left, counter)
           k == counter + Cardinality(left)
           B == Numbered(right, k)
<1>7. IsFiniteSet(A) /\ (\A m \in A : IsNode(m, task)) /\ Cardinality(left) \in Nat
  BY <1>1, <1>3, <1>5, ChildrenAreNodes
<1>8. k \in Nat
  BY <1>1, <1>7
<1>9. IsFiniteSet(B) /\ (\A m \in B : IsNode(m, task)) /\ Cardinality(right) \in Nat
  <2> HIDE DEF k
  <2> QED  BY <1>1, <1>3, <1>5, <1>8, ChildrenAreNodes
<1>10. open' = (open \ {n}) \cup A \cup B /\ counter' \in Nat
  BY <1>1, <1>6, <1>7, <1>9
<1>11. ASSUME NEW f \in Solutions(task)
       PROVE  \E m \in open' : Follows(f, m)
  <2>1. IsSolution(f, task)
    BY <1>1, VerdictCoversAllTimes
  <2>2. PICK m \in open : Follows(f, m)
    BY <1>1 DEF CbsInv, NoSolutionIsLost
  <2>3. CASE m # n
    <3>1. m \in open'
      BY <1>10, <2>2, <2>3
    <3> QED  BY <2>2, <3>1
  <2>4. CASE m = n
    <3>1. x[2] \in Agents /\ x[3] \in Agents
      BY <1>4, <1>5, CollisionsAre
    <3>2. Follows(f, n)
      BY <2>2, <2>4
    <3>3. \/ Obeys(f[x[2]], n.cons[x[2]] \cup {NewConstraint(n.paths, x, x[2])})
          \/ Obeys(f[x[3]], n.cons[x[3]] \cup {NewConstraint(n.paths, x, x[3])})
      <4>1. NeverCollide(f)
        BY <2>1 DEF IsSolution
      <4> QED  BY <1>4, <1>5, <3>1, <3>2, <4>1, SplitKeepsSolutions DEF Follows
    <3>4. CASE Obeys(f[x[2]], n.cons[x[2]] \cup {NewConstraint(n.paths, x, x[2])})
      <4>1. \E r \in Numbered(left, counter) : Follows(f, r)
        <5> DEFINE a == x[2]
        <5>1. a \in {x[2], x[3]} /\ left \in Children(n, x, a) /\ task \in Instances /\ counter \in Nat
          BY <1>1
        <5>2. Obeys(f[a], More(n, x, a))
          BY <3>4 DEF More
        <5> HIDE DEF a
        <5> QED  BY <1>3, <1>5, <2>1, <3>2, <5>1, <5>2, ChildKeepsSolution
      <4> QED  BY <1>10, <4>1
    <3>5. CASE Obeys(f[x[3]], n.cons[x[3]] \cup {NewConstraint(n.paths, x, x[3])})
      <4>1. \E r \in Numbered(right, k) : Follows(f, r)
        <5> DEFINE a == x[3]
        <5>1. a \in {x[2], x[3]} /\ right \in Children(n, x, a) /\ task \in Instances
          BY <1>1
        <5>2. Obeys(f[a], More(n, x, a))
          BY <3>5 DEF More
        <5> HIDE DEF a, k
        <5> QED  BY <1>3, <1>5, <1>8, <2>1, <3>2, <5>1, <5>2, ChildKeepsSolution
      <4> QED  BY <1>10, <4>1
    <3> QED  BY <3>3, <3>4, <3>5
  <2> QED  BY <2>3, <2>4
<1>12. NoSolutionIsLost'
  BY <1>1, <1>11 DEF NoSolutionIsLost
<1>13. ~answer'.success /\ ~answer'.timeout
  BY <1>1 DEF NoAnswer
<1>14. SuccessIsBest' /\ TimeoutIsABound' /\ RefusalIsRight'
  BY <1>1, <1>13 DEF SuccessIsBest, TimeoutIsABound, RefusalIsRight
<1>15. IsFiniteSet(open') /\ \A m \in open' : IsNode(m, task')
  <2> HIDE DEF A, B
  <2>1. IsFiniteSet(open)
    BY DEF CbsInv
  <2>2. IsFiniteSet(open \ {n})
    BY <2>1, FS_RemoveElement
  <2>3. IsFiniteSet((open \ {n}) \cup A)
    BY <1>7, <2>2, FS_Union
  <2>4. IsFiniteSet(((open \ {n}) \cup A) \cup B)
    BY <1>9, <2>3, FS_Union
  <2>5. \A m \in open : IsNode(m, task)
    BY DEF CbsInv
  <2> QED  BY <1>1, <1>7, <1>9, <1>10, <2>4, <2>5
<1> QED  BY <1>1, <1>10, <1>12, <1>14, <1>15 DEF CbsInv

(* The invariant of the search holds in every reachable state               *)
(* (cbs.hpp:235-359).                                                       *)
THEOREM CbsInvariance == Spec => []CbsInv
<1>1. ASSUME CbsInv, [Next]_vars PROVE CbsInv'
  <2>1. CASE UNCHANGED vars
    BY <1>1, <2>1 DEF vars, CbsInv, NoSolutionIsLost, SuccessIsBest, TimeoutIsABound, RefusalIsRight
  <2> QED  BY <1>1, <2>1, RootKeepsInv, RootFailsKeepsInv, GiveUpKeepsInv, TimeoutKeepsInv,
              SucceedKeepsInv, SplitKeepsInv DEF Next
<1> QED  BY InvInit, <1>1, PTL DEF Spec

(* Every path of every open node obeys its constraints at all times, the    *)
(* agent's last wait included (cbs.hpp:103-105, 151, 165-170).              *)
THEOREM PathsObey == Spec => []ConstraintsAreObeyed
<1>1. CbsInv => ConstraintsAreObeyed
  <2> SUFFICES ASSUME CbsInv, NEW n \in Nodes, NEW a \in Agents, NEW c \in n.cons[a]
               PROVE  IF c.kind = "vertex" THEN c.t = 0 \/ PathAt(n.paths[a], c.t) # c.from
                      ELSE ~(PathAt(n.paths[a], c.t) = c.from /\ PathAt(n.paths[a], c.t + 1) = c.to)
    BY DEF ConstraintsAreObeyed
  <2> DEFINE p == n.paths[a]
  <2>1. n \in open /\ IsNode(n, task) /\ task \in Instances
    BY DEF CbsInv, Nodes
  <2>2. Obeys(p, n.cons[a]) /\ IsConstraint(c)
    BY <2>1, NodePaths DEF IsWay, IsNode, IsConstraints
  <2> HIDE DEF p
  <2>3. CASE c.kind = "vertex"
    <3>1. c.t \in Nat /\ c = VertexConstraint(c.from, c.t)
      BY <2>2, <2>3 DEF IsConstraint, VertexConstraint, EdgeConstraint
    <3>2. ASSUME c.t # 0, PathAt(p, c.t) = c.from PROVE FALSE
      <4>1. c.t - 1 \in Nat /\ (c.t - 1) + 1 = c.t
        BY <3>1, <3>2
      <4>2. MayMove(PathAt(p, c.t - 1), PathAt(p, (c.t - 1) + 1), c.t - 1, n.cons[a])
        BY <2>2, <4>1 DEF Obeys
      <4>3. VertexConstraint(PathAt(p, c.t), c.t) \notin n.cons[a]
        BY <4>1, <4>2 DEF MayMove
      <4> QED  BY <3>1, <3>2, <4>3
    <3> QED  BY <2>3, <3>2 DEF p
  <2>4. CASE c.kind # "vertex"
    <3>1. c.t \in Nat /\ c = EdgeConstraint(c.from, c.to, c.t)
      BY <2>2, <2>4 DEF IsConstraint, VertexConstraint, EdgeConstraint
    <3>2. MayMove(PathAt(p, c.t), PathAt(p, c.t + 1), c.t, n.cons[a])
      BY <2>2, <3>1 DEF Obeys
    <3>3. ~(PathAt(p, c.t) = c.from /\ PathAt(p, c.t + 1) = c.to)
      BY <3>1, <3>2 DEF MayMove
    <3> QED  BY <2>4, <3>3 DEF p
  <2> QED  BY <2>3, <2>4
<1> QED  BY CbsInvariance, <1>1, PTL

(* What conflict-based search promises: a success is optimal for the sum of *)
(* costs among all plans the independent verifier accepts, of any length    *)
(* (cbs.hpp:16-18, 62-64).                                                  *)
THEOREM SuccessesAreOptimal == Spec => []SuccessIsBest
BY CbsInvariance, PTL DEF CbsInv

(* What is handed out when time is up: at most the cost of any plan the      *)
(* verifier accepts, and, should it be such a plan, the least of these       *)
(* (cbs.hpp:56-58, 304-310).                                                 *)
THEOREM TimeoutsAreBounds == Spec => []TimeoutIsABound
BY CbsInvariance, PTL DEF CbsInv

(* A refusal with budget and time left means that there is no plan at all.  *)
THEOREM RefusalsAreRight == Spec => []RefusalIsRight
BY CbsInvariance, PTL DEF CbsInv

-----------------------------------------------------------------------------
(* The joint search the runs measure against: what it finds is a solution   *)
(* with the cost it says.                                                   *)
IsSearch(F, start, goal, n) ==
    F = [k \in 0 .. n |-> IF k = 0 THEN {[pos |-> start, stopped |-> {}, cost |-> 0]}
                          ELSE UNION {JointSteps(x, goal) : x \in F[k - 1]}]

LEMMA SearchUnfolds ==
    ASSUME NEW start, NEW goal
    PROVE  JointSearch(start, goal) =
              UNION {(CHOOSE F : IsSearch(F, start, goal, Slack))[k] : k \in 0 .. Slack}
BY DEF JointSearch, IsSearch

LEMMA SearchExists ==
    ASSUME NEW start, NEW goal, NEW h \in Nat
    PROVE  \E F : IsSearch(F, start, goal, h)
<1> DEFINE T == {n \in Nat : \E F : IsSearch(F, start, goal, n)}
           Onwards(S) == UNION {JointSteps(x, goal) : x \in S}
           Root0 == {[pos |-> start, stopped |-> {}, cost |-> 0]}
<1>1. 0 \in T
  <2> DEFINE g == [k \in 0 .. 0 |-> Root0]
  <2>1. IsSearch(g, start, goal, 0)
    BY DEF IsSearch
  <2> QED  BY <2>1
<1>2. ASSUME NEW n \in Nat, n \in T PROVE n + 1 \in T
  <2>1. PICK g : IsSearch(g, start, goal, n)
    BY <1>2
  <2>2. g = [k \in 0 .. n |-> IF k = 0 THEN Root0 ELSE Onwards(g[k - 1])]
    BY <2>1 DEF IsSearch
  <2> DEFINE f == [k \in 0 .. n + 1 |-> IF k <= n THEN g[k] ELSE Onwards(g[n])]
  <2> HIDE DEF Onwards, Root0
  <2>3. ASSUME NEW k \in 0 .. n + 1
        PROVE  f[k] = IF k = 0 THEN Root0 ELSE Onwards(f[k - 1])
    <3>1. CASE k <= n
      <4>1. k \in 0 .. n /\ (k # 0 => k - 1 \in 0 .. n /\ f[k - 1] = g[k - 1]) /\ f[k] = g[k]
        BY <3>1
      <4>2. g[k] = IF k = 0 THEN Root0 ELSE Onwards(g[k - 1])
        BY <2>2, <4>1
      <4> QED  BY <4>1, <4>2
    <3>2. CASE k = n + 1
      BY <3>2
    <3> QED  BY <3>1, <3>2
  <2>4. f = [k \in 0 .. n + 1 |-> IF k = 0 THEN Root0 ELSE Onwards(f[k - 1])]
    BY <2>3
  <2> HIDE DEF f
  <2>5. IsSearch(f, start, goal, n + 1)
    BY <2>4 DEF IsSearch, Onwards, Root0
  <2> QED  BY <2>5
<1>3. Nat \subseteq T
  <2> HIDE DEF T
  <2> QED  BY <1>1, <1>2, NaturalInduction
<1> QED  BY <1>3

LEMMA CountOutside ==
    ASSUME NEW D, IsFiniteSet(D), NEW R, NEW f, \A x \in D : f[x] = IF x \in R THEN 0 ELSE 1
    PROVE  SumFunctionOnSet(f, D) = Cardinality(D \ R)
<1> DEFINE T == {s \in SUBSET D : SumFunctionOnSet(f, s) = Cardinality(s \ R)}
<1>1. {} \in T
  <2>1. {} \ R = {}
    OBVIOUS
  <2> QED  BY <2>1, SumEmpty, FS_EmptySet
<1>2. ASSUME NEW S \in SUBSET D, NEW k \in D \ S, S \in T
      PROVE  S \cup {k} \in T
  <2>1. IsFiniteSet(S) /\ IsFiniteSet(S \ R) /\ Cardinality(S \ R) \in Nat
    <3>1. IsFiniteSet(S)
      BY FS_Subset
    <3>2. IsFiniteSet(S \ R)
      BY <3>1, FS_Subset
    <3> QED  BY <3>1, <3>2, FS_CardinalityType
  <2>2. \A x \in S \cup {k} : f[x] \in Int
    OBVIOUS
  <2>3. SumFunctionOnSet(f, S \cup {k}) = f[k] + SumFunctionOnSet(f, S)
    BY <2>1, <2>2, SumInsert
  <2>4. SumFunctionOnSet(f, S) = Cardinality(S \ R)
    BY <1>2
  <2>5. CASE k \in R
    <3>1. f[k] = 0 /\ (S \cup {k}) \ R = S \ R
      BY <2>5
    <3>2. SumFunctionOnSet(f, S \cup {k}) = Cardinality((S \cup {k}) \ R)
      BY <2>1, <2>3, <2>4, <3>1
    <3> QED  BY <3>2
  <2>6. CASE k \notin R
    <3>1. f[k] = 1 /\ (S \cup {k}) \ R = (S \ R) \cup {k} /\ k \notin S \ R
      BY <2>6
    <3>2. Cardinality((S \ R) \cup {k}) = Cardinality(S \ R) + 1
      BY <2>1, <3>1, FS_AddElement
    <3>3. SumFunctionOnSet(f, S \cup {k}) = Cardinality((S \cup {k}) \ R)
      BY <2>1, <2>3, <2>4, <3>1, <3>2
    <3> QED  BY <3>3
  <2> QED  BY <2>5, <2>6
<1>3. D \in T
  <2> HIDE DEF T
  <2> QED  BY <1>1, <1>2, ElementInduction
<1> QED  BY <1>3

(* The walk f leads to the joint state x at time k.                         *)
LeadsTo(f, x, k, i) ==
    /\ IsPaths(f) /\ CostOf(f) = x.cost
    /\ \A a \in Agents :
         /\ f[a][1] = i.start[a] /\ Obeys(f[a], {})
         /\ PathAt(f[a], k) = x.pos[a] /\ Len(f[a]) <= k + 1
         /\ a \in x.stopped => f[a][Len(f[a])] = i.goal[a]
         /\ a \notin x.stopped => Len(f[a]) = k + 1
    /\ \A a, b \in Agents : a # b => \A t \in 0 .. k : ~Meets(f, a, b, t) /\ ~Trades(f, a, b, t)

LEMMA WalkStarts ==
    ASSUME NEW i \in Instances, Apart(i.start), NEW x,
           x = [pos |-> i.start, stopped |-> {}, cost |-> 0]
    PROVE  \E f : LeadsTo(f, x, 0, i)
<1> DEFINE f == [a \in Agents |-> <<i.start[a]>>]
           u == [a \in Agents |-> NodePathCost(f[a])]
<1>1. ASSUME NEW a \in Agents
      PROVE  /\ f[a] \in Seq(Free) /\ f[a] # <<>> /\ Len(f[a]) = 1 /\ f[a][1] = i.start[a]
             /\ \A t \in Nat : PathAt(f[a], t) = i.start[a]
  <2>1. f[a] = <<i.start[a]>> /\ i.start[a] \in Free
    BY InstanceCells
  <2> HIDE DEF f
  <2>2. f[a] \in Seq(Free) /\ f[a] # <<>> /\ Len(f[a]) = 1 /\ f[a][1] = i.start[a]
    BY <2>1
  <2>3. ASSUME NEW t \in Nat PROVE PathAt(f[a], t) = i.start[a]
    <3>1. t + 1 >= Len(f[a])
      BY <2>2
    <3> QED  BY <2>2, <3>1, PathAtFacts
  <2> QED  BY <2>2, <2>3
<1>2. f = [a \in Agents |-> f[a]]
  OBVIOUS
<1>3. \A a \in Agents : u[a] = NodePathCost(f[a])
  OBVIOUS
<1>4. CostOf(f) = SumFunction(u) /\ DOMAIN u = Agents
  BY DEF CostOf
<1> HIDE DEF f, u
<1>5. IsPaths(f)
  BY <1>1, <1>2 DEF IsPaths
<1>6. CostOf(f) = 0
  <2> DEFINE s == SumFunctionOnSet(u, Agents)
  <2>1. ASSUME NEW a \in Agents PROVE u[a] = 0
    <3>1. Len(f[a]) = 1 /\ u[a] = NodePathCost(f[a])
      BY <1>1, <1>3
    <3> QED  BY <3>1 DEF NodePathCost
  <2>2. \A a \in Agents : u[a] \in Int /\ u[a] \in Int /\ u[a] = 1 * u[a] + 1 * u[a]
    BY <2>1
  <2>3. s = 1 * s + 1 * s
    BY <2>2, AgentsAssumption, SumLinear
  <2>4. s \in Int
    BY <2>2, AgentsAssumption, SumType
  <2>5. CostOf(f) = s
    BY <1>4, SumWhole
  <2> HIDE DEF s
  <2> QED  BY <2>3, <2>4, <2>5
<1>7. ASSUME NEW a \in Agents PROVE Obeys(f[a], {})
  <2> SUFFICES ASSUME NEW t \in Nat PROVE MayMove(PathAt(f[a], t), PathAt(f[a], t + 1), t, {})
    BY DEF Obeys
  <2>1. PathAt(f[a], t) = i.start[a] /\ PathAt(f[a], t + 1) = i.start[a] /\ i.start[a] \in Free
    BY <1>1, InstanceCells
  <2> QED  BY <2>1, WaitingIsLegal DEF MayMove
<1>8. ASSUME NEW a \in Agents, NEW b \in Agents, a # b, NEW t \in 0 .. 0
      PROVE  ~Meets(f, a, b, t) /\ ~Trades(f, a, b, t)
  <2>1. t = 0 /\ PathAt(f[a], t) = i.start[a] /\ PathAt(f[b], t) = i.start[b]
    BY <1>1
  <2>2. i.start[a] # i.start[b]
    BY <1>8 DEF Apart
  <2> QED  BY <2>1, <2>2 DEF Meets, Trades
<1>9. x.pos = i.start /\ x.stopped = {} /\ x.cost = 0
  OBVIOUS
<1>10. ASSUME NEW a \in Agents
       PROVE  /\ f[a][1] = i.start[a] /\ Obeys(f[a], {})
              /\ PathAt(f[a], 0) = x.pos[a] /\ Len(f[a]) <= 0 + 1
              /\ a \notin x.stopped /\ Len(f[a]) = 0 + 1
  <2>1. f[a][1] = i.start[a] /\ Len(f[a]) = 1 /\ Obeys(f[a], {})
    BY <1>1, <1>7
  <2>2. PathAt(f[a], 0) = x.pos[a]
    BY <1>1, <1>9
  <2>3. Len(f[a]) = 0 + 1 /\ Len(f[a]) <= 0 + 1
    BY <2>1
  <2>4. a \notin x.stopped
    BY <1>9
  <2> QED  BY <2>1, <2>2, <2>3, <2>4
<1>11. LeadsTo(f, x, 0, i)
  <2>1. CostOf(f) = x.cost
    BY <1>6, <1>9
  <2> QED  BY <1>5, <1>8, <1>10, <2>1 DEF LeadsTo
<1> QED  BY <1>11

LEMMA WalkGoesOn ==
    ASSUME NEW i \in Instances, NEW x, NEW k \in Nat, NEW f, LeadsTo(f, x, k, i),
           NEW y \in JointSteps(x, i.goal)
    PROVE  \E g : LeadsTo(g, y, k + 1, i)
<1>1. PICK e \in SUBSET Arrived(x, i.goal) :
        \E q \in [Agents -> UNION {MovesFrom(x.pos[a]) : a \in Agents}] :
           /\ \A a \in Agents :
                q[a] \in IF a \in x.stopped \cup e THEN {x.pos[a]} ELSE MovesFrom(x.pos[a])
           /\ StepOk(x.pos, q)
           /\ y = [pos |-> q, stopped |-> x.stopped \cup e,
                   cost |-> x.cost + Cardinality(Agents \ (x.stopped \cup e))]
  BY DEF JointSteps
<1> DEFINE S == x.stopped \cup e
<1>2. PICK q : /\ \A a \in Agents : q[a] \in IF a \in S THEN {x.pos[a]} ELSE MovesFrom(x.pos[a])
               /\ StepOk(x.pos, q)
               /\ y = [pos |-> q, stopped |-> S, cost |-> x.cost + Cardinality(Agents \ S)]
  BY <1>1
<1>3. y.pos = q /\ y.stopped = S /\ y.cost = x.cost + Cardinality(Agents \ S)
  BY <1>2
<1>4. \A a \in Agents : a \in S => a \in x.stopped \/ x.pos[a] = i.goal[a]
  BY <1>1 DEF Arrived
<1>5. \A a \in Agents : a \notin S => a \notin x.stopped
  OBVIOUS
<1> HIDE DEF S
<1> DEFINE g == [a \in Agents |-> IF a \in S THEN f[a] ELSE Append(f[a], q[a])]
<1>6. IsPaths(f) /\ CostOf(f) = x.cost
  BY DEF LeadsTo
<1>7. ASSUME NEW a \in Agents
      PROVE  /\ g[a] \in Seq(Free) /\ g[a] # <<>> /\ g[a][1] = i.start[a]
             /\ \A t \in 0 .. k : PathAt(g[a], t) = PathAt(f[a], t)
             /\ PathAt(g[a], k + 1) = q[a] /\ Len(g[a]) <= (k + 1) + 1
             /\ Obeys(g[a], {})
             /\ a \in S => g[a][Len(g[a])] = i.goal[a]
             /\ a \notin S => Len(g[a]) = (k + 1) + 1
             /\ NodePathCost(g[a]) = NodePathCost(f[a]) + IF a \in S THEN 0 ELSE 1
  <2> DEFINE p == f[a]
  <2>1. p \in Seq(Free) /\ p # <<>> /\ Len(p) \in Nat /\ Len(p) > 0
    BY <1>6 DEF IsPaths
  <2>2. /\ p[1] = i.start[a] /\ Obeys(p, {}) /\ PathAt(p, k) = x.pos[a] /\ Len(p) <= k + 1
        /\ a \in x.stopped => p[Len(p)] = i.goal[a]
        /\ a \notin x.stopped => Len(p) = k + 1
    BY DEF LeadsTo
  <2>3. x.pos[a] = p[Len(p)]
    <3>1. k + 1 >= Len(p)
      BY <2>1, <2>2
    <3> QED  BY <2>1, <2>2, <3>1, PathAtFacts
  <2>4. CASE a \in S
    <3>1. g[a] = p /\ q[a] = x.pos[a]
      BY <1>2, <2>4
    <3>2. PathAt(p, k + 1) = p[Len(p)]
      <4>1. (k + 1) + 1 >= Len(p) /\ k + 1 \in Nat
        BY <2>1, <2>2
      <4> QED  BY <2>1, <4>1, PathAtFacts
    <3>3. Len(p) <= (k + 1) + 1
      BY <2>1, <2>2
    <3>4. p[Len(p)] = i.goal[a]
      BY <1>4, <2>2, <2>3, <2>4
    <3>5. NodePathCost(p) = NodePathCost(p) + 0
      BY <2>1 DEF NodePathCost
    <3> HIDE DEF g, p
    <3>6. NodePathCost(g[a]) = NodePathCost(p) + IF a \in S THEN 0 ELSE 1
      BY <2>4, <3>1, <3>5
    <3> QED  BY <2>1, <2>2, <2>3, <2>4, <3>1, <3>2, <3>3, <3>4, <3>6 DEF p
  <2>5. CASE a \notin S
    <3> DEFINE r == Append(p, q[a])
    <3>1. g[a] = r /\ q[a] \in MovesFrom(x.pos[a]) /\ Len(p) = k + 1
      BY <1>2, <1>5, <2>2, <2>5
    <3>2. q[a] \in Free
      BY <3>1 DEF MovesFrom
    <3> HIDE DEF g, p
    <3>3. r \in Seq(Free) /\ Len(r) = k + 2 /\ r[k + 2] = q[a] /\ \A j \in 1 .. k + 1 : r[j] = p[j]
      BY <2>1, <3>1, <3>2
    <3> HIDE DEF r
    <3>4. \A t \in 0 .. k : PathAt(r, t) = PathAt(p, t)
      <4> TAKE t \in 0 .. k
      <4>1. t < Len(r) /\ t < Len(p) /\ t + 1 \in 1 .. k + 1
        BY <3>1, <3>3
      <4>2. PathAt(r, t) = r[t + 1] /\ PathAt(p, t) = p[t + 1]
        BY <4>1 DEF PathAt
      <4> QED  BY <3>3, <4>1, <4>2
    <3>5. \A t \in Nat : t >= k + 1 => PathAt(r, t) = q[a]
      <4> SUFFICES ASSUME NEW t \in Nat, t >= k + 1 PROVE PathAt(r, t) = q[a]
        OBVIOUS
      <4>1. t + 1 >= Len(r) /\ r # <<>>
        BY <3>3
      <4> QED  BY <3>3, <4>1, PathAtFacts
    <3>6. Obeys(r, {})
      <4> SUFFICES ASSUME NEW t \in Nat PROVE MayMove(PathAt(r, t), PathAt(r, t + 1), t, {})
        BY DEF Obeys
      <4>1. CASE t < k
        <5>1. t \in 0 .. k /\ t + 1 \in 0 .. k
          BY <4>1
        <5>2. PathAt(r, t) = PathAt(p, t) /\ PathAt(r, t + 1) = PathAt(p, t + 1)
          BY <3>4, <5>1
        <5> QED  BY <2>2, <5>2 DEF Obeys
      <4>2. CASE t = k
        <5>1. PathAt(r, t) = x.pos[a] /\ PathAt(r, t + 1) = q[a]
          <6>1. k \in 0 .. k /\ t + 1 \in Nat /\ t + 1 >= k + 1
            BY <4>2
          <6> QED  BY <2>2, <3>4, <3>5, <4>2, <6>1
        <5> QED  BY <3>1, <5>1 DEF MayMove
      <4>3. CASE t > k
        <5>1. PathAt(r, t) = q[a] /\ PathAt(r, t + 1) = q[a]
          BY <3>5, <4>3
        <5> QED  BY <3>2, <5>1, WaitingIsLegal DEF MayMove
      <4> QED  BY <4>1, <4>2, <4>3
    <3>7. r # <<>> /\ r[1] = i.start[a]
      <4>1. 1 \in 1 .. k + 1
        OBVIOUS
      <4> QED  BY <2>2, <3>3, <4>1
    <3>8. PathAt(r, k + 1) = q[a]
      BY <3>5
    <3>9. NodePathCost(r) = NodePathCost(p) + 1
      BY <3>1, <3>3 DEF NodePathCost
    <3>10. NodePathCost(r) = NodePathCost(p) + IF a \in S THEN 0 ELSE 1
      BY <2>5, <3>9
    <3>11. Len(r) <= (k + 1) + 1 /\ Len(r) = (k + 1) + 1
      BY <3>3
    <3> QED  BY <2>5, <3>1, <3>3, <3>4, <3>6, <3>7, <3>8, <3>10, <3>11 DEF p
  <2> QED  BY <2>4, <2>5
<1>8. g = [a \in Agents |-> g[a]]
  OBVIOUS
<1> HIDE DEF g
<1>9. IsPaths(g)
  BY <1>7, <1>8 DEF IsPaths
<1>10. CostOf(g) = CostOf(f) + Cardinality(Agents \ S)
  <2> DEFINE u == [a \in Agents |-> NodePathCost(f[a])]
             v == [a \in Agents |-> NodePathCost(g[a])]
             w == [a \in Agents |-> IF a \in S THEN 0 ELSE 1]
  <2>1. (\A a \in Agents : u[a] \in Nat) /\ CostOf(f) = SumFunctionOnSet(u, Agents)
    BY <1>6, CostsAre
  <2>2. (\A a \in Agents : v[a] \in Nat) /\ CostOf(g) = SumFunctionOnSet(v, Agents)
    BY <1>9, CostsAre
  <2>3. \A a \in Agents : w[a] = IF a \in S THEN 0 ELSE 1
    OBVIOUS
  <2>4. \A a \in Agents : v[a] = u[a] + w[a]
    BY <1>7
  <2> HIDE DEF u, v, w
  <2>5. \A a \in Agents : u[a] \in Int /\ w[a] \in Int /\ v[a] = 1 * u[a] + 1 * w[a]
    BY <2>1, <2>3, <2>4
  <2>6. SumFunctionOnSet(v, Agents) = 1 * SumFunctionOnSet(u, Agents) + 1 * SumFunctionOnSet(w, Agents)
    BY <2>5, AgentsAssumption, SumLinear
  <2>7. SumFunctionOnSet(w, Agents) = Cardinality(Agents \ S)
    BY <2>3, AgentsAssumption, CountOutside
  <2>8. SumFunctionOnSet(u, Agents) \in Int /\ SumFunctionOnSet(w, Agents) \in Int
    BY <2>5, AgentsAssumption, SumType
  <2> QED  BY <2>1, <2>2, <2>6, <2>7, <2>8
<1>11. ASSUME NEW a \in Agents, NEW b \in Agents, a # b, NEW t \in 0 .. k + 1
       PROVE  ~Meets(g, a, b, t) /\ ~Trades(g, a, b, t)
  <2>1. CASE t <= k
    <3>1. t \in 0 .. k /\ (t > 0 => t - 1 \in 0 .. k)
      BY <2>1
    <3>2. /\ PathAt(g[a], t) = PathAt(f[a], t) /\ PathAt(g[b], t) = PathAt(f[b], t)
          /\ t > 0 => /\ PathAt(g[a], t - 1) = PathAt(f[a], t - 1)
                      /\ PathAt(g[b], t - 1) = PathAt(f[b], t - 1)
      BY <1>7, <3>1
    <3>3. ~Meets(f, a, b, t) /\ ~Trades(f, a, b, t)
      BY <1>11, <3>1 DEF LeadsTo
    <3> QED  BY <3>2, <3>3 DEF Meets, Trades
  <2>2. CASE t = k + 1
    <3>1. k \in 0 .. k /\ t - 1 = k
      BY <2>2
    <3>2. PathAt(g[a], t) = q[a] /\ PathAt(g[b], t) = q[b]
      BY <1>7, <2>2
    <3>3. PathAt(g[a], t - 1) = x.pos[a] /\ PathAt(g[b], t - 1) = x.pos[b]
      BY <1>7, <3>1 DEF LeadsTo
    <3>4. q[a] # q[b] /\ ~(q[a] = x.pos[b] /\ q[b] = x.pos[a])
      BY <1>2, <1>11 DEF StepOk, Swaps
    <3> QED  BY <3>2, <3>3, <3>4 DEF Meets, Trades
  <2> QED  BY <2>1, <2>2
<1>12. CostOf(g) = y.cost
  BY <1>3, <1>6, <1>10
<1>13. LeadsTo(g, y, k + 1, i)
  BY <1>3, <1>7, <1>9, <1>11, <1>12 DEF LeadsTo
<1> QED  BY <1>13

LEMMA WalksAreFound ==
    ASSUME NEW i \in Instances, Apart(i.start), NEW y \in JointSearch(i.start, i.goal)
    PROVE  \E k \in Nat : \E f : LeadsTo(f, y, k, i)
<1> DEFINE F == CHOOSE G : IsSearch(G, i.start, i.goal, Slack)
           Led(k) == \A x \in F[k] : \E f : LeadsTo(f, x, k, i)
           T == {k \in Nat : k <= Slack => Led(k)}
<1>1. Slack \in Nat
  BY SlackAssumption
<1>2. IsSearch(F, i.start, i.goal, Slack)
  <2>1. \E G : IsSearch(G, i.start, i.goal, Slack)
    BY <1>1, SearchExists
  <2> QED  BY <2>1
<1>3. JointSearch(i.start, i.goal) = UNION {F[k] : k \in 0 .. Slack}
  BY SearchUnfolds
<1> HIDE DEF F
<1>4. F = [k \in 0 .. Slack |-> IF k = 0 THEN {[pos |-> i.start, stopped |-> {}, cost |-> 0]}
                                ELSE UNION {JointSteps(x, i.goal) : x \in F[k - 1]}]
  BY <1>2 DEF IsSearch
<1>5. 0 \in T
  <2>1. F[0] = {[pos |-> i.start, stopped |-> {}, cost |-> 0]}
    BY <1>1, <1>4
  <2>2. ASSUME NEW x \in F[0] PROVE \E f : LeadsTo(f, x, 0, i)
    <3>1. x = [pos |-> i.start, stopped |-> {}, cost |-> 0]
      BY <2>1
    <3> QED  BY <3>1, WalkStarts
  <2> QED  BY <2>2
<1>6. ASSUME NEW k \in Nat, k \in T PROVE k + 1 \in T
  <2> SUFFICES ASSUME k + 1 <= Slack, NEW x \in F[k + 1] PROVE \E f : LeadsTo(f, x, k + 1, i)
    OBVIOUS
  <2>1. k + 1 \in 0 .. Slack /\ k + 1 # 0 /\ (k + 1) - 1 = k /\ k <= Slack
    BY <1>1
  <2>2. F[k + 1] = UNION {JointSteps(z, i.goal) : z \in F[k]}
    BY <1>4, <2>1
  <2>3. PICK z \in F[k] : x \in JointSteps(z, i.goal)
    BY <2>2
  <2>4. \E f : LeadsTo(f, z, k, i)
    BY <1>6, <2>1, <2>3
  <2>5. PICK f : LeadsTo(f, z, k, i)
    BY <2>4
  <2> QED  BY <2>3, <2>5, WalkGoesOn
<1>7. Nat \subseteq T
  <2> HIDE DEF T
  <2> QED  BY <1>5, <1>6, NaturalInduction
<1>8. PICK k \in 0 .. Slack : y \in F[k]
  BY <1>3
<1>9. k \in Nat /\ Led(k)
  BY <1>1, <1>7, <1>8
<1> QED  BY <1>8, <1>9

LEMMA WalksAreSolutions ==
    ASSUME NEW i \in Instances, NEW y, NEW k \in Nat, NEW f, LeadsTo(f, y, k, i),
           y.stopped \cup Arrived(y, i.goal) = Agents
    PROVE  IsSolution(f, i)
<1>1. IsPaths(f)
  BY DEF LeadsTo
<1>2. ASSUME NEW a \in Agents
      PROVE  /\ f[a] \in Seq(Free) /\ f[a] # <<>> /\ Len(f[a]) \in Nat /\ Len(f[a]) <= k + 1
             /\ f[a][1] = i.start[a] /\ Obeys(f[a], {}) /\ PathAt(f[a], k) = y.pos[a]
             /\ a \in y.stopped => f[a][Len(f[a])] = i.goal[a]
  <2>1. f[a] \in Seq(Free) /\ f[a] # <<>>
    BY <1>1 DEF IsPaths
  <2> QED  BY <2>1 DEF LeadsTo
<1>3. ASSUME NEW a \in Agents, NEW t \in Nat, t >= k
      PROVE  PathAt(f[a], t) = f[a][Len(f[a])]
  <2>1. t + 1 >= Len(f[a])
    BY <1>2, <1>3
  <2> QED  BY <1>2, <2>1, PathAtFacts
<1>4. ASSUME NEW a \in Agents PROVE f[a][Len(f[a])] = i.goal[a]
  <2>1. CASE a \in y.stopped
    BY <1>2, <2>1
  <2>2. CASE a \in Arrived(y, i.goal)
    <3>1. y.pos[a] = i.goal[a]
      BY <2>2 DEF Arrived
    <3>2. k >= k
      OBVIOUS
    <3>3. PathAt(f[a], k) = f[a][Len(f[a])]
      BY <1>3, <3>2
    <3> QED  BY <1>2, <3>1, <3>3
  <2> QED  BY <2>1, <2>2
<1>5. ASSUME NEW a \in Agents, NEW b \in Agents, a # b, NEW t \in 0 .. k
      PROVE  ~Meets(f, a, b, t) /\ ~Trades(f, a, b, t)
  BY <1>5 DEF LeadsTo
<1>6. ASSUME NEW a \in Agents, NEW b \in Agents, a # b, NEW t \in Nat
      PROVE  ~Meets(f, a, b, t) /\ ~Trades(f, a, b, t)
  <2>1. CASE t <= k
    BY <1>5, <1>6, <2>1
  <2>2. CASE t > k
    <3>1. k \in 0 .. k /\ k >= k /\ t >= k /\ t - 1 >= k /\ t - 1 \in Nat
      BY <2>2
    <3>2. ~Meets(f, a, b, k)
      BY <1>5, <1>6, <3>1
    <3>3. /\ PathAt(f[a], t) = PathAt(f[a], k) /\ PathAt(f[b], t) = PathAt(f[b], k)
          /\ PathAt(f[b], t - 1) = PathAt(f[b], k)
      BY <1>3, <3>1
    <3> QED  BY <3>2, <3>3 DEF Meets, Trades
  <2> QED  BY <2>1, <2>2
<1>7. \A a \in Agents : IsWay(f[a], i.start[a], i.goal[a], {})
  BY <1>2, <1>4 DEF IsWay
<1>8. NeverCollide(f)
  BY <1>6 DEF NeverCollide
<1> QED  BY <1>1, <1>7, <1>8 DEF IsSolution

LEMMA CostIsNatural ==
    ASSUME NEW f, IsPaths(f)
    PROVE  CostOf(f) \in Nat
<1> DEFINE u == [a \in Agents |-> NodePathCost(f[a])]
           z == [a \in Agents |-> 0]
<1>1. (\A a \in Agents : u[a] \in Nat) /\ CostOf(f) = SumFunctionOnSet(u, Agents) /\ CostOf(f) \in Int
  BY CostsAre
<1>2. \A a \in Agents : z[a] = 0
  OBVIOUS
<1> HIDE DEF u, z
<1>3. SumFunctionOnSet(z, Agents) = 0
  <2> DEFINE s == SumFunctionOnSet(z, Agents)
  <2>1. \A a \in Agents : z[a] \in Int /\ z[a] \in Int /\ z[a] = 1 * z[a] + 1 * z[a]
    BY <1>2
  <2>2. s = 1 * s + 1 * s
    BY <2>1, AgentsAssumption, SumLinear
  <2>3. s \in Int
    BY <2>1, AgentsAssumption, SumType
  <2> HIDE DEF s
  <2>4. s = 0
    BY <2>2, <2>3
  <2> QED  BY <2>4 DEF s
<1>4. SumFunctionOnSet(z, Agents) <= SumFunctionOnSet(u, Agents)
  <2>1. \A a \in Agents : z[a] \in Int /\ u[a] \in Int /\ z[a] <= u[a]
    BY <1>1, <1>2
  <2> QED  BY <2>1, AgentsAssumption, SumMonotone
<1> QED  BY <1>1, <1>3, <1>4

(* The reference is the cost of a solution, when it is a cost at all.       *)
LEMMA OptimumIsReached ==
    ASSUME NEW i \in Instances, Optimum[i] < Infinite
    PROVE  \E f : IsSolution(f, i) /\ CostOf(f) = Optimum[i]
<1> DEFINE Y == {y \in JointSearch(i.start, i.goal) :
                    Apart(i.start) /\ y.stopped \cup Arrived(y, i.goal) = Agents}
           X == {x.cost : x \in Y}
           D == {Infinite} \cup X
           E == D \cap (0 .. Infinite)
<1>1. Optimum[i] = Min(D)
  BY DEF Optimum
<1>2. ASSUME NEW c \in X
      PROVE  c \in Nat /\ \E f : IsSolution(f, i) /\ CostOf(f) = c
  <2>1. PICK y \in Y : c = y.cost
    OBVIOUS
  <2>2. /\ y \in JointSearch(i.start, i.goal) /\ Apart(i.start)
        /\ y.stopped \cup Arrived(y, i.goal) = Agents
    OBVIOUS
  <2>3. PICK k \in Nat : \E f : LeadsTo(f, y, k, i)
    BY <2>2, WalksAreFound
  <2>4. PICK f : LeadsTo(f, y, k, i)
    BY <2>3
  <2>5. IsSolution(f, i)
    BY <2>2, <2>4, WalksAreSolutions
  <2>6. CostOf(f) = c /\ IsPaths(f)
    BY <2>1, <2>4 DEF LeadsTo
  <2>7. c \in Nat
    BY <2>6, CostIsNatural
  <2> QED  BY <2>5, <2>6, <2>7
<1>3. Infinite \in Nat
  BY DEF Infinite
<1>4. D \subseteq Nat /\ Infinite \in D
  BY <1>2, <1>3
<1> HIDE DEF X
<1>5. IsFiniteSet(E) /\ E \subseteq Int /\ Infinite \in E
  <2>1. IsFiniteSet(0 .. Infinite)
    BY <1>3, FS_Interval
  <2>2. E \subseteq 0 .. Infinite /\ Infinite \in E /\ E \subseteq Int
    BY <1>3, <1>4
  <2> HIDE DEF E
  <2> QED  BY <2>1, <2>2, FS_Subset
<1>6. Min(E) \in E /\ \A x \in E : Min(E) <= x
  <2> HIDE DEF E
  <2> QED  BY <1>5, SmallestExists
<1>7. \E x \in D : \A y \in D : x <= y
  <2> DEFINE m == Min(E)
  <2>1. m \in D /\ m \in Nat /\ m <= Infinite
    BY <1>3, <1>5, <1>6
  <2>2. ASSUME NEW y \in D PROVE m <= y
    <3>1. CASE y \in E
      BY <1>6, <3>1
    <3>2. CASE y \notin E
      <4>1. y \in Nat /\ y > Infinite
        BY <1>3, <1>4, <3>2
      <4> HIDE DEF m
      <4> QED  BY <1>3, <2>1, <4>1
    <3> QED  BY <3>1, <3>2
  <2> HIDE DEF m
  <2> QED  BY <2>1, <2>2
<1>8. Min(D) \in D
  <2> HIDE DEF D, E
  <2> QED  BY <1>7 DEF Min
<1>9. Optimum[i] \in X
  <2>1. Optimum[i] \in D /\ Optimum[i] # Infinite
    <3>1. Optimum[i] \in D
      BY <1>1, <1>8
    <3>2. Optimum[i] \in Nat
      BY <1>4, <3>1
    <3> HIDE DEF D
    <3> QED  BY <1>3, <3>1, <3>2
  <2> QED  BY <2>1
<1> QED  BY <1>2, <1>9

(* As long as the search goes on, the optimum stays in reach, and the plan  *)
(* handed out when time is up is no dearer (cbs.hpp:10-18, 304-310, 348).   *)
THEOREM OptimumIsKept == Spec => []OptimumStaysInReach
<1>1. CbsInv => OptimumStaysInReach
  <2> SUFFICES ASSUME CbsInv, Optimum[task] < Infinite
               PROVE  /\ pc = "search" => \E n \in open : n.cost <= Optimum[task]
                      /\ answer.timeout => answer.cost <= Optimum[task]
    BY DEF OptimumStaysInReach
  <2>1. task \in Instances
    BY DEF CbsInv
  <2>2. \E f : IsSolution(f, task) /\ CostOf(f) = Optimum[task]
    BY <2>1, OptimumIsReached
  <2>3. PICK f : IsSolution(f, task) /\ CostOf(f) = Optimum[task]
    BY <2>2
  <2>4. f \in Solutions(task)
    BY <2>1, <2>3, SolutionsAreAccepted
  <2>5. ASSUME pc = "search" PROVE \E n \in open : n.cost <= Optimum[task]
    <3>1. PICK n \in open : Follows(f, n)
      BY <2>4, <2>5 DEF CbsInv, NoSolutionIsLost
    <3>2. n.cost <= CostOf(f)
      BY <2>1, <2>3, <3>1, NodeIsCheaper DEF CbsInv, Follows
    <3> QED  BY <2>3, <3>2
  <2>6. ASSUME answer.timeout PROVE answer.cost <= Optimum[task]
    <3> DEFINE p == Padded(f)
               c == SumOfCosts(p, task.goal)
               d == answer.cost
    <3>1. IsSolution(p, task) /\ c <= CostOf(f) /\ CostOf(f) \in Int
      BY <2>1, <2>3, PaddedIsASolution, PaddingIsFree, CostsAre DEF IsSolution
    <3> HIDE DEF p
    <3>2. p \in Solutions(task)
      BY <2>1, <3>1, SolutionsAreAccepted
    <3>3. d <= c
      BY <2>6, <3>2 DEF CbsInv, TimeoutIsABound
    <3>4. c \in Int /\ d \in Int
      BY <2>1, <2>6, <3>1, SumOfCostsIs DEF CbsInv, TimeoutIsABound
    <3> HIDE DEF c, d
    <3>5. d <= Optimum[task]
      BY <2>3, <3>1, <3>3, <3>4
    <3> QED  BY <3>5 DEF d
  <2> QED  BY <2>5, <2>6
<1> QED  BY CbsInvariance, <1>1, PTL

(* The reference looks far enough ahead to find an optimum of every         *)
(* instance that has a solution.                                            *)
LooksFarEnough ==
    \A i \in Instances : \A f \in Solutions(i) :
        Optimum[i] < Infinite /\ Optimum[i] <= SumOfCosts(f, i.goal)

(* Measured against a reference that does, a success is free of collisions  *)
(* and optimal (cbs.hpp:16-18, 62-64).                                      *)
THEOREM SuccessesMatchTheReference ==
    ASSUME LooksFarEnough
    PROVE  Spec => []SuccessIsOptimal
<1>1. CbsInv => SuccessIsOptimal
  <2> SUFFICES ASSUME CbsInv, answer.success
               PROVE  Verify(task.start, task.goal, answer.plan) = {} /\ answer.cost = Optimum[task]
    BY DEF SuccessIsOptimal
  <2>1. task \in Instances
    BY DEF CbsInv
  <2>2. /\ answer.plan \in Solutions(task)
        /\ answer.cost = SumOfCosts(answer.plan, task.goal)
        /\ \A f \in Solutions(task) : answer.cost <= SumOfCosts(f, task.goal)
    BY DEF CbsInv, SuccessIsBest
  <2>3. Optimum[task] < Infinite /\ Optimum[task] <= answer.cost
    BY <2>1, <2>2 DEF LooksFarEnough
  <2>4. \E f : IsSolution(f, task) /\ CostOf(f) = Optimum[task]
    BY <2>1, <2>3, OptimumIsReached
  <2>5. PICK f : IsSolution(f, task) /\ CostOf(f) = Optimum[task]
    BY <2>4
  <2> DEFINE p == Padded(f)
             c == SumOfCosts(p, task.goal)
             d == answer.cost
  <2>6. IsSolution(p, task) /\ c <= CostOf(f) /\ CostOf(f) \in Int
    <3>1. IsPaths(f)
      BY <2>5 DEF IsSolution
    <3> QED  BY <2>1, <2>5, <3>1, PaddedIsASolution, PaddingIsFree, CostsAre
  <2> HIDE DEF p
  <2>7. p \in Solutions(task)
    BY <2>1, <2>6, SolutionsAreAccepted
  <2>8. c \in Int /\ d \in Int
    <3>1. c \in Int
      BY <2>1, <2>6, SumOfCostsIs
    <3>2. IsSolution(answer.plan, task)
      BY <2>1, <2>2, VerdictCoversAllTimes
    <3> QED  BY <2>1, <2>2, <3>1, <3>2, SumOfCostsIs
  <2>9. d <= c
    BY <2>2, <2>7
  <2> HIDE DEF c, d
  <2>10. d = Optimum[task]
    BY <2>3, <2>5, <2>6, <2>8, <2>9 DEF d
  <2>11. Verify(task.start, task.goal, answer.plan) = {}
    BY <2>2 DEF Solutions
  <2> QED  BY <2>10, <2>11 DEF d
<1> QED  BY CbsInvariance, <1>1, PTL
=============================================================================
