---------------------------- MODULE BqmTheorems -----------------------------
(***************************************************************************)
(* Facts about finite sums and maxima, and about the energies, fields and  *)
(* conversions of Bqm that are made of them, for models of any size.       *)
(*                                                                         *)
(* A sum is a fold: a recursive function on the subsets of its domain.     *)
(* What it computes is proved by induction over these subsets, which are   *)
(* well-founded when the domain is finite.                                 *)
(***************************************************************************)
EXTENDS Bqm, FiniteSetsExt, FiniteSetTheorems, TLAPS

(* A property of subsets, as the set of those that have it, holds for all   *)
(* if it is passed on from the strict subsets of a set to the set.          *)
LEMMA SubsetInduction ==
    ASSUME NEW D, IsFiniteSet(D), NEW T,
           \A S \in SUBSET D : (\A U \in SUBSET S : U # S => U \in T) => S \in T
    PROVE  SUBSET D \subseteq T
<1> DEFINE Rest == (SUBSET D) \ T
<1>1. IsWellFoundedOn(StrictSubsetOrdering(D), SUBSET D)
  BY FS_StrictSubsetOrderingWellFounded, FS_FiniteSubsetsOfFinite
<1>2. CASE Rest # {}
  <2>1. Rest \subseteq SUBSET D
    OBVIOUS
  <2> HIDE DEF Rest
  <2>2. \E S \in Rest : \A U \in Rest : ~(<<U, S>> \in StrictSubsetOrdering(D))
    BY <1>1, <1>2, <2>1, WFMin
  <2>3. PICK S \in Rest : \A U \in Rest : ~(<<U, S>> \in StrictSubsetOrdering(D))
    BY <2>2
  <2>4. ASSUME NEW U \in SUBSET S, U # S, U \notin T PROVE FALSE
    <3>1. U \in Rest /\ S \in SUBSET D /\ U \in SUBSET D
      BY <2>1, <2>3, <2>4 DEF Rest
    <3>2. <<U, S>> \in StrictSubsetOrdering(D)
      BY <2>4, <3>1 DEF StrictSubsetOrdering
    <3> QED  BY <2>3, <3>1, <3>2
  <2> QED  BY <2>3, <2>4 DEF Rest
<1> QED  BY <1>2

(* Induction over the natural numbers, again with a set for the property.   *)
LEMMA NaturalInduction ==
    ASSUME NEW T, 0 \in T, \A n \in Nat : n \in T => n + 1 \in T
    PROVE  Nat \subseteq T
<1> SUFFICES ASSUME NEW m \in Nat PROVE m \in T
  OBVIOUS
<1> DEFINE D == 1 .. m
           Starts == {S \in SUBSET D : \A k \in 0 .. m : S = 1 .. k => k \in T}
<1>1. IsFiniteSet(D)
  BY FS_Interval
<1>2. ASSUME NEW S \in SUBSET D, \A U \in SUBSET S : U # S => U \in Starts
      PROVE  S \in Starts
  <2> SUFFICES ASSUME NEW k \in 0 .. m, S = 1 .. k PROVE k \in T
    OBVIOUS
  <2>1. CASE k > 0
    <3>1. k - 1 \in 0 .. m /\ 1 .. k - 1 \in SUBSET S /\ 1 .. k - 1 # S
      BY <2>1
    <3>2. 1 .. k - 1 \in Starts
      BY <1>2, <3>1
    <3>3. k - 1 \in T
      BY <3>1, <3>2
    <3> QED  BY <2>1, <3>3
  <2> QED  BY <2>1
<1>3. D \in Starts
  <2> HIDE DEF D, Starts
  <2>1. SUBSET D \subseteq Starts
    BY <1>1, <1>2, SubsetInduction
  <2> QED  BY <2>1
<1> QED  BY <1>3

(* Natural numbers have a least one among them.                             *)
LEMMA LeastNatural ==
    ASSUME NEW D, D \subseteq Nat, D # {}
    PROVE  Min(D) \in D /\ \A x \in D : Min(D) <= x
<1>1. \E m \in D : \A x \in D : m <= x
  <2> SUFFICES ASSUME ~\E m \in D : \A x \in D : m <= x PROVE FALSE
    OBVIOUS
  <2> DEFINE T == {n \in Nat : \A k \in 0 .. n : k \notin D}
  <2>1. 0 \in T
    OBVIOUS
  <2>2. ASSUME NEW n \in Nat, n \in T PROVE n + 1 \in T
    <3>1. n + 1 \notin D
      <4> SUFFICES ASSUME n + 1 \in D PROVE FALSE
        OBVIOUS
      <4>1. \A x \in D : n + 1 <= x
        BY <2>2
      <4> QED  BY <4>1
    <3> QED  BY <2>2, <3>1
  <2> HIDE DEF T
  <2>3. Nat \subseteq T
    BY <2>1, <2>2, NaturalInduction
  <2>4. PICK x \in D : TRUE
    OBVIOUS
  <2>5. x \in T /\ x \in 0 .. x
    BY <2>3, <2>4
  <2> QED  BY <2>4, <2>5 DEF T
<1> QED  BY <1>1 DEF Min

(* Division counts the multiples passed.                                    *)
LEMMA NextQuotient ==
    ASSUME NEW k \in Nat, NEW n \in Nat \ {0}
    PROVE  /\ k \div n \in Nat
           /\ (k + 1) \div n = k \div n + (IF (k + 1) % n = 0 THEN 1 ELSE 0)
<1> DEFINE q == k \div n
           r == k % n
<1>1. q \in Int /\ r \in 0 .. n - 1 /\ k = n * q + r
  OBVIOUS
<1> HIDE DEF q, r
<1>2. q >= 0
  <2>1. CASE q <= -1
    <3>1. n * q <= -n
      BY <2>1, <1>1
    <3> QED  BY <1>1, <3>1
  <2> QED  BY <1>1, <2>1
<1>3. CASE r = n - 1
  <2>1. k + 1 = n * (q + 1) + 0
    BY <1>1, <1>3
  <2>2. (k + 1) \div n = q + 1 /\ (k + 1) % n = 0
    BY <1>1, <2>1
  <2> QED  BY <1>1, <1>2, <2>2 DEF q
<1>4. CASE r < n - 1
  <2>1. k + 1 = n * q + (r + 1) /\ r + 1 \in 1 .. n - 1
    BY <1>1, <1>4
  <2>2. (k + 1) \div n = q /\ (k + 1) % n = r + 1
    BY <1>1, <2>1
  <2> QED  BY <1>1, <1>2, <2>1, <2>2 DEF q
<1> QED  BY <1>1, <1>3, <1>4

-----------------------------------------------------------------------------
(* The fold behind a sum takes the elements out in the order of Pick.       *)
Pick(s) == CHOOSE x \in s : TRUE

IsSum(f, D, g) == g = [s \in SUBSET D |-> IF s = {} THEN 0 ELSE f[Pick(s)] + g[s \ {Pick(s)}]]

Sums(f, D) == CHOOSE g : IsSum(f, D, g)

LEMMA SumUnfolds == ASSUME NEW f, NEW D PROVE SumFunctionOnSet(f, D) = Sums(f, D)[D]
BY DEF SumFunctionOnSet, FoldFunctionOnSet, MapThenFoldSet, IsSum, Sums, Pick

LEMMA Removal ==
    ASSUME NEW s, s # {}
    PROVE  Pick(s) \in s /\ s \ {Pick(s)} \in SUBSET s /\ s \ {Pick(s)} # s
<1>1. Pick(s) \in s
  BY DEF Pick
<1> QED  BY <1>1

LEMMA SumsAgree ==
    ASSUME NEW f, NEW D, IsFiniteSet(D), NEW A, NEW B, D \subseteq A, D \subseteq B,
           NEW g, NEW h, IsSum(f, A, g), IsSum(f, B, h)
    PROVE  \A s \in SUBSET D : g[s] = h[s]
<1> DEFINE T == {s \in SUBSET D : g[s] = h[s]}
<1>1. ASSUME NEW S \in SUBSET D, \A U \in SUBSET S : U # S => U \in T
      PROVE  S \in T
  <2>1. /\ g[S] = IF S = {} THEN 0 ELSE f[Pick(S)] + g[S \ {Pick(S)}]
        /\ h[S] = IF S = {} THEN 0 ELSE f[Pick(S)] + h[S \ {Pick(S)}]
    BY DEF IsSum
  <2>2. S # {} => g[S \ {Pick(S)}] = h[S \ {Pick(S)}]
    BY <1>1, Removal
  <2> QED  BY <2>1, <2>2
<1> HIDE DEF T
<1>2. SUBSET D \subseteq T
  BY <1>1, SubsetInduction
<1> QED  BY <1>2 DEF T

LEMMA SumsExist == ASSUME NEW f, NEW D, IsFiniteSet(D) PROVE IsSum(f, D, Sums(f, D))
<1> DEFINE T == {s \in SUBSET D : IsSum(f, s, Sums(f, s))}
<1>1. ASSUME NEW S \in SUBSET D, \A U \in SUBSET S : U # S => U \in T
      PROVE  S \in T
  <2> DEFINE G == [s \in SUBSET S |->
                      IF s = {} THEN 0 ELSE f[Pick(s)] + Sums(f, s \ {Pick(s)})[s \ {Pick(s)}]]
  <2>1. ASSUME NEW s \in SUBSET S, s # {}
        PROVE  Sums(f, s \ {Pick(s)})[s \ {Pick(s)}] = G[s \ {Pick(s)}]
    <3> DEFINE r == s \ {Pick(s)}
    <3>1. r \in SUBSET S /\ r # S /\ r \in T /\ IsFiniteSet(r)
      BY <1>1, <2>1, Removal, FS_Subset
    <3>2. IsSum(f, r, Sums(f, r))
      BY <3>1
    <3>3. CASE r = {}
      BY <3>2, <3>3 DEF IsSum
    <3>4. CASE r # {}
      <4> DEFINE q == r \ {Pick(r)}
      <4>1. q \in SUBSET S /\ q # S /\ q \in T /\ IsFiniteSet(q) /\ q \in SUBSET r
        BY <1>1, <3>1, <3>4, Removal, FS_Subset
      <4>2. IsSum(f, q, Sums(f, q))
        BY <4>1
      <4>3. Sums(f, r)[q] = Sums(f, q)[q]
        <5> HIDE DEF q, r
        <5> QED  BY <3>2, <4>1, <4>2, SumsAgree
      <4>4. Sums(f, r)[r] = f[Pick(r)] + Sums(f, r)[q]
        BY <3>2, <3>4 DEF IsSum
      <4> QED  BY <3>1, <3>4, <4>3, <4>4
    <3> QED  BY <3>3, <3>4
  <2>2. G = [s \in SUBSET S |-> IF s = {} THEN 0 ELSE f[Pick(s)] + G[s \ {Pick(s)}]]
    BY <2>1
  <2> HIDE DEF G
  <2>3. IsSum(f, S, G)
    BY <2>2 DEF IsSum
  <2>4. IsSum(f, S, Sums(f, S))
    BY <2>3 DEF Sums
  <2> QED  BY <2>4
<1> HIDE DEF T
<1>2. SUBSET D \subseteq T
  BY <1>1, SubsetInduction
<1> QED  BY <1>2 DEF T

(* The equations of a sum: nothing, or one element and the rest.             *)
LEMMA SumEmpty == ASSUME NEW f PROVE SumFunctionOnSet(f, {}) = 0
<1>1. IsSum(f, {}, Sums(f, {}))
  BY SumsExist, FS_EmptySet
<1> QED  BY <1>1, SumUnfolds DEF IsSum

LEMMA SumStep ==
    ASSUME NEW f, NEW D, IsFiniteSet(D), D # {}
    PROVE  SumFunctionOnSet(f, D) = f[Pick(D)] + SumFunctionOnSet(f, D \ {Pick(D)})
<1> DEFINE r == D \ {Pick(D)}
<1>1. r \subseteq D /\ IsFiniteSet(r)
  BY Removal, FS_Subset
<1>2. IsSum(f, D, Sums(f, D)) /\ IsSum(f, r, Sums(f, r))
  BY <1>1, SumsExist
<1>3. Sums(f, D)[D] = f[Pick(D)] + Sums(f, D)[r]
  BY <1>2 DEF IsSum
<1> HIDE DEF r
<1>4. \A s \in SUBSET r : Sums(f, D)[s] = Sums(f, r)[s]
  <2> DEFINE g == Sums(f, D)
             h == Sums(f, r)
  <2>1. IsSum(f, D, g) /\ IsSum(f, r, h) /\ r \subseteq r
    BY <1>2
  <2> HIDE DEF g, h
  <2>2. \A s \in SUBSET r : g[s] = h[s]
    BY <1>1, <2>1, SumsAgree
  <2> QED  BY <2>2 DEF g, h
<1>5. r \in SUBSET r
  OBVIOUS
<1> QED  BY <1>3, <1>4, <1>5, SumUnfolds DEF r

-----------------------------------------------------------------------------
(* Sums of integers are integers, and depend only on what is added.         *)
LEMMA SumType ==
    ASSUME NEW f, NEW D, IsFiniteSet(D), \A x \in D : f[x] \in Int
    PROVE  SumFunctionOnSet(f, D) \in Int
<1> DEFINE T == {s \in SUBSET D : SumFunctionOnSet(f, s) \in Int}
<1>1. ASSUME NEW S \in SUBSET D, \A U \in SUBSET S : U # S => U \in T
      PROVE  S \in T
  <2>1. CASE S = {}
    BY <2>1, SumEmpty
  <2>2. CASE S # {}
    <3>1. IsFiniteSet(S) /\ Pick(S) \in D /\ S \ {Pick(S)} \in T
      BY <1>1, <2>2, FS_Subset, Removal
    <3>2. SumFunctionOnSet(f, S) = f[Pick(S)] + SumFunctionOnSet(f, S \ {Pick(S)})
      BY <2>2, <3>1, SumStep
    <3> QED  BY <3>1, <3>2
  <2> QED  BY <2>1, <2>2
<1> HIDE DEF T
<1>2. SUBSET D \subseteq T
  BY <1>1, SubsetInduction
<1> QED  BY <1>2 DEF T

LEMMA SumEqual ==
    ASSUME NEW f, NEW g, NEW D, IsFiniteSet(D), \A x \in D : f[x] = g[x]
    PROVE  SumFunctionOnSet(f, D) = SumFunctionOnSet(g, D)
<1> DEFINE T == {s \in SUBSET D : SumFunctionOnSet(f, s) = SumFunctionOnSet(g, s)}
<1>1. ASSUME NEW S \in SUBSET D, \A U \in SUBSET S : U # S => U \in T
      PROVE  S \in T
  <2>1. CASE S = {}
    BY <2>1, SumEmpty
  <2>2. CASE S # {}
    <3>1. IsFiniteSet(S) /\ Pick(S) \in D /\ S \ {Pick(S)} \in T
      BY <1>1, <2>2, FS_Subset, Removal
    <3>2. /\ SumFunctionOnSet(f, S) = f[Pick(S)] + SumFunctionOnSet(f, S \ {Pick(S)})
          /\ SumFunctionOnSet(g, S) = g[Pick(S)] + SumFunctionOnSet(g, S \ {Pick(S)})
      BY <2>2, <3>1, SumStep
    <3> QED  BY <3>1, <3>2
  <2> QED  BY <2>1, <2>2
<1> HIDE DEF T
<1>2. SUBSET D \subseteq T
  BY <1>1, SubsetInduction
<1> QED  BY <1>2 DEF T

(* Any element can be taken out first.                                      *)
LEMMA SumRemove ==
    ASSUME NEW f, NEW D, IsFiniteSet(D), \A x \in D : f[x] \in Int, NEW k \in D
    PROVE  SumFunctionOnSet(f, D) = f[k] + SumFunctionOnSet(f, D \ {k})
<1> DEFINE T == {s \in SUBSET D : \A x \in s :
                    SumFunctionOnSet(f, s) = f[x] + SumFunctionOnSet(f, s \ {x})}
<1>1. ASSUME NEW S \in SUBSET D, \A U \in SUBSET S : U # S => U \in T
      PROVE  S \in T
  <2> SUFFICES ASSUME NEW x \in S
               PROVE  SumFunctionOnSet(f, S) = f[x] + SumFunctionOnSet(f, S \ {x})
    OBVIOUS
  <2> DEFINE p == Pick(S)
  <2>1. IsFiniteSet(S) /\ p \in S /\ S # {}
    BY FS_Subset, Removal
  <2>2. SumFunctionOnSet(f, S) = f[p] + SumFunctionOnSet(f, S \ {p})
    BY <2>1, SumStep
  <2>3. CASE p # x
    <3> HIDE DEF p
    <3>1. S \ {p} \in T /\ S \ {x} \in T /\ x \in S \ {p} /\ p \in S \ {x}
      BY <1>1, <2>1, <2>3
    <3>2. SumFunctionOnSet(f, S \ {p}) = f[x] + SumFunctionOnSet(f, (S \ {p}) \ {x})
      BY <3>1
    <3>3. SumFunctionOnSet(f, S \ {x}) = f[p] + SumFunctionOnSet(f, (S \ {x}) \ {p})
      BY <3>1
    <3>4. (S \ {x}) \ {p} = (S \ {p}) \ {x}
      OBVIOUS
    <3> DEFINE rest == SumFunctionOnSet(f, (S \ {p}) \ {x})
    <3>5. rest \in Int
      <4>1. IsFiniteSet((S \ {p}) \ {x}) /\ \A y \in (S \ {p}) \ {x} : f[y] \in Int
        BY <2>1, FS_Subset
      <4> QED  BY <4>1, SumType
    <3>6. f[p] \in Int /\ f[x] \in Int
      BY <2>1
    <3>7. /\ SumFunctionOnSet(f, S) = f[p] + (f[x] + rest)
          /\ SumFunctionOnSet(f, S \ {x}) = f[p] + rest
      BY <2>2, <3>2, <3>3, <3>4
    <3> HIDE DEF rest
    <3> QED  BY <3>5, <3>6, <3>7
  <2> QED  BY <2>2, <2>3
<1>2. SUBSET D \subseteq T
  <2> HIDE DEF T
  <2> QED  BY <1>1, SubsetInduction
<1>3. D \in T
  <2> HIDE DEF T
  <2> QED  BY <1>2
<1> QED  BY <1>3

(* Induction over a finite set, one element at a time.                      *)
LEMMA ElementInduction ==
    ASSUME NEW D, IsFiniteSet(D), NEW T, {} \in T,
           \A S \in SUBSET D : \A k \in D \ S : S \in T => S \cup {k} \in T
    PROVE  D \in T
<1>1. ASSUME NEW S \in SUBSET D, \A U \in SUBSET S : U # S => U \in T
      PROVE  S \in T
  <2>1. CASE S # {}
    <3>1. PICK k \in S : TRUE
      BY <2>1
    <3>2. S \ {k} \in T /\ k \in D \ (S \ {k}) /\ (S \ {k}) \cup {k} = S
      BY <1>1
    <3> QED  BY <3>2
  <2> QED  BY <2>1
<1>2. SUBSET D \subseteq T
  BY <1>1, SubsetInduction
<1> QED  BY <1>2

LEMMA SumInsert ==
    ASSUME NEW f, NEW S, IsFiniteSet(S), NEW k, k \notin S, \A x \in S \cup {k} : f[x] \in Int
    PROVE  SumFunctionOnSet(f, S \cup {k}) = f[k] + SumFunctionOnSet(f, S)
<1> DEFINE D == S \cup {k}
<1>1. IsFiniteSet(D) /\ k \in D /\ D \ {k} = S
  BY FS_AddElement
<1> HIDE DEF D
<1>2. SumFunctionOnSet(f, D) = f[k] + SumFunctionOnSet(f, D \ {k})
  BY <1>1, SumRemove DEF D
<1> QED  BY <1>1, <1>2 DEF D

(* Sums are linear.                                                         *)
LEMMA SumLinear ==
    ASSUME NEW D, IsFiniteSet(D), NEW a \in Int, NEW b \in Int, NEW f, NEW g, NEW h,
           \A x \in D : f[x] \in Int /\ g[x] \in Int /\ h[x] = a * f[x] + b * g[x]
    PROVE  SumFunctionOnSet(h, D) = a * SumFunctionOnSet(f, D) + b * SumFunctionOnSet(g, D)
<1> DEFINE T == {s \in SUBSET D : SumFunctionOnSet(h, s) =
                    a * SumFunctionOnSet(f, s) + b * SumFunctionOnSet(g, s)}
<1>1. {} \in T
  BY SumEmpty
<1>2. ASSUME NEW S \in SUBSET D, NEW k \in D \ S, S \in T
      PROVE  S \cup {k} \in T
  <2>1. IsFiniteSet(S) /\ \A x \in S \cup {k} : f[x] \in Int /\ g[x] \in Int /\ h[x] \in Int
    BY FS_Subset
  <2>2. /\ SumFunctionOnSet(f, S) \in Int /\ SumFunctionOnSet(g, S) \in Int
        /\ SumFunctionOnSet(h, S \cup {k}) = h[k] + SumFunctionOnSet(h, S)
        /\ SumFunctionOnSet(f, S \cup {k}) = f[k] + SumFunctionOnSet(f, S)
        /\ SumFunctionOnSet(g, S \cup {k}) = g[k] + SumFunctionOnSet(g, S)
    BY <2>1, SumInsert, SumType
  <2> DEFINE F == SumFunctionOnSet(f, S)
             G == SumFunctionOnSet(g, S)
             u == f[k]
             v == g[k]
  <2>3. F \in Int /\ G \in Int /\ u \in Int /\ v \in Int
    BY <2>1, <2>2
  <2> HIDE DEF F, G, u, v
  <2>4. (a * u + b * v) + (a * F + b * G) = a * (u + F) + b * (v + G)
    BY <2>3
  <2>5. SumFunctionOnSet(h, S \cup {k}) = (a * u + b * v) + (a * F + b * G)
    BY <1>2, <2>2 DEF F, G, u, v
  <2> QED  BY <2>2, <2>4, <2>5 DEF F, G, u, v
<1>3. D \in T
  <2> HIDE DEF T
  <2> QED  BY <1>1, <1>2, ElementInduction
<1> QED  BY <1>3

(* The same for a function named as a mix of two others.                    *)
IsMix(h, a, f, b, g, D) ==
    /\ IsFiniteSet(D) /\ a \in Int /\ b \in Int
    /\ \A v \in D : f[v] \in Int /\ g[v] \in Int /\ h[v] = a * f[v] + b * g[v]

LEMMA SumMix ==
    ASSUME NEW D, NEW a, NEW b, NEW f, NEW g, NEW h, IsMix(h, a, f, b, g, D)
    PROVE  SumFunctionOnSet(h, D) = a * SumFunctionOnSet(f, D) + b * SumFunctionOnSet(g, D)
<1>1. IsFiniteSet(D) /\ a \in Int /\ b \in Int
  BY DEF IsMix
<1>2. \A v \in D : f[v] \in Int /\ g[v] \in Int /\ h[v] = a * f[v] + b * g[v]
  BY DEF IsMix
<1> QED  BY <1>1, <1>2, SumLinear

(* Sums are monotone.                                                       *)
LEMMA SumMonotone ==
    ASSUME NEW D, IsFiniteSet(D), NEW f, NEW g,
           \A x \in D : f[x] \in Int /\ g[x] \in Int /\ f[x] <= g[x]
    PROVE  SumFunctionOnSet(f, D) <= SumFunctionOnSet(g, D)
<1> DEFINE T == {s \in SUBSET D : SumFunctionOnSet(f, s) <= SumFunctionOnSet(g, s)}
<1>1. {} \in T
  BY SumEmpty
<1>2. ASSUME NEW S \in SUBSET D, NEW k \in D \ S, S \in T
      PROVE  S \cup {k} \in T
  <2>1. IsFiniteSet(S) /\ \A x \in S \cup {k} : f[x] \in Int /\ g[x] \in Int
    BY FS_Subset
  <2>2. /\ SumFunctionOnSet(f, S) \in Int /\ SumFunctionOnSet(g, S) \in Int
        /\ SumFunctionOnSet(f, S \cup {k}) = f[k] + SumFunctionOnSet(f, S)
        /\ SumFunctionOnSet(g, S \cup {k}) = g[k] + SumFunctionOnSet(g, S)
    BY <2>1, SumInsert, SumType
  <2>3. f[k] \in Int /\ g[k] \in Int /\ f[k] <= g[k] 
        /\ SumFunctionOnSet(f, S) <= SumFunctionOnSet(g, S)
    BY <1>2
  <2> QED  BY <2>2, <2>3
<1>3. D \in T
  <2> HIDE DEF T
  <2> QED  BY <1>1, <1>2, ElementInduction
<1> QED  BY <1>3

(* The sum over a whole function, as the models use it.                     *)
LEMMA SumWhole == ASSUME NEW f PROVE SumFunction(f) = SumFunctionOnSet(f, DOMAIN f)
BY DEF SumFunction

-----------------------------------------------------------------------------
(* Double sums over a symmetric table with nothing on its diagonal: every   *)
(* pair counts twice.                                                       *)
IsSymmetric(w, D) ==
    /\ \A i, j \in D : w[i][j] \in Int /\ w[i][j] = w[j][i]
    /\ \A i \in D : w[i][i] = 0

Row(w, D, i) == SumFunctionOnSet(w[i], D)

Rows(w, D) == [i \in D |-> Row(w, D, i)]

Twice(w, D) == SumFunctionOnSet(Rows(w, D), D)

LEMMA TwiceType ==
    ASSUME NEW D, IsFiniteSet(D), NEW w, IsSymmetric(w, D)
    PROVE  /\ Twice(w, D) \in Int
           /\ \A i \in D : Row(w, D, i) \in Int /\ Rows(w, D)[i] = Row(w, D, i)
<1>1. ASSUME NEW i \in D PROVE Row(w, D, i) \in Int /\ Rows(w, D)[i] = Row(w, D, i)
  <2>1. \A j \in D : w[i][j] \in Int
    BY DEF IsSymmetric
  <2> QED  BY <2>1, SumType DEF Row, Rows
<1>2. Twice(w, D) \in Int
  BY <1>1, SumType DEF Twice
<1> QED  BY <1>1, <1>2

(* Taking an element out removes its row and its column, which are equal.   *)
LEMMA TwiceRemove ==
    ASSUME NEW D, IsFiniteSet(D), NEW w, IsSymmetric(w, D), NEW k \in D
    PROVE  Twice(w, D) = Twice(w, D \ {k}) + 2 * Row(w, D, k)
<1> DEFINE E == D \ {k}
           c == w[k]
           f == Rows(w, D)
           g == Rows(w, E)
<1>1. IsFiniteSet(E) /\ E \subseteq D /\ IsSymmetric(w, E) /\ k \notin E
  BY FS_RemoveElement DEF IsSymmetric
<1>2. \A i \in E : f[i] \in Int /\ g[i] \in Int /\ c[i] \in Int /\ f[i] = 1 * g[i] + 1 * c[i]
  <2> SUFFICES ASSUME NEW i \in E
               PROVE  f[i] \in Int /\ g[i] \in Int /\ c[i] \in Int /\ f[i] = 1 * g[i] + 1 * c[i]
    OBVIOUS
  <2> DEFINE v == w[i]
  <2>1. f[i] = SumFunctionOnSet(v, D) /\ g[i] = SumFunctionOnSet(v, E)
    BY <1>1 DEF Rows, Row
  <2>2. \A j \in D : v[j] \in Int
    BY <1>1 DEF IsSymmetric
  <2>3. c[i] = v[k] /\ c[i] \in Int
    BY <1>1 DEF IsSymmetric
  <2> HIDE DEF v, c
  <2>4. SumFunctionOnSet(v, D) = v[k] + SumFunctionOnSet(v, E)
    BY <2>2, SumRemove
  <2>5. SumFunctionOnSet(v, E) \in Int
    BY <1>1, <2>2, SumType
  <2> HIDE DEF f, g
  <2> QED  BY <2>1, <2>3, <2>4, <2>5
<1>3. Twice(w, D) = f[k] + SumFunctionOnSet(f, E)
  <2>1. \A i \in D : f[i] \in Int
    BY TwiceType
  <2> HIDE DEF f
  <2>2. SumFunctionOnSet(f, D) = f[k] + SumFunctionOnSet(f, E)
    BY <2>1, SumRemove
  <2> QED  BY <2>2 DEF f, Twice
<1>4. SumFunctionOnSet(f, E) = 1 * SumFunctionOnSet(g, E) + 1 * SumFunctionOnSet(c, E)
  <2> HIDE DEF f, g, c, E
  <2> QED  BY <1>1, <1>2, SumLinear
<1>5. f[k] = Row(w, D, k) /\ Row(w, D, k) = SumFunctionOnSet(c, E) /\ Row(w, D, k) \in Int
  <2>1. f[k] = Row(w, D, k) /\ Row(w, D, k) \in Int /\ Row(w, D, k) = SumFunctionOnSet(c, D)
    BY TwiceType DEF Row
  <2>2. c[k] = 0 /\ \A j \in D : c[j] \in Int
    BY DEF IsSymmetric
  <2> HIDE DEF c, f
  <2>3. SumFunctionOnSet(c, D) = c[k] + SumFunctionOnSet(c, E)
    BY <2>2, SumRemove
  <2>4. SumFunctionOnSet(c, E) \in Int
    BY <1>1, <2>2, SumType
  <2> QED  BY <2>1, <2>2, <2>3, <2>4
<1>6. SumFunctionOnSet(g, E) = Twice(w, E) /\ Twice(w, E) \in Int
  BY <1>1, TwiceType DEF Twice
<1> HIDE DEF f, g, c, E
<1> QED  BY <1>3, <1>4, <1>5, <1>6 DEF E

(* So it is even.                                                           *)
LEMMA TwiceIsEven ==
    ASSUME NEW D, IsFiniteSet(D), NEW w, IsSymmetric(w, D)
    PROVE  \E n \in Int : Twice(w, D) = 2 * n
<1> DEFINE T == {s \in SUBSET D : \E n \in Int : Twice(w, s) = 2 * n}
<1>1. {} \in T
  <2>1. Twice(w, {}) = 2 * 0
    BY SumEmpty DEF Twice
  <2> QED  BY <2>1
<1>2. ASSUME NEW S \in SUBSET D, NEW k \in D \ S, S \in T
      PROVE  S \cup {k} \in T
  <2> DEFINE E == S \cup {k}
  <2>1. IsFiniteSet(E) /\ IsSymmetric(w, E) /\ k \in E /\ E \ {k} = S /\ E \in SUBSET D
    BY FS_Subset DEF IsSymmetric
  <2> HIDE DEF E
  <2>2. Twice(w, E) = Twice(w, S) + 2 * Row(w, E, k) /\ Row(w, E, k) \in Int
    BY <2>1, TwiceRemove, TwiceType
  <2>3. PICK n \in Int : Twice(w, S) = 2 * n
    BY <1>2
  <2>4. Twice(w, E) = 2 * (n + Row(w, E, k)) /\ n + Row(w, E, k) \in Int
    BY <2>2, <2>3
  <2>5. E \in T
    BY <2>1, <2>4
  <2> QED  BY <2>5 DEF E
<1>3. D \in T
  <2> HIDE DEF T
  <2> QED  BY <1>1, <1>2, ElementInduction
<1> QED  BY <1>3

LEMMA TwiceEqual ==
    ASSUME NEW D, IsFiniteSet(D), NEW v, NEW w, \A i, j \in D : v[i][j] = w[i][j]
    PROVE  Twice(v, D) = Twice(w, D) /\ \A i \in D : Row(v, D, i) = Row(w, D, i)
<1>1. ASSUME NEW i \in D PROVE Row(v, D, i) = Row(w, D, i)
  <2> DEFINE f == v[i]
             g == w[i]
  <2>1. \A j \in D : f[j] = g[j]
    OBVIOUS
  <2> HIDE DEF f, g
  <2>2. SumFunctionOnSet(f, D) = SumFunctionOnSet(g, D)
    BY <2>1, SumEqual
  <2> QED  BY <2>2 DEF f, g, Row
<1>2. Rows(v, D) = Rows(w, D)
  BY <1>1 DEF Rows
<1> QED  BY <1>1, <1>2 DEF Twice

(* Turning the sign of one row and column takes it out twice over.          *)
LEMMA TwiceTurned ==
    ASSUME NEW D, IsFiniteSet(D), NEW v, NEW w, IsSymmetric(v, D), IsSymmetric(w, D), NEW k \in D,
           \A i, j \in D : v[i][j] = IF i = k \/ j = k THEN -w[i][j] ELSE w[i][j]
    PROVE  Twice(v, D) = Twice(w, D) - 4 * Row(w, D, k)
<1> DEFINE E == D \ {k}
           f == v[k]
           g == w[k]
<1>1. IsFiniteSet(E) /\ k \notin E
  BY FS_RemoveElement
<1>2. \A i, j \in E : v[i][j] = w[i][j]
  OBVIOUS
<1>3. \A j \in D : g[j] \in Int /\ f[j] = (-1) * g[j] + 0 * g[j]
  BY DEF IsSymmetric
<1>4. Row(v, D, k) = SumFunctionOnSet(f, D) /\ Row(w, D, k) = SumFunctionOnSet(g, D)
  BY DEF Row
<1>5. Row(w, D, k) \in Int /\ Row(v, D, k) \in Int
  BY TwiceType
<1> HIDE DEF E, f, g
<1>6. Twice(v, E) = Twice(w, E)
  BY <1>1, <1>2, TwiceEqual
<1>7. SumFunctionOnSet(f, D) = (-1) * SumFunctionOnSet(g, D) + 0 * SumFunctionOnSet(g, D)
  <2>1. -1 \in Int /\ 0 \in Int
    OBVIOUS
  <2> QED  BY <1>3, <2>1, SumLinear
<1>8. Row(v, D, k) = -Row(w, D, k)
  BY <1>4, <1>5, <1>7
<1>9. /\ Twice(v, D) = Twice(v, E) + 2 * Row(v, D, k)
      /\ Twice(w, D) = Twice(w, E) + 2 * Row(w, D, k)
  BY TwiceRemove DEF E
<1>10. Twice(w, E) \in Int
  <2>1. IsSymmetric(w, E)
    BY DEF IsSymmetric, E
  <2> QED  BY <1>1, <2>1, TwiceType
<1> QED  BY <1>5, <1>6, <1>8, <1>9, <1>10

(* A finite set of numbers that is not empty has a largest one.             *)
LEMMA LargestExists ==
    ASSUME NEW D, IsFiniteSet(D), D \subseteq Int, D # {}
    PROVE  Max(D) \in D /\ \A x \in D : x <= Max(D)
<1> DEFINE T == {s \in SUBSET D : s # {} => \E m \in s : \A x \in s : x <= m}
<1>1. {} \in T
  OBVIOUS
<1>2. ASSUME NEW S \in SUBSET D, NEW k \in D \ S, S \in T
      PROVE  S \cup {k} \in T
  <2>1. CASE S = {}
    BY <2>1
  <2>2. CASE S # {}
    <3>1. PICK m \in S : \A x \in S : x <= m
      BY <1>2, <2>2
    <3>2. CASE k <= m
      BY <3>1, <3>2
    <3>3. CASE m <= k
      BY <3>1, <3>3
    <3>4. k <= m \/ m <= k
      OBVIOUS
    <3> QED  BY <3>2, <3>3, <3>4
  <2> QED  BY <2>1, <2>2
<1>3. D \in T
  <2> HIDE DEF T
  <2> QED  BY <1>1, <1>2, ElementInduction
<1>4. \E m \in D : \A x \in D : x <= m
  BY <1>3
<1> QED  BY <1>4 DEF Max

LEMMA SmallestExists ==
    ASSUME NEW D, IsFiniteSet(D), D \subseteq Int, D # {}
    PROVE  Min(D) \in D /\ \A x \in D : Min(D) <= x
<1> DEFINE T == {s \in SUBSET D : s # {} => \E m \in s : \A x \in s : m <= x}
<1>1. {} \in T
  OBVIOUS
<1>2. ASSUME NEW S \in SUBSET D, NEW k \in D \ S, S \in T
      PROVE  S \cup {k} \in T
  <2>1. CASE S = {}
    BY <2>1
  <2>2. CASE S # {}
    <3>1. PICK m \in S : \A x \in S : m <= x
      BY <1>2, <2>2
    <3>2. CASE k <= m
      BY <3>1, <3>2
    <3>3. CASE m <= k
      BY <3>1, <3>3
    <3>4. k <= m \/ m <= k
      OBVIOUS
    <3> QED  BY <3>2, <3>3, <3>4
  <2> QED  BY <2>1, <2>2
<1>3. D \in T
  <2> HIDE DEF T
  <2> QED  BY <1>1, <1>2, ElementInduction
<1>4. \E m \in D : \A x \in D : m <= x
  BY <1>3
<1> QED  BY <1>4 DEF Min

LEMMA SumUpdate ==
    ASSUME NEW D, IsFiniteSet(D), NEW k \in D, NEW f, NEW g,
           \A x \in D : f[x] \in Int /\ g[x] \in Int, \A x \in D \ {k} : f[x] = g[x]
    PROVE  SumFunctionOnSet(g, D) = SumFunctionOnSet(f, D) - f[k] + g[k]
<1>1. IsFiniteSet(D \ {k})
  BY FS_RemoveElement
<1>2. SumFunctionOnSet(g, D \ {k}) = SumFunctionOnSet(f, D \ {k})
  <2> DEFINE E == D \ {k}
  <2>1. IsFiniteSet(E) /\ \A x \in E : f[x] = g[x]
    BY <1>1
  <2> HIDE DEF E
  <2>2. SumFunctionOnSet(f, E) = SumFunctionOnSet(g, E)
    BY <2>1, SumEqual
  <2> QED  BY <2>2 DEF E
<1>3. SumFunctionOnSet(f, D \ {k}) \in Int
  <2> DEFINE E == D \ {k}
  <2>1. IsFiniteSet(E) /\ \A x \in E : f[x] \in Int
    BY <1>1
  <2> HIDE DEF E
  <2>2. SumFunctionOnSet(f, E) \in Int
    BY <2>1, SumType
  <2> QED  BY <2>2 DEF E
<1>4. /\ SumFunctionOnSet(f, D) = f[k] + SumFunctionOnSet(f, D \ {k})
      /\ SumFunctionOnSet(g, D) = g[k] + SumFunctionOnSet(g, D \ {k})
  BY SumRemove
<1> QED  BY <1>2, <1>3, <1>4

(* The order of summation does not matter.                                  *)
LEMMA SumOrder ==
    ASSUME NEW A, NEW B, IsFiniteSet(A), IsFiniteSet(B), NEW w,
           \A i \in A : \A j \in B : w[i][j] \in Int
    PROVE  SumFunctionOnSet([i \in A |-> SumFunctionOnSet(w[i], B)], A) =
           SumFunctionOnSet([j \in B |-> SumFunctionOnSet([i \in A |-> w[i][j]], A)], B)
<1> DEFINE F == [i \in A |-> SumFunctionOnSet(w[i], B)]
           C(j) == [i \in A |-> w[i][j]]
           G(s) == [j \in B |-> SumFunctionOnSet(C(j), s)]
           T == {s \in SUBSET A : SumFunctionOnSet(F, s) = SumFunctionOnSet(G(s), B)}
<1>0. \A i \in A : F[i] \in Int /\ F[i] = SumFunctionOnSet(w[i], B)
  <2> SUFFICES ASSUME NEW i \in A PROVE SumFunctionOnSet(w[i], B) \in Int
    OBVIOUS
  <2>1. \A j \in B : w[i][j] \in Int
    OBVIOUS
  <2> QED  BY <2>1, SumType
<1>1. {} \in T
  <2> DEFINE g == G({})
  <2>1. \A j \in B : g[j] \in Int /\ g[j] = 0 * g[j] + 0 * g[j]
    BY SumEmpty
  <2> HIDE DEF g
  <2>2. SumFunctionOnSet(g, B) = 0 * SumFunctionOnSet(g, B) + 0 * SumFunctionOnSet(g, B)
    <3>1. 0 \in Int
      OBVIOUS
    <3> QED  BY <2>1, <3>1, SumLinear
  <2>3. SumFunctionOnSet(g, B) \in Int
    BY <2>1, SumType
  <2>4. SumFunctionOnSet(g, B) = 0
    BY <2>2, <2>3
  <2> QED  BY <2>4, SumEmpty DEF g
<1>2. ASSUME NEW S \in SUBSET A, NEW k \in A \ S, S \in T
      PROVE  S \cup {k} \in T
  <2> DEFINE f == G(S)
             h == G(S \cup {k})
             r == w[k]
  <2>1. IsFiniteSet(S)
    BY FS_Subset
  <2>2. \A j \in B : f[j] \in Int /\ r[j] \in Int /\ h[j] = 1 * r[j] + 1 * f[j]
    <3> SUFFICES ASSUME NEW j \in B
                 PROVE  f[j] \in Int /\ r[j] \in Int /\ h[j] = 1 * r[j] + 1 * f[j]
      OBVIOUS
    <3> DEFINE c == C(j)
    <3>1. c[k] = r[j] /\ r[j] \in Int /\ \A i \in A : c[i] \in Int
      OBVIOUS
    <3>2. f[j] = SumFunctionOnSet(c, S) /\ h[j] = SumFunctionOnSet(c, S \cup {k})
      OBVIOUS
    <3> HIDE DEF c, f, h, r
    <3>3. SumFunctionOnSet(c, S \cup {k}) = c[k] + SumFunctionOnSet(c, S)
      BY <2>1, <3>1, SumInsert
    <3>4. SumFunctionOnSet(c, S) \in Int
      BY <2>1, <3>1, SumType
    <3> QED  BY <3>1, <3>2, <3>3, <3>4
  <2>3. SumFunctionOnSet(h, B) = 1 * SumFunctionOnSet(r, B) + 1 * SumFunctionOnSet(f, B)
    <3>1. 1 \in Int
      OBVIOUS
    <3> HIDE DEF f, h, r
    <3> QED  BY <2>2, <3>1, SumLinear
  <2>4. SumFunctionOnSet(r, B) \in Int /\ SumFunctionOnSet(f, B) \in Int
    <3> HIDE DEF f, h, r
    <3> QED  BY <2>2, SumType
  <2>5. SumFunctionOnSet(F, S \cup {k}) = F[k] + SumFunctionOnSet(F, S)
    <3> HIDE DEF F
    <3> QED  BY <1>0, <2>1, SumInsert
  <2>6. F[k] = SumFunctionOnSet(r, B) /\ SumFunctionOnSet(F, S) = SumFunctionOnSet(f, B)
    BY <1>0, <1>2
  <2>7. SumFunctionOnSet(F, S \cup {k}) = SumFunctionOnSet(h, B)
    <3> HIDE DEF F, f, h, r
    <3> QED  BY <2>3, <2>4, <2>5, <2>6
  <2> QED  BY <2>7
<1>3. A \in T
  <2> HIDE DEF T
  <2> QED  BY <1>1, <1>2, ElementInduction
<1> QED  BY <1>3

(* A sum of multiples is a multiple of the sum.                             *)
LEMMA SumScaled ==
    ASSUME NEW D, IsFiniteSet(D), NEW a \in Int, NEW f, NEW h,
           \A x \in D : f[x] \in Int /\ h[x] = a * f[x]
    PROVE  SumFunctionOnSet(h, D) = a * SumFunctionOnSet(f, D)
<1> DEFINE b == 0
<1>1. b \in Int /\ b = 0
  OBVIOUS
<1> HIDE DEF b
<1>2. \A x \in D : f[x] \in Int /\ f[x] \in Int /\ h[x] = a * f[x] + b * f[x]
  BY <1>1
<1>3. SumFunctionOnSet(h, D) = a * SumFunctionOnSet(f, D) + b * SumFunctionOnSet(f, D)
  BY <1>1, <1>2, SumLinear
<1>4. SumFunctionOnSet(f, D) \in Int
  BY SumType
<1> QED  BY <1>1, <1>3, <1>4

LEMMA SumZero ==
    ASSUME NEW D, IsFiniteSet(D), NEW f, \A x \in D : f[x] = 0
    PROVE  SumFunctionOnSet(f, D) = 0
<1> DEFINE T == {s \in SUBSET D : SumFunctionOnSet(f, s) = 0}
<1>1. {} \in T
  BY SumEmpty
<1>2. ASSUME NEW S \in SUBSET D, NEW k \in D \ S, S \in T PROVE S \cup {k} \in T
  <2>1. IsFiniteSet(S)
    BY FS_Subset
  <2>2. k \notin S /\ f[k] = 0 /\ \A x \in S \cup {k} : f[x] \in Int
    OBVIOUS
  <2>3. SumFunctionOnSet(f, S \cup {k}) = 0 + SumFunctionOnSet(f, S)
    BY <2>1, <2>2, SumInsert
  <2> QED  BY <1>2, <2>3
<1>3. D \in T
  <2> HIDE DEF T
  <2> QED  BY <1>1, <1>2, ElementInduction
<1> QED  BY <1>3

(* A sum of numbers that are not negative is at least any two of them.      *)
LEMMA SumOfNaturals ==
    ASSUME NEW D, IsFiniteSet(D), NEW f, \A x \in D : f[x] \in Nat
    PROVE  /\ SumFunctionOnSet(f, D) \in Nat
           /\ \A k \in D : f[k] <= SumFunctionOnSet(f, D)
           /\ \A k, l \in D : k # l => f[k] + f[l] <= SumFunctionOnSet(f, D)
<1>1. ASSUME NEW S \in SUBSET D
      PROVE  SumFunctionOnSet(f, S) \in Nat /\ IsFiniteSet(S)
  <2> DEFINE z == [x \in S |-> 0]
  <2>1. IsFiniteSet(S)
    BY FS_Subset
  <2>2. \A x \in S : z[x] \in Int /\ f[x] \in Int /\ z[x] <= f[x]
    OBVIOUS
  <2>3. \A x \in S : z[x] = 0
    OBVIOUS
  <2> HIDE DEF z
  <2>4. SumFunctionOnSet(z, S) <= SumFunctionOnSet(f, S) /\ SumFunctionOnSet(z, S) = 0
    BY <2>1, <2>2, <2>3, SumMonotone, SumZero
  <2>5. SumFunctionOnSet(f, S) \in Int
    BY <2>1, <2>2, SumType
  <2> QED  BY <2>1, <2>4, <2>5
<1>2. ASSUME NEW S \in SUBSET D, NEW k \in S
      PROVE  SumFunctionOnSet(f, S) = f[k] + SumFunctionOnSet(f, S \ {k})
  <2>1. IsFiniteSet(S) /\ \A x \in S : f[x] \in Int
    BY <1>1
  <2> QED  BY <2>1, SumRemove
<1>3. ASSUME NEW k \in D PROVE f[k] <= SumFunctionOnSet(f, D)
  <2> DEFINE E == D \ {k}
  <2>1. E \in SUBSET D /\ D \in SUBSET D /\ f[k] \in Nat
    OBVIOUS
  <2>2. SumFunctionOnSet(f, D) = f[k] + SumFunctionOnSet(f, E)
    BY <1>2, <2>1
  <2>3. SumFunctionOnSet(f, E) \in Nat
    BY <1>1, <2>1
  <2> QED  BY <2>1, <2>2, <2>3
<1>4. ASSUME NEW k \in D, NEW l \in D, k # l PROVE f[k] + f[l] <= SumFunctionOnSet(f, D)
  <2> DEFINE E == D \ {k}
             F == E \ {l}
  <2>1. E \in SUBSET D /\ F \in SUBSET D /\ D \in SUBSET D /\ l \in E
    BY <1>4
  <2>2. SumFunctionOnSet(f, D) = f[k] + SumFunctionOnSet(f, E)
    BY <1>2, <2>1
  <2>3. SumFunctionOnSet(f, E) = f[l] + SumFunctionOnSet(f, F)
    BY <1>2, <2>1
  <2>4. SumFunctionOnSet(f, F) \in Nat /\ f[k] \in Nat /\ f[l] \in Nat
    BY <1>1, <2>1
  <2> HIDE DEF E, F
  <2> QED  BY <2>2, <2>3, <2>4
<1> QED  BY <1>1, <1>3, <1>4

LEMMA SumSingle ==
    ASSUME NEW D, IsFiniteSet(D), NEW k \in D, NEW f, f[k] \in Int, \A x \in D \ {k} : f[x] = 0
    PROVE  SumFunctionOnSet(f, D) = f[k]
<1> DEFINE E == D \ {k}
<1>1. IsFiniteSet(E)
  BY FS_RemoveElement
<1>2. \A x \in D : f[x] \in Int
  OBVIOUS
<1>3. SumFunctionOnSet(f, D) = f[k] + SumFunctionOnSet(f, E)
  BY <1>2, SumRemove
<1>4. SumFunctionOnSet(f, E) = 0
  BY <1>1, SumZero
<1> QED  BY <1>3, <1>4

(* A sum, group by group.                                                   *)
OfGroup(f, V, g, a) == [v \in V |-> IF g[v] = a THEN f[v] ELSE 0]

LEMMA SumByGroup ==
    ASSUME NEW V, NEW A, IsFiniteSet(V), IsFiniteSet(A), NEW g \in [V -> A],
           NEW f, \A v \in V : f[v] \in Int
    PROVE  SumFunctionOnSet(f, V) =
           SumFunctionOnSet([a \in A |-> SumFunctionOnSet(OfGroup(f, V, g, a), V)], A)
<1> DEFINE w == [v \in V |-> [a \in A |-> IF g[v] = a THEN f[v] ELSE 0]]
           R == [v \in V |-> SumFunctionOnSet(w[v], A)]
           C == [a \in A |-> SumFunctionOnSet([v \in V |-> w[v][a]], V)]
<1>1. \A v \in V : \A a \in A : w[v][a] \in Int
  OBVIOUS
<1>2. ASSUME NEW v \in V PROVE R[v] = f[v]
  <2> DEFINE u == w[v]
  <2>1. g[v] \in A /\ u[g[v]] = f[v] /\ u[g[v]] \in Int /\ \A a \in A \ {g[v]} : u[a] = 0
    OBVIOUS
  <2> HIDE DEF u
  <2>2. SumFunctionOnSet(u, A) = u[g[v]]
    BY <2>1, SumSingle
  <2> QED  BY <2>1, <2>2 DEF u
<1>3. \A a \in A : [v \in V |-> w[v][a]] = OfGroup(f, V, g, a)
  BY DEF OfGroup
<1>4. C = [a \in A |-> SumFunctionOnSet(OfGroup(f, V, g, a), V)]
  BY <1>3
<1>5. SumFunctionOnSet(R, V) = SumFunctionOnSet(C, A)
  <2> HIDE DEF w
  <2> QED  BY <1>1, SumOrder
<1>6. SumFunctionOnSet(R, V) = SumFunctionOnSet(f, V)
  <2> HIDE DEF R
  <2> QED  BY <1>2, SumEqual
<1> QED  BY <1>4, <1>5, <1>6

LEMMA SumOfOnes ==
    ASSUME NEW D, IsFiniteSet(D)
    PROVE  SumFunctionOnSet([x \in D |-> 1], D) = Cardinality(D)
<1> DEFINE f == [x \in D |-> 1]
           T == {S \in SUBSET D : SumFunctionOnSet(f, S) = Cardinality(S)}
<1>1. {} \in T
  BY SumEmpty, FS_EmptySet
<1>2. ASSUME NEW S \in SUBSET D, NEW k \in D \ S, S \in T PROVE S \cup {k} \in T
  <2>1. IsFiniteSet(S) /\ k \notin S /\ \A x \in S \cup {k} : f[x] \in Int
    BY FS_Subset
  <2>2. f[k] = 1
    OBVIOUS
  <2> HIDE DEF f
  <2>3. SumFunctionOnSet(f, S \cup {k}) = 1 + SumFunctionOnSet(f, S)
    BY <2>1, <2>2, SumInsert
  <2>4. Cardinality(S \cup {k}) = Cardinality(S) + 1 /\ Cardinality(S) \in Nat
    BY <2>1, FS_AddElement, FS_CardinalityType
  <2> QED  BY <1>2, <2>3, <2>4
<1>3. D \in T
  <2> HIDE DEF T
  <2> QED  BY <1>1, <1>2, ElementInduction
<1> QED  BY <1>3

-----------------------------------------------------------------------------
(* The terms of a model's energy.                                           *)
IsState(m, s) == s \in [Vars(m) -> Int]

Biased(m, s) == [i \in Vars(m) |-> m.linear[i] * s[i]]

Coupled(m, s) == [i \in Vars(m) |-> [j \in Vars(m) |-> s[i] * m.quad[i][j] * s[j]]]

Pulled(m, s, i) == [j \in Vars(m) |-> m.quad[i][j] * s[j]]

LEMMA CoupledIsSymmetric ==
    ASSUME NEW m, IsModel(m), NEW s, IsState(m, s)
    PROVE  IsSymmetric(Coupled(m, s), Vars(m))
<1> DEFINE V == Vars(m)
<1>1. ASSUME NEW i \in V, NEW j \in V
      PROVE  Coupled(m, s)[i][j] \in Int /\ Coupled(m, s)[i][j] = Coupled(m, s)[j][i]
  <2> DEFINE a == s[i]
             b == s[j]
             c == m.quad[i][j]
  <2>1. a \in Int /\ b \in Int /\ c \in Int /\ m.quad[j][i] = c
    BY DEF IsModel, IsState
  <2>2. Coupled(m, s)[i][j] = a * c * b /\ Coupled(m, s)[j][i] = b * c * a
    BY <2>1 DEF Coupled
  <2> HIDE DEF a, b, c
  <2>3. a * c * b \in Int /\ a * c * b = b * c * a
    BY <2>1
  <2> QED  BY <2>2, <2>3
<1>2. ASSUME NEW i \in V PROVE Coupled(m, s)[i][i] = 0
  <2>1. s[i] \in Int /\ m.quad[i][i] = 0
    BY DEF IsModel, IsState
  <2> QED  BY <2>1 DEF Coupled
<1> QED  BY <1>1, <1>2 DEF IsSymmetric

(* Pulls and fields are numbers; a row of the couplings is a pull.          *)
LEMMA PullType ==
    ASSUME NEW m, IsModel(m), NEW s, IsState(m, s), NEW i \in Vars(m)
    PROVE  /\ Pull(m, s, i) \in Int /\ Field(m, s, i) \in Int
           /\ Pull(m, s, i) = SumFunctionOnSet(Pulled(m, s, i), Vars(m))
           /\ Row(Coupled(m, s), Vars(m), i) = s[i] * Pull(m, s, i)
<1> DEFINE V == Vars(m)
           f == Pulled(m, s, i)
           c == Coupled(m, s)[i]
           a == s[i]
<1>1. IsFiniteSet(V) /\ a \in Int /\ m.linear[i] \in Int
  BY DEF IsModel, IsState
<1>2. \A j \in V : f[j] \in Int /\ c[j] = a * f[j] + 0 * f[j]
  <2> SUFFICES ASSUME NEW j \in V PROVE f[j] \in Int /\ c[j] = a * f[j] + 0 * f[j]
    OBVIOUS
  <2> DEFINE q == m.quad[i][j]
             b == s[j]
  <2>1. q \in Int /\ b \in Int
    BY DEF IsModel, IsState
  <2>2. f[j] = q * b /\ c[j] = a * q * b
    BY DEF Pulled, Coupled
  <2> HIDE DEF q, b, f, c, a
  <2>3. q * b \in Int /\ a * q * b = a * (q * b)
    BY <1>1, <2>1
  <2>4. 0 * (q * b) = 0 /\ a * (q * b) \in Int
    BY <1>1, <2>3
  <2> QED  BY <2>2, <2>3, <2>4
<1>3. Pull(m, s, i) = SumFunctionOnSet(f, V)
  BY SumWhole DEF Pull, Pulled
<1>4. Row(Coupled(m, s), V, i) = SumFunctionOnSet(c, V)
  BY DEF Row
<1> HIDE DEF f, c, a, V
<1>5. SumFunctionOnSet(f, V) \in Int
  BY <1>1, <1>2, SumType
<1>6. SumFunctionOnSet(c, V) = a * SumFunctionOnSet(f, V) + 0 * SumFunctionOnSet(f, V)
  <2>1. 0 \in Int
    OBVIOUS
  <2> QED  BY <1>1, <1>2, <2>1, SumLinear
<1>7. Field(m, s, i) \in Int
  BY <1>1, <1>3, <1>5 DEF Field
<1>8. a * SumFunctionOnSet(f, V) \in Int
  BY <1>1, <1>5
<1> QED  BY <1>3, <1>4, <1>5, <1>6, <1>7, <1>8 DEF f, a, V

(* The energy as a sum of biases and a double sum of couplings.             *)
LEMMA EnergyIsTwice ==
    ASSUME NEW m, IsModel(m), NEW s, IsState(m, s)
    PROVE  /\ Energy(m, s) = m.offset + SumFunctionOnSet(Biased(m, s), Vars(m))
                               + Twice(Coupled(m, s), Vars(m)) \div 2
           /\ SumFunctionOnSet(Biased(m, s), Vars(m)) \in Int
           /\ Twice(Coupled(m, s), Vars(m)) \in Int
           /\ Energy(m, s) \in Int
<1> DEFINE V == Vars(m)
           f == [i \in V |-> s[i] * Pull(m, s, i)]
           b == Biased(m, s)
<1>1. IsFiniteSet(V) /\ m.offset \in Int
  BY DEF IsModel
<1>2. f = Rows(Coupled(m, s), V)
  BY PullType DEF Rows
<1>3. SumFunction(f) = Twice(Coupled(m, s), V)
  BY <1>2, SumWhole DEF Twice, Rows
<1>4. SumFunction(b) = SumFunctionOnSet(b, V)
  BY SumWhole DEF Biased
<1>5. \A i \in V : b[i] \in Int
  <2> SUFFICES ASSUME NEW i \in V PROVE b[i] \in Int
    OBVIOUS
  <2>1. m.linear[i] \in Int /\ s[i] \in Int
    BY DEF IsModel, IsState
  <2> QED  BY <2>1 DEF Biased
<1>6. SumFunctionOnSet(b, V) \in Int
  <2> HIDE DEF b, V
  <2> QED  BY <1>1, <1>5, SumType
<1>7. Twice(Coupled(m, s), V) \in Int
  BY <1>1, CoupledIsSymmetric, TwiceType
<1>8. Energy(m, s) = m.offset + SumFunction(b) + SumFunction(f) \div 2
  BY DEF Energy, Biased
<1> HIDE DEF f, b, V
<1> QED  BY <1>1, <1>3, <1>4, <1>6, <1>7, <1>8 DEF b, V

(* A flip changes the energy by minus twice the spin times its field.       *)
LEMMA EnergyAfterFlip ==
    ASSUME NEW m, IsModel(m), NEW s, IsState(m, s), NEW k \in Vars(m)
    PROVE  LET t == [s EXCEPT ![k] = -@]
           IN  IsState(m, t) /\ Energy(m, t) = Energy(m, s) + -2 * s[k] * Field(m, s, k)
<1> DEFINE V == Vars(m)
           t == [s EXCEPT ![k] = -@]
           W == Coupled(m, s)
           U == Coupled(m, t)
           f == Biased(m, s)
           g == Biased(m, t)
           a == s[k]
           p == Pull(m, s, k)
           h == m.linear[k]
<1>1. IsFiniteSet(V) /\ a \in Int /\ h \in Int /\ p \in Int /\ m.offset \in Int
  BY PullType DEF IsModel, IsState
<1>2. IsState(m, t)
  BY <1>1 DEF IsState
<1>3. IsSymmetric(W, V) /\ IsSymmetric(U, V)
  BY <1>2, CoupledIsSymmetric
<1>4. \A i, j \in V : U[i][j] = IF i = k \/ j = k THEN -W[i][j] ELSE W[i][j]
  <2> SUFFICES ASSUME NEW i \in V, NEW j \in V
               PROVE  U[i][j] = IF i = k \/ j = k THEN -W[i][j] ELSE W[i][j]
    OBVIOUS
  <2> DEFINE x == s[i]
             y == s[j]
             c == m.quad[i][j]
  <2>1. x \in Int /\ y \in Int /\ c \in Int /\ (i = j => c = 0)
    BY DEF IsModel, IsState
  <2>2. W[i][j] = x * c * y /\ U[i][j] = t[i] * c * t[j]
    BY DEF Coupled
  <2>3. t[i] = (IF i = k THEN -x ELSE x) /\ t[j] = IF j = k THEN -y ELSE y
    BY DEF IsState
  <2> HIDE DEF x, y, c, W, U, t
  <2>4. /\ (-x) * c * y = -(x * c * y) /\ x * c * (-y) = -(x * c * y)
        /\ (i = j => x * c * y = 0 /\ (-x) * c * (-y) = 0)
    BY <2>1
  <2>5. CASE i = k /\ j = k
    BY <2>2, <2>3, <2>4, <2>5
  <2>6. CASE i = k /\ j # k
    BY <2>2, <2>3, <2>4, <2>6
  <2>7. CASE i # k /\ j = k
    BY <2>2, <2>3, <2>4, <2>7
  <2>8. CASE i # k /\ j # k
    BY <2>2, <2>3, <2>8
  <2> QED  BY <2>5, <2>6, <2>7, <2>8
<1>5. Twice(U, V) = Twice(W, V) - 4 * Row(W, V, k) /\ Row(W, V, k) = a * p
  <2>1. Row(W, V, k) = a * p
    BY PullType
  <2> HIDE DEF W, U
  <2> QED  BY <1>1, <1>3, <1>4, <2>1, TwiceTurned
<1>6. SumFunctionOnSet(g, V) = SumFunctionOnSet(f, V) - h * a - h * a
  <2>1. \A x \in V : f[x] \in Int /\ g[x] \in Int
    <3> SUFFICES ASSUME NEW x \in V PROVE f[x] \in Int /\ g[x] \in Int
      OBVIOUS
    <3>1. m.linear[x] \in Int /\ s[x] \in Int /\ t[x] \in Int
      BY <1>2 DEF IsModel, IsState
    <3> QED  BY <3>1 DEF Biased
  <2>2. \A x \in V \ {k} : f[x] = g[x]
    BY DEF Biased, IsState
  <2>3. f[k] = h * a /\ g[k] = h * (-a)
    BY DEF Biased, IsState
  <2>4. SumFunctionOnSet(f, V) \in Int
    BY EnergyIsTwice
  <2> HIDE DEF f, g, h, a
  <2>5. SumFunctionOnSet(g, V) = SumFunctionOnSet(f, V) - f[k] + g[k]
    BY <1>1, <2>1, <2>2, SumUpdate
  <2>6. h * (-a) = -(h * a) /\ h * a \in Int
    BY <1>1
  <2> QED  BY <2>3, <2>4, <2>5, <2>6
<1>7. /\ Energy(m, s) = m.offset + SumFunctionOnSet(f, V) + Twice(W, V) \div 2
      /\ Energy(m, t) = m.offset + SumFunctionOnSet(g, V) + Twice(U, V) \div 2
      /\ SumFunctionOnSet(f, V) \in Int /\ Twice(W, V) \in Int
  BY <1>2, EnergyIsTwice
<1>8. Field(m, s, k) = h + p
  BY DEF Field
<1> HIDE DEF V, t, W, U, f, g, a, p, h
<1>9. a * p \in Int /\ h * a \in Int /\ -2 * a * (h + p) = -2 * (h * a) - 2 * (a * p)
  BY <1>1
<1>10. \A n \in Int, z \in Int : (n - 4 * z) \div 2 = n \div 2 - 2 * z
  OBVIOUS
<1>11. Twice(U, V) \div 2 = Twice(W, V) \div 2 - 2 * (a * p)
  BY <1>5, <1>7, <1>9, <1>10
<1>12. Twice(W, V) \div 2 \in Int
  BY <1>7
<1>13. Energy(m, t) = Energy(m, s) + -2 * a * (h + p)
  BY <1>1, <1>6, <1>7, <1>9, <1>11, <1>12
<1> QED  BY <1>2, <1>8, <1>13 DEF t, a

(* A flip moves every other field by twice the coupling times the old spin. *)
LEMMA FieldAfterFlip ==
    ASSUME NEW m, IsModel(m), NEW s, IsState(m, s), NEW k \in Vars(m), NEW j \in Vars(m)
    PROVE  Field(m, [s EXCEPT ![k] = -@], j) = Field(m, s, j) - 2 * m.quad[k][j] * s[k]
<1> DEFINE V == Vars(m)
           t == [s EXCEPT ![k] = -@]
           f == Pulled(m, s, j)
           g == Pulled(m, t, j)
           c == m.quad[k][j]
           a == s[k]
<1>1. IsFiniteSet(V) /\ a \in Int /\ c \in Int /\ m.linear[j] \in Int /\ m.quad[j][k] = c
  BY DEF IsModel, IsState
<1>2. IsState(m, t)
  BY <1>1 DEF IsState
<1>3. \A x \in V : f[x] \in Int /\ g[x] \in Int
  <2> SUFFICES ASSUME NEW x \in V PROVE f[x] \in Int /\ g[x] \in Int
    OBVIOUS
  <2>1. m.quad[j][x] \in Int /\ s[x] \in Int /\ t[x] \in Int
    BY <1>2 DEF IsModel, IsState
  <2> QED  BY <2>1 DEF Pulled
<1>4. \A x \in V \ {k} : f[x] = g[x]
  BY DEF Pulled, IsState
<1>5. f[k] = c * a /\ g[k] = c * (-a)
  BY <1>1 DEF Pulled, IsState
<1>6. /\ Field(m, s, j) = m.linear[j] + SumFunctionOnSet(f, V)
      /\ Field(m, t, j) = m.linear[j] + SumFunctionOnSet(g, V)
      /\ SumFunctionOnSet(f, V) \in Int
  BY <1>2, PullType DEF Field
<1> HIDE DEF V, t, f, g, c, a
<1>7. SumFunctionOnSet(g, V) = SumFunctionOnSet(f, V) - f[k] + g[k]
  BY <1>1, <1>3, <1>4, SumUpdate DEF V
<1>8. c * (-a) = -(c * a) /\ c * a \in Int /\ 2 * c * a = 2 * (c * a)
  BY <1>1
<1>9. Field(m, t, j) = Field(m, s, j) - 2 * c * a
  BY <1>1, <1>5, <1>6, <1>7, <1>8
<1> QED  BY <1>9 DEF t, c, a

-----------------------------------------------------------------------------
(* The conversion to spins, of a model over bits: each of its terms is a     *)
(* whole number of its own unit.                                             *)
Bits(m, s) == [i \in Vars(m) |-> (s[i] + 1) \div 2]

SpinTable(m) == ToSpin(m).quad

LEMMA WholeQuarters ==
    /\ \A x \in Int : IsWhole(x) => x \div 4 \in Int /\ x = 4 * (x \div 4) /\ x \div 2 = 2 * (x \div 4)
    /\ \A n \in Int : (4 * n) \div 4 = n /\ (4 * n) \div 2 = 2 * n /\ (2 * n) \div 2 = n
    /\ \A n \in Int : (2 * n) \div 4 = n \div 2
BY DEF IsWhole, Unit

LEMMA BitsOfSpins ==
    ASSUME NEW s \in {-1, 1}
    PROVE  /\ (s + 1) \div 2 \in {0, 1} /\ s = 2 * ((s + 1) \div 2) - 1
OBVIOUS

(* The row sums of the converted table, and what becomes of the biases.     *)
LEMMA SpinModel ==
    ASSUME NEW m, IsModel(m), ~m.spin
    PROVE  LET V == Vars(m)
               w == SpinTable(m)
           IN  /\ IsModel(ToSpin(m)) /\ Vars(ToSpin(m)) = V /\ IsSymmetric(w, V)
               /\ \A i, j \in V : m.quad[i][j] = 4 * w[i][j]
               /\ \A i \in V : NeighborSum(m, i) = 4 * Row(w, V, i)
               /\ \A i \in V : ToSpin(m).linear[i] = m.linear[i] \div 2 + Row(w, V, i)
               /\ ToSpin(m).offset = m.offset + SumFunctionOnSet(m.linear, V) \div 2
                                       + Twice(w, V) \div 2
<1> DEFINE V == Vars(m)
           w == SpinTable(m)
           n == ToSpin(m)
<1>1. IsFiniteSet(V) /\ m.offset \in Int
  BY DEF IsModel
<1>2. n = [spin   |-> TRUE,
           linear |-> [i \in V |-> m.linear[i] \div 2 + NeighborSum(m, i) \div 4],
           quad   |-> [i \in V |-> [j \in V |-> m.quad[i][j] \div 4]],
           offset |-> m.offset + SumFunction(m.linear) \div 2 + AllCouplings(m) \div 4]
  BY DEF ToSpin, QuarterCouplings
<1>3. w = [i \in V |-> [j \in V |-> m.quad[i][j] \div 4]]
  BY <1>2 DEF SpinTable
<1>4. \A i, j \in V : w[i][j] \in Int /\ m.quad[i][j] = 4 * w[i][j] /\ m.quad[i][j] \in Int
  <2> SUFFICES ASSUME NEW i \in V, NEW j \in V
               PROVE  w[i][j] \in Int /\ m.quad[i][j] = 4 * w[i][j] /\ m.quad[i][j] \in Int
    OBVIOUS
  <2>1. m.quad[i][j] \in Int /\ IsWhole(m.quad[i][j])
    BY DEF IsModel
  <2>2. w[i][j] = m.quad[i][j] \div 4
    BY <1>3
  <2> QED  BY <2>1, <2>2, WholeQuarters
<1>5. IsSymmetric(w, V)
  BY <1>3, <1>4 DEF IsModel, IsSymmetric
<1>6. \A i \in V : NeighborSum(m, i) = 4 * Row(w, V, i) /\ Row(w, V, i) \in Int
  <2> SUFFICES ASSUME NEW i \in V
               PROVE  NeighborSum(m, i) = 4 * Row(w, V, i) /\ Row(w, V, i) \in Int
    OBVIOUS
  <2> DEFINE f == [j \in V |-> m.quad[i][j]]
             r == w[i]
  <2>1. NeighborSum(m, i) = SumFunctionOnSet(f, V) /\ Row(w, V, i) = SumFunctionOnSet(r, V)
    BY SumWhole DEF NeighborSum, Row
  <2>2. \A j \in V : r[j] \in Int /\ f[j] = 4 * r[j] + 0 * r[j]
    BY <1>4
  <2> HIDE DEF f, r, V, w
  <2>3. SumFunctionOnSet(f, V) = 4 * SumFunctionOnSet(r, V) + 0 * SumFunctionOnSet(r, V)
    <3>1. 4 \in Int /\ 0 \in Int
      OBVIOUS
    <3> QED  BY <1>1, <2>2, <3>1, SumLinear
  <2>4. SumFunctionOnSet(r, V) \in Int
    BY <1>1, <2>2, SumType
  <2> QED  BY <2>1, <2>3, <2>4
<1>7. \A i \in V : n.linear[i] = m.linear[i] \div 2 + Row(w, V, i) /\ n.linear[i] \in Int
  <2> SUFFICES ASSUME NEW i \in V
               PROVE  n.linear[i] = m.linear[i] \div 2 + Row(w, V, i) /\ n.linear[i] \in Int
    OBVIOUS
  <2>1. n.linear[i] = m.linear[i] \div 2 + NeighborSum(m, i) \div 4
    BY <1>2
  <2>2. m.linear[i] \in Int
    BY DEF IsModel
  <2>3. NeighborSum(m, i) \div 4 = Row(w, V, i)
    BY <1>6, WholeQuarters
  <2> QED  BY <1>6, <2>1, <2>2, <2>3
<1>8. Twice(w, V) \in Int
  BY <1>1, <1>5, TwiceType
<1>9. AllCouplings(m) = 2 * Twice(w, V)
  <2> DEFINE f == [i \in V |-> NeighborSum(m, i)]
             r == Rows(w, V)
  <2>1. AllCouplings(m) = SumFunctionOnSet(f, V) \div 2 /\ Twice(w, V) = SumFunctionOnSet(r, V)
    BY SumWhole DEF AllCouplings, Twice
  <2>2. \A i \in V : r[i] \in Int /\ f[i] = 4 * r[i] + 0 * r[i]
    BY <1>6 DEF Rows
  <2> HIDE DEF f, r, V, w
  <2>3. SumFunctionOnSet(f, V) = 4 * SumFunctionOnSet(r, V) + 0 * SumFunctionOnSet(r, V)
    <3>1. 4 \in Int /\ 0 \in Int
      OBVIOUS
    <3> QED  BY <1>1, <2>2, <3>1, SumLinear
  <2>4. SumFunctionOnSet(f, V) = 4 * Twice(w, V)
    BY <1>8, <2>1, <2>3
  <2> QED  BY <1>8, <2>1, <2>4, WholeQuarters
<1>10. SumFunction(m.linear) = SumFunctionOnSet(m.linear, V) /\ SumFunctionOnSet(m.linear, V) \in Int
  <2> DEFINE f == m.linear
  <2>1. \A i \in V : f[i] \in Int
    BY DEF IsModel
  <2>2. SumFunction(f) = SumFunctionOnSet(f, V)
    BY SumWhole DEF Vars
  <2> HIDE DEF f, V
  <2>3. SumFunctionOnSet(f, V) \in Int
    BY <1>1, <2>1, SumType
  <2> QED  BY <2>2, <2>3 DEF f
<1>11. n.offset = m.offset + SumFunctionOnSet(m.linear, V) \div 2 + Twice(w, V) \div 2 /\ n.offset \in Int
  <2>1. n.offset = m.offset + SumFunction(m.linear) \div 2 + AllCouplings(m) \div 4
    BY <1>2
  <2>2. AllCouplings(m) \div 4 = Twice(w, V) \div 2
    BY <1>8, <1>9, WholeQuarters
  <2> HIDE DEF n, V, w
  <2> QED  BY <1>1, <1>8, <1>10, <2>1, <2>2
<1>12. Vars(n) = V
  BY <1>2 DEF Vars
<1>13. IsModel(n)
  <2>1. n.spin = TRUE /\ n.quad = w /\ n.linear \in [V -> Int] /\ n.quad \in [V -> [V -> Int]]
    <3>1. n.spin = TRUE /\ n.quad = w
      BY <1>2, <1>3
    <3>2. n.linear \in [V -> Int]
      <4>1. n.linear = [i \in V |-> m.linear[i] \div 2 + NeighborSum(m, i) \div 4]
        BY <1>2
      <4> QED  BY <1>7, <4>1
    <3>3. w \in [V -> [V -> Int]]
      <4>1. \A i, j \in V : m.quad[i][j] \div 4 \in Int
        BY <1>4
      <4> QED  BY <1>3, <4>1
    <3> HIDE DEF n, V, w
    <3> QED  BY <3>1, <3>2, <3>3
  <2>2. \A i, j \in V : w[i][j] = w[j][i] /\ w[i][i] = 0
    BY <1>5 DEF IsSymmetric
  <2> HIDE DEF n, V, w
  <2> QED  BY <1>1, <1>11, <1>12, <2>1, <2>2 DEF IsModel
<1> QED  BY <1>4, <1>5, <1>6, <1>7, <1>11, <1>12, <1>13

(* The sum of all pulls is the sum of the row sums, each with its own spin.  *)
LEMMA PullsByRow ==
    ASSUME NEW m, IsModel(m), NEW s, IsState(m, s)
    PROVE  LET V == Vars(m) IN
           SumFunctionOnSet([i \in V |-> Pull(m, s, i)], V) =
           SumFunctionOnSet([i \in V |-> s[i] * Row(m.quad, V, i)], V)
<1> DEFINE V == Vars(m)
           w == [i \in V |-> Pulled(m, s, i)]
           f == [i \in V |-> SumFunctionOnSet(w[i], V)]
           g == [j \in V |-> SumFunctionOnSet([i \in V |-> w[i][j]], V)]
           h == [i \in V |-> s[i] * Row(m.quad, V, i)]
<1>1. IsFiniteSet(V)
  BY DEF IsModel
<1>2. \A i \in V : \A j \in V : w[i][j] \in Int
  <2> SUFFICES ASSUME NEW i \in V, NEW j \in V PROVE w[i][j] \in Int
    OBVIOUS
  <2>1. m.quad[i][j] \in Int /\ s[j] \in Int
    BY DEF IsModel, IsState
  <2> QED  BY <2>1 DEF Pulled
<1>3. SumFunctionOnSet(f, V) = SumFunctionOnSet(g, V)
  <2> HIDE DEF V, w
  <2> QED  BY <1>1, <1>2, SumOrder
<1>4. \A j \in V : g[j] = h[j]
  <2> SUFFICES ASSUME NEW j \in V PROVE g[j] = h[j]
    OBVIOUS
  <2> DEFINE c == [i \in V |-> w[i][j]]
             r == m.quad[j]
             a == s[j]
  <2>1. a \in Int /\ \A i \in V : r[i] \in Int /\ c[i] = a * r[i] + 0 * r[i]
    <3>1. a \in Int
      BY DEF IsState
    <3>2. ASSUME NEW i \in V PROVE r[i] \in Int /\ c[i] = a * r[i] + 0 * r[i]
      <4> DEFINE q == r[i]
      <4>1. q \in Int /\ m.quad[i][j] = q
        BY DEF IsModel
      <4>2. c[i] = q * a
        BY <4>1 DEF Pulled
      <4> HIDE DEF q, c, a, r
      <4>3. q * a = a * q + 0 * q
        BY <3>1, <4>1
      <4> QED  BY <4>1, <4>2, <4>3 DEF q
    <3> QED  BY <3>1, <3>2
  <2>2. g[j] = SumFunctionOnSet(c, V) /\ h[j] = a * SumFunctionOnSet(r, V)
    BY DEF Row
  <2> HIDE DEF c, r, a, V, g, h
  <2>3. SumFunctionOnSet(c, V) = a * SumFunctionOnSet(r, V) + 0 * SumFunctionOnSet(r, V)
    <3>1. 0 \in Int
      OBVIOUS
    <3> QED  BY <1>1, <2>1, <3>1, SumLinear
  <2>4. SumFunctionOnSet(r, V) \in Int
    BY <1>1, <2>1, SumType
  <2>5. a * SumFunctionOnSet(r, V) \in Int /\ 0 * SumFunctionOnSet(r, V) = 0
    BY <2>1, <2>4
  <2> QED  BY <2>2, <2>3, <2>5
<1>5. SumFunctionOnSet(g, V) = SumFunctionOnSet(h, V)
  <2> HIDE DEF g, h, V
  <2> QED  BY <1>1, <1>4, SumEqual
<1>6. f = [i \in V |-> Pull(m, s, i)]
  BY PullType
<1> QED  BY <1>3, <1>5, <1>6

(* What the solvers do in spins is done in the caller's own model: fields    *)
(* and energies are those of the state of bits the spins stand for.          *)
LEMMA PullOfBits ==
    ASSUME NEW m, IsModel(m), ~m.spin, NEW s \in [Vars(m) -> {-1, 1}], NEW i \in Vars(m)
    PROVE  Pull(m, Bits(m, s), i) = 2 * Pull(ToSpin(m), s, i) + 2 * Row(SpinTable(m), Vars(m), i)
<1> DEFINE V == Vars(m)
           n == ToSpin(m)
           w == SpinTable(m)
           x == Bits(m, s)
           f == Pulled(m, x, i)
           g == Pulled(n, s, i)
           r == w[i]
<1>1. IsFiniteSet(V) /\ IsModel(n) /\ Vars(n) = V /\ IsState(n, s) /\ IsState(m, x)
  <2>1. IsState(m, x)
    BY BitsOfSpins DEF IsState, Bits
  <2> QED  BY <2>1, SpinModel DEF IsModel, IsState
<1>2. \A j \in V : g[j] \in Int /\ r[j] \in Int /\ f[j] = 2 * g[j] + 2 * r[j]
  <2> SUFFICES ASSUME NEW j \in V
               PROVE  g[j] \in Int /\ r[j] \in Int /\ f[j] = 2 * g[j] + 2 * r[j]
    OBVIOUS
  <2> DEFINE q == w[i][j]
             a == s[j]
             b == (s[j] + 1) \div 2
  <2>1. q \in Int /\ a \in Int /\ b \in {0, 1} /\ a = 2 * b - 1
    <3>1. q \in Int
      BY SpinModel DEF IsSymmetric
    <3>2. a \in {-1, 1}
      OBVIOUS
    <3> QED  BY <3>1, <3>2, BitsOfSpins
  <2>2. f[j] = 4 * q * b
    BY SpinModel DEF Pulled, Bits
  <2>3. g[j] = q * a /\ r[j] = q
    BY <1>1 DEF Pulled, SpinTable
  <2> HIDE DEF q, a, b, f, g, r
  <2>4. q * a \in Int /\ 4 * q * b = 2 * (q * a) + 2 * q
    BY <2>1
  <2> QED  BY <2>1, <2>2, <2>3, <2>4
<1>3. Pull(m, x, i) = SumFunctionOnSet(f, V)
  BY <1>1, PullType
<1>4. Pull(n, s, i) = SumFunctionOnSet(g, V)
  BY <1>1, PullType
<1>5. Row(w, V, i) = SumFunctionOnSet(r, V)
  BY DEF Row
<1>6. SumFunctionOnSet(f, V) = 2 * SumFunctionOnSet(g, V) + 2 * SumFunctionOnSet(r, V)
  <2>1. 2 \in Int
    OBVIOUS
  <2> HIDE DEF V, f, g, r
  <2> QED  BY <1>1, <1>2, <2>1, SumLinear
<1> QED  BY <1>3, <1>4, <1>5, <1>6

LEMMA CouplingsOfBits ==
    ASSUME NEW m, IsModel(m), ~m.spin, NEW s \in [Vars(m) -> {-1, 1}]
    PROVE  LET V == Vars(m)
               w == SpinTable(m)
               R == [i \in V |-> s[i] * Row(w, V, i)]
           IN  /\ Twice(Coupled(m, Bits(m, s)), V) =
                      Twice(Coupled(ToSpin(m), s), V) + 2 * SumFunctionOnSet(R, V) + Twice(w, V)
               /\ SumFunctionOnSet(R, V) \in Int
<1> DEFINE V == Vars(m)
           n == ToSpin(m)
           w == SpinTable(m)
           x == Bits(m, s)
           R == [i \in V |-> s[i] * Row(w, V, i)]
           P == [i \in V |-> Pull(n, s, i)]
           A == Rows(Coupled(n, s), V)
           B == Rows(Coupled(m, x), V)
           C == Rows(w, V)
           D == [i \in V |-> A[i] + R[i]]
           E == [i \in V |-> P[i] + C[i]]
<1>1. /\ IsFiniteSet(V) /\ IsModel(n) /\ Vars(n) = V /\ IsState(n, s) /\ IsState(m, x)
      /\ n.quad = w /\ IsSymmetric(w, V)
  <2>1. IsState(m, x)
    BY BitsOfSpins DEF IsState, Bits
  <2> QED  BY <2>1, SpinModel DEF IsModel, IsState, SpinTable
<1>2. \A i \in V : /\ A[i] \in Int /\ R[i] \in Int /\ P[i] \in Int /\ C[i] \in Int
                   /\ D[i] \in Int /\ E[i] \in Int
                   /\ D[i] = 1 * A[i] + 1 * R[i] /\ E[i] = 1 * P[i] + 1 * C[i]
                   /\ B[i] = 1 * D[i] + 1 * E[i]
  <2> TAKE i \in V
  <2> DEFINE a == s[i]
             b == x[i]
             p == Pull(n, s, i)
             r == Row(w, V, i)
  <2>1. p \in Int /\ r \in Int /\ a \in Int /\ b \in Int /\ a = 2 * b - 1
    <3>1. p \in Int
      BY <1>1, PullType
    <3>2. r \in Int
      BY <1>1, TwiceType
    <3>3. a \in {-1, 1} /\ b = (a + 1) \div 2
      BY DEF Bits
    <3> HIDE DEF a, b
    <3>4. b \in {0, 1} /\ a = 2 * b - 1
      BY <3>3, BitsOfSpins
    <3> QED  BY <3>1, <3>2, <3>3, <3>4
  <2>2. A[i] = a * p
    BY <1>1, PullType DEF Rows
  <2>3. B[i] = b * (2 * p + 2 * r)
    <3>1. B[i] = b * Pull(m, x, i)
      BY <1>1, PullType DEF Rows
    <3> QED  BY <3>1, PullOfBits
  <2>4. C[i] = r /\ R[i] = a * r /\ P[i] = p
    BY DEF Rows
  <2>5. D[i] = A[i] + R[i] /\ E[i] = P[i] + C[i]
    OBVIOUS
  <2> HIDE DEF a, b, p, r, A, B, C, D, E, R, P
  <2>6. a * p \in Int /\ a * r \in Int /\ b * (2 * p + 2 * r) = (a * p + a * r) + (p + r)
    <3>1. b * (2 * p + 2 * r) = (2 * b - 1) * p + (2 * b - 1) * r + p + r
      BY <2>1
    <3> QED  BY <2>1, <3>1
  <2> QED  BY <2>1, <2>2, <2>3, <2>4, <2>5, <2>6
<1>3. SumFunctionOnSet(P, V) = SumFunctionOnSet(R, V)
  BY <1>1, PullsByRow
<1>4. /\ Twice(Coupled(m, x), V) = SumFunctionOnSet(B, V)
      /\ Twice(Coupled(n, s), V) = SumFunctionOnSet(A, V)
      /\ Twice(w, V) = SumFunctionOnSet(C, V)
  BY DEF Twice
<1> HIDE DEF A, B, C, D, E, R, P, V
<1>5. /\ SumFunctionOnSet(A, V) \in Int /\ SumFunctionOnSet(R, V) \in Int
      /\ SumFunctionOnSet(P, V) \in Int /\ SumFunctionOnSet(C, V) \in Int
  BY <1>1, <1>2, SumType
<1>6. 1 \in Int /\ IsFiniteSet(V)
  BY <1>1
<1>7. SumFunctionOnSet(D, V) = 1 * SumFunctionOnSet(A, V) + 1 * SumFunctionOnSet(R, V)
  <2> HIDE DEF n, w, x
  <2>1. \A i \in V : A[i] \in Int /\ R[i] \in Int /\ D[i] = 1 * A[i] + 1 * R[i]
    BY <1>2
  <2> QED  BY <1>6, <2>1, SumLinear
<1>8. SumFunctionOnSet(E, V) = 1 * SumFunctionOnSet(P, V) + 1 * SumFunctionOnSet(C, V)
  <2>1. \A i \in V : P[i] \in Int /\ C[i] \in Int /\ E[i] = 1 * P[i] + 1 * C[i]
    BY <1>2
  <2> QED  BY <1>6, <2>1, SumLinear
<1>9. SumFunctionOnSet(B, V) = 1 * SumFunctionOnSet(D, V) + 1 * SumFunctionOnSet(E, V)
  <2>1. \A i \in V : D[i] \in Int /\ E[i] \in Int /\ B[i] = 1 * D[i] + 1 * E[i]
    BY <1>2
  <2> QED  BY <1>6, <2>1, SumLinear
<1>10. Twice(Coupled(m, x), V) = Twice(Coupled(n, s), V) + 2 * SumFunctionOnSet(R, V) + Twice(w, V)
  BY <1>3, <1>4, <1>5, <1>7, <1>8, <1>9
<1> QED  BY <1>5, <1>10 DEF R, V

(* The biases: half goes to the spin, half to the offset.                   *)
LEMMA BiasesOfBits ==
    ASSUME NEW m, IsModel(m), ~m.spin, NEW s \in [Vars(m) -> {-1, 1}]
    PROVE  LET V == Vars(m)
               R == [i \in V |-> s[i] * Row(SpinTable(m), V, i)]
           IN  SumFunctionOnSet(Biased(m, Bits(m, s)), V) + SumFunctionOnSet(R, V) =
               SumFunctionOnSet(Biased(ToSpin(m), s), V) + SumFunctionOnSet(m.linear, V) \div 2
<1> DEFINE V == Vars(m)
           n == ToSpin(m)
           w == SpinTable(m)
           x == Bits(m, s)
           R == [i \in V |-> s[i] * Row(w, V, i)]
           l == m.linear
           A == Biased(n, s)
           B == Biased(m, x)
           h == [i \in V |-> l[i] \div 4]
           C == [i \in V |-> B[i] + R[i]]
<1>1. IsFiniteSet(V) /\ Vars(n) = V /\ IsSymmetric(w, V)
  BY SpinModel DEF IsModel
<1>2. \A i \in V : /\ h[i] \in Int /\ l[i] = 4 * h[i] + 0 * h[i]
                   /\ A[i] \in Int /\ B[i] \in Int /\ R[i] \in Int /\ C[i] \in Int
                   /\ C[i] = 1 * B[i] + 1 * R[i] /\ C[i] = 1 * A[i] + 2 * h[i]
  <2> TAKE i \in V
  <2> DEFINE a == s[i]
             b == x[i]
             r == Row(w, V, i)
             y == l[i]
             z == h[i]
  <2>1. r \in Int /\ a \in Int /\ b \in Int /\ a = 2 * b - 1
    <3>1. r \in Int
      BY <1>1, TwiceType
    <3>2. a \in {-1, 1} /\ b = (a + 1) \div 2
      BY DEF Bits
    <3> HIDE DEF a, b
    <3>3. b \in {0, 1} /\ a = 2 * b - 1
      BY <3>2, BitsOfSpins
    <3> QED  BY <3>1, <3>2, <3>3
  <2>2. z \in Int /\ y = 4 * z /\ y \div 2 = 2 * z
    <3>1. y \in Int /\ IsWhole(y) /\ z = y \div 4
      BY DEF IsModel
    <3> QED  BY <3>1, WholeQuarters
  <2>3. A[i] = (2 * z + r) * a
    BY <2>2, SpinModel DEF Biased
  <2>4. B[i] = 4 * z * b /\ R[i] = a * r
    BY <2>2 DEF Biased
  <2>5. C[i] = B[i] + R[i]
    OBVIOUS
  <2> HIDE DEF a, b, r, y, z, A, B, C, R
  <2>6. z * a \in Int /\ r * a \in Int /\ (2 * z + r) * a = 2 * (z * a) + r * a
    BY <2>1, <2>2
  <2>7. 4 * z * b = 2 * (z * a) + 2 * z /\ a * r = r * a
    BY <2>1, <2>2
  <2>8. 4 * z + 0 * z = 4 * z
    BY <2>2
  <2> QED  BY <2>1, <2>2, <2>3, <2>4, <2>5, <2>6, <2>7, <2>8 DEF y, z
<1>3. 0 \in Int /\ 1 \in Int /\ 2 \in Int /\ 4 \in Int
  OBVIOUS
<1> HIDE DEF A, B, C, R, V, h, l
<1>4. /\ SumFunctionOnSet(A, V) \in Int /\ SumFunctionOnSet(B, V) \in Int
      /\ SumFunctionOnSet(R, V) \in Int /\ SumFunctionOnSet(h, V) \in Int
  BY <1>1, <1>2, SumType
<1>5. SumFunctionOnSet(l, V) = 4 * SumFunctionOnSet(h, V) + 0 * SumFunctionOnSet(h, V)
  <2>1. \A i \in V : h[i] \in Int /\ l[i] = 4 * h[i] + 0 * h[i]
    BY <1>2
  <2> QED  BY <1>1, <1>3, <2>1, SumLinear
<1>6. SumFunctionOnSet(C, V) = 1 * SumFunctionOnSet(B, V) + 1 * SumFunctionOnSet(R, V)
  <2>1. \A i \in V : B[i] \in Int /\ R[i] \in Int /\ C[i] = 1 * B[i] + 1 * R[i]
    BY <1>2
  <2> QED  BY <1>1, <1>3, <2>1, SumLinear
<1>7. SumFunctionOnSet(C, V) = 1 * SumFunctionOnSet(A, V) + 2 * SumFunctionOnSet(h, V)
  <2>1. \A i \in V : A[i] \in Int /\ h[i] \in Int /\ C[i] = 1 * A[i] + 2 * h[i]
    BY <1>2
  <2> QED  BY <1>1, <1>3, <2>1, SumLinear
<1>8. SumFunctionOnSet(l, V) = 4 * SumFunctionOnSet(h, V)
  BY <1>4, <1>5
<1>9. SumFunctionOnSet(l, V) \div 2 = 2 * SumFunctionOnSet(h, V)
  BY <1>4, <1>8, WholeQuarters
<1>10. SumFunctionOnSet(B, V) + SumFunctionOnSet(R, V) = SumFunctionOnSet(A, V) + SumFunctionOnSet(l, V) \div 2
  BY <1>4, <1>6, <1>7, <1>9
<1> QED  BY <1>10 DEF A, B, R, V, l

(* The conversion keeps every energy.                                       *)
LEMMA ToSpinIsExact ==
    ASSUME NEW m, IsModel(m), NEW s \in [Vars(m) -> {-1, 1}]
    PROVE  /\ IsModel(ToSpin(m)) /\ Vars(ToSpin(m)) = Vars(m) /\ ToSpin(m).spin
           /\ Energy(m, FromSpins(m, s)) = Energy(ToSpin(m), s)
<1>1. CASE m.spin
  <2>1. FromSpins(m, s) = s
    BY <1>1 DEF FromSpins
  <2> QED  BY <1>1, <2>1 DEF ToSpin
<1>2. CASE ~m.spin
  <2> DEFINE V == Vars(m)
             n == ToSpin(m)
             w == SpinTable(m)
             x == Bits(m, s)
             R == [i \in V |-> s[i] * Row(w, V, i)]
             SR == SumFunctionOnSet(R, V)
             SL == SumFunctionOnSet(m.linear, V) \div 2
             SX == SumFunctionOnSet(Biased(m, x), V)
             SS == SumFunctionOnSet(Biased(n, s), V)
             TX == Twice(Coupled(m, x), V)
             TS == Twice(Coupled(n, s), V)
             TW == Twice(w, V)
  <2>1. FromSpins(m, s) = x
    BY <1>2 DEF FromSpins, Bits
  <2>2. IsModel(n) /\ Vars(n) = V /\ IsState(n, s) /\ IsState(m, x) /\ IsSymmetric(w, V) /\ n.spin
    <3>1. IsState(m, x)
      BY BitsOfSpins DEF IsState, Bits
    <3>2. n.spin
      BY <1>2 DEF ToSpin
    <3> QED  BY <1>2, <3>1, <3>2, SpinModel DEF IsState
  <2>3. /\ Energy(m, x) = m.offset + SX + TX \div 2 /\ SX \in Int /\ TX \in Int
        /\ Energy(n, s) = n.offset + SS + TS \div 2 /\ SS \in Int /\ TS \in Int
    BY <2>2, EnergyIsTwice
  <2>4. n.offset = m.offset + SL + TW \div 2
    BY <1>2, SpinModel
  <2>5. TX = TS + 2 * SR + TW /\ SR \in Int
    BY <1>2, CouplingsOfBits
  <2>6. SX + SR = SS + SL
    BY <1>2, BiasesOfBits
  <2>7. (\E e \in Int : TS = 2 * e) /\ \E e \in Int : TW = 2 * e
    <3>1. IsFiniteSet(V) /\ IsSymmetric(Coupled(n, s), V)
      BY <2>2, CoupledIsSymmetric DEF IsModel
    <3> QED  BY <2>2, <3>1, TwiceIsEven
  <2>8. m.offset \in Int /\ SL \in Int
    <3>1. m.offset \in Int
      BY DEF IsModel
    <3>2. SumFunctionOnSet(m.linear, V) \in Int
      <4>1. IsFiniteSet(V) /\ \A i \in V : m.linear[i] \in Int
        BY DEF IsModel
      <4> QED  BY <4>1, SumType
    <3> QED  BY <3>1, <3>2
  <2> HIDE DEF V, n, w, x, R, SR, SL, SX, SS, TX, TS, TW
  <2>9. PICK e \in Int : TS = 2 * e
    BY <2>7
  <2>10. PICK c \in Int : TW = 2 * c
    BY <2>7
  <2>11. TX = 2 * (e + SR + c) /\ e + SR + c \in Int
    BY <2>5, <2>9, <2>10
  <2>12. TX \div 2 = e + SR + c /\ TS \div 2 = e /\ TW \div 2 = c
    BY <2>9, <2>10, <2>11, WholeQuarters
  <2>13. Energy(m, x) = Energy(n, s)
    BY <2>3, <2>4, <2>5, <2>6, <2>8, <2>12
  <2> QED  BY <2>1, <2>2, <2>13 DEF V, n
<1> QED  BY <1>1, <1>2

-----------------------------------------------------------------------------
(* Variables in groups: how many of a group a state marks, how many         *)
(* ordered pairs of the marked ones clash, and what the marked ones cost.   *)
Marks(x, V, g, a) == SumFunctionOnSet(OfGroup(x, V, g, a), V)

Misses(x, V, g, A) ==
    SumFunctionOnSet([a \in A |-> (Marks(x, V, g, a) - 1) * (Marks(x, V, g, a) - 1)], A)

ClashesOf(x, V, clash, v) == SumFunctionOnSet([w \in V |-> clash[v][w] * x[w]], V)

Clashes(x, V, clash) == SumFunctionOnSet([v \in V |-> x[v] * ClashesOf(x, V, clash, v)], V)

Travel(x, V, cost) == SumFunctionOnSet([v \in V |-> cost[v] * x[v]], V)

IsGrouped(V, A, g, x) ==
    /\ IsFiniteSet(V) /\ IsFiniteSet(A) /\ g \in [V -> A] /\ x \in [V -> {0, 1}]

(* A selection model in this view.                                          *)
IsSelection(m, A, g, cost, clash, p) ==
    /\ p \in Int /\ cost \in [Vars(m) -> Int] /\ clash \in [Vars(m) -> [Vars(m) -> {0, 1}]]
    /\ m.offset = 4 * p * Cardinality(A)
    /\ \A v \in Vars(m) : m.linear[v] = 4 * (cost[v] - p)
    /\ \A v, w \in Vars(m) :
         /\ g[v] = g[w] => clash[v][w] = 0
         /\ m.quad[v][w] = IF v = w THEN 0 ELSE IF g[v] = g[w] THEN 8 * p ELSE 4 * p * clash[v][w]

LEMMA MarksType ==
    ASSUME NEW V, NEW A, NEW g, NEW x, IsGrouped(V, A, g, x), NEW a
    PROVE  /\ \A v \in V : OfGroup(x, V, g, a)[v] \in Nat
           /\ Marks(x, V, g, a) \in Nat
<1>1. \A v \in V : OfGroup(x, V, g, a)[v] \in Nat
  BY DEF IsGrouped, OfGroup
<1>2. SumFunctionOnSet(OfGroup(x, V, g, a), V) \in Nat
  BY <1>1, SumOfNaturals DEF IsGrouped
<1> QED  BY <1>1, <1>2 DEF Marks

(* What the couplings of a marked variable cost: eight penalties, in the    *)
(* unit of quarters, for every other mark of its group, four for a clash.   *)
LEMMA SelectionPull ==
    ASSUME NEW m, NEW A, NEW g, NEW cost, NEW clash, NEW p, NEW x,
           IsGrouped(Vars(m), A, g, x), IsSelection(m, A, g, cost, clash, p), NEW v \in Vars(m)
    PROVE  /\ Pull(m, x, v) = 8 * p * (Marks(x, Vars(m), g, g[v]) - x[v])
                                + 4 * p * ClashesOf(x, Vars(m), clash, v)
           /\ ClashesOf(x, Vars(m), clash, v) \in Nat
<1> DEFINE V == Vars(m)
           G == OfGroup(x, V, g, g[v])
           D == [w \in V |-> IF w = v THEN 0 ELSE G[w]]
           C == [w \in V |-> clash[v][w] * x[w]]
           P == [w \in V |-> m.quad[v][w] * x[w]]
           e == 8 * p
           f == 4 * p
<1>0. /\ IsFiniteSet(V) /\ x \in [V -> {0, 1}] /\ g \in [V -> A] /\ p \in Int /\ e \in Int /\ f \in Int
      /\ clash \in [V -> [V -> {0, 1}]]
  BY DEF IsGrouped, IsSelection
<1>1. \A w \in V : G[w] \in Int /\ D[w] \in Int
  BY <1>0 DEF OfGroup
<1>2. G[v] = x[v] /\ D[v] = 0 /\ \A w \in V \ {v} : G[w] = D[w]
  BY <1>0 DEF OfGroup
<1>3. \A w \in V : C[w] \in Nat
  BY <1>0
<1>4. ASSUME NEW w \in V PROVE P[w] = e * D[w] + f * C[w]
  <2>1. /\ g[v] = g[w] => clash[v][w] = 0
        /\ m.quad[v][w] = IF v = w THEN 0 ELSE IF g[v] = g[w] THEN 8 * p ELSE 4 * p * clash[v][w]
    BY DEF IsSelection
  <2>2. x[w] \in {0, 1} /\ clash[v][w] \in {0, 1}
    BY <1>0
  <2>3. CASE v = w
    BY <2>1, <2>2, <2>3, <1>0
  <2>4. CASE v # w /\ g[v] = g[w]
    <3>1. D[w] = x[w] /\ C[w] = 0 /\ P[w] = 8 * p * x[w]
      BY <2>1, <2>2, <2>4 DEF OfGroup
    <3> QED  BY <3>1, <2>2, <1>0
  <2>5. CASE v # w /\ g[v] # g[w]
    <3>1. D[w] = 0 /\ C[w] = clash[v][w] * x[w] /\ P[w] = 4 * p * clash[v][w] * x[w]
      BY <2>1, <2>2, <2>5 DEF OfGroup
    <3> QED  BY <3>1, <2>2, <1>0
  <2> QED  BY <2>3, <2>4, <2>5
<1>5. Pull(m, x, v) = SumFunctionOnSet(P, V)
  <2>1. Pull(m, x, v) = SumFunction(P) /\ DOMAIN P = V
    BY DEF Pull
  <2> QED  BY <2>1, SumWhole
<1>6. Marks(x, V, g, g[v]) = SumFunctionOnSet(G, V) /\ ClashesOf(x, V, clash, v) = SumFunctionOnSet(C, V)
  BY DEF Marks, ClashesOf
<1> HIDE DEF V, G, D, C, P, e, f
<1>7. SumFunctionOnSet(P, V) = e * SumFunctionOnSet(D, V) + f * SumFunctionOnSet(C, V)
  <2>1. \A w \in V : D[w] \in Int /\ C[w] \in Int /\ P[w] = e * D[w] + f * C[w]
    BY <1>1, <1>3, <1>4
  <2> QED  BY <1>0, <2>1, SumLinear
<1>8. SumFunctionOnSet(D, V) = SumFunctionOnSet(G, V) - G[v] + D[v]
  <2>1. v \in V /\ (\A w \in V : G[w] \in Int /\ D[w] \in Int) /\ (\A w \in V \ {v} : G[w] = D[w])
    BY <1>1, <1>2 DEF V
  <2> QED  BY <1>0, <2>1, SumUpdate
<1>9. SumFunctionOnSet(C, V) \in Nat /\ SumFunctionOnSet(G, V) \in Int
  BY <1>0, <1>1, <1>3, SumOfNaturals, SumType
<1>10. x[v] \in {0, 1}
  BY <1>0 DEF V
<1> QED  BY <1>0, <1>2, <1>5, <1>6, <1>7, <1>8, <1>9, <1>10 DEF e, f, V

(* What a state of a selection model costs: its paths, a penalty for every  *)
(* group by the square of its distance from one mark, and half a penalty    *)
(* for each of two that clash.                                              *)
LEMMA SelectionEnergy ==
    ASSUME NEW m, NEW A, NEW g, NEW cost, NEW clash, NEW p, NEW x,
           IsGrouped(Vars(m), A, g, x), IsSelection(m, A, g, cost, clash, p)
    PROVE  /\ Energy(m, x) = 4 * Travel(x, Vars(m), cost)
                               + 4 * p * Misses(x, Vars(m), g, A)
                               + 2 * p * Clashes(x, Vars(m), clash)
           /\ Travel(x, Vars(m), cost) \in Int
           /\ Misses(x, Vars(m), g, A) \in Nat /\ Clashes(x, Vars(m), clash) \in Nat
<1> DEFINE V == Vars(m)
           n == Cardinality(A)
           k == [a \in A |-> Marks(x, V, g, a)]
           K(v) == ClashesOf(x, V, clash, v)
           Own == [v \in V |-> k[g[v]] * x[v]]
           Rest == [v \in V |-> k[g[v]] * x[v] - x[v]]
           Clash == [v \in V |-> x[v] * K(v)]
           Price == [v \in V |-> cost[v] * x[v]]
           Lin == [v \in V |-> m.linear[v] * x[v]]
           Quad == [v \in V |-> x[v] * Pull(m, x, v)]
           Sq == [a \in A |-> k[a] * k[a]]
           Df == [a \in A |-> k[a] * k[a] - 2 * k[a]]
           Ms == [a \in A |-> (k[a] - 1) * (k[a] - 1)]
           One == [a \in A |-> 1]
<1>0. /\ IsFiniteSet(V) /\ IsFiniteSet(A) /\ g \in [V -> A] /\ x \in [V -> {0, 1}] /\ p \in Int
      /\ cost \in [V -> Int] /\ n \in Nat
  BY FS_CardinalityType DEF IsGrouped, IsSelection
<1>f. IsFiniteSet(V)
  BY <1>0
<1>1. \A a \in A : k[a] \in Nat
  BY MarksType
<1>2. ASSUME NEW v \in V
      PROVE  /\ g[v] \in A /\ x[v] \in {0, 1} /\ k[g[v]] \in Nat /\ K(v) \in Nat /\ cost[v] \in Int
             /\ Own[v] \in Int /\ Rest[v] \in Int /\ Clash[v] \in Nat /\ Price[v] \in Int
             /\ Quad[v] = (8 * p) * Rest[v] + (4 * p) * Clash[v]
             /\ Lin[v] = 4 * Price[v] + (-4 * p) * x[v]
  <2>1. g[v] \in A /\ x[v] \in {0, 1} /\ k[g[v]] \in Nat /\ cost[v] \in Int
    BY <1>0, <1>1
  <2>2. Pull(m, x, v) = 8 * p * (k[g[v]] - x[v]) + 4 * p * K(v) /\ K(v) \in Nat
    BY <2>1, SelectionPull
  <2>3. m.linear[v] = 4 * (cost[v] - p)
    BY DEF IsSelection
  <2>4. /\ Own[v] = k[g[v]] * x[v] /\ Rest[v] = k[g[v]] * x[v] - x[v] /\ Clash[v] = x[v] * K(v)
        /\ Price[v] = cost[v] * x[v] /\ Lin[v] = m.linear[v] * x[v] /\ Quad[v] = x[v] * Pull(m, x, v)
    OBVIOUS
  <2> DEFINE Goal == /\ Own[v] \in Int /\ Rest[v] \in Int /\ Clash[v] \in Nat /\ Price[v] \in Int
                     /\ Quad[v] = (8 * p) * Rest[v] + (4 * p) * Clash[v]
                     /\ Lin[v] = 4 * Price[v] + (-4 * p) * x[v]
  <2> HIDE DEF K, k, Own, Rest, Clash, Price, Lin, Quad
  <2>5. ASSUME x[v] = 0 PROVE Goal
    <3>0. Pull(m, x, v) \in Int /\ m.linear[v] \in Int
      BY <2>1, <2>2, <2>3, <2>5, <1>0
    <3>1. Own[v] = 0 /\ Rest[v] = 0 /\ Clash[v] = 0 /\ Price[v] = 0 /\ Lin[v] = 0 /\ Quad[v] = 0
      BY <2>1, <2>2, <2>4, <2>5, <3>0
    <3> QED  BY <2>5, <3>1, <1>0
  <2>6. ASSUME x[v] = 1 PROVE Goal
    <3>1. Own[v] = k[g[v]] /\ Rest[v] = k[g[v]] - 1 /\ Clash[v] = K(v) /\ Price[v] = cost[v]
          /\ Lin[v] = m.linear[v] /\ Quad[v] = Pull(m, x, v)
      <4>1. Pull(m, x, v) \in Int /\ m.linear[v] \in Int
        BY <2>1, <2>2, <2>3, <2>6, <1>0
      <4> QED  BY <2>1, <2>2, <2>4, <2>6, <4>1
    <3>2. Quad[v] = (8 * p) * Rest[v] + (4 * p) * Clash[v]
      BY <2>2, <2>6, <3>1
    <3>3. Lin[v] = 4 * Price[v] + (-4 * p) * x[v]
      BY <2>1, <2>3, <2>6, <3>1, <1>0
    <3> QED  BY <2>1, <2>2, <3>1, <3>2, <3>3
  <2>7. x[v] = 0 \/ x[v] = 1
    BY <2>1
  <2> QED  BY <2>1, <2>2, <2>5, <2>6, <2>7
<1>3. ASSUME NEW a \in A
      PROVE  /\ k[a] \in Int /\ Sq[a] \in Int /\ Df[a] \in Int /\ One[a] \in Int /\ Ms[a] \in Nat
             /\ Df[a] = 1 * Sq[a] + -2 * k[a] /\ Ms[a] = 1 * Df[a] + 1 * One[a]
  <2>1. k[a] \in Nat
    BY <1>1
  <2>2. Sq[a] = k[a] * k[a] /\ Df[a] = k[a] * k[a] - 2 * k[a] /\ One[a] = 1
        /\ Ms[a] = (k[a] - 1) * (k[a] - 1)
    OBVIOUS
  <2> HIDE DEF k, Sq, Df, One, Ms
  <2>3. (k[a] - 1) * (k[a] - 1) = k[a] * k[a] - 2 * k[a] + 1 /\ k[a] * k[a] \in Int
    BY <2>1
  <2>4. (k[a] - 1) * (k[a] - 1) \in Nat
    <3>1. CASE k[a] = 0
      BY <3>1
    <3>2. CASE k[a] > 0
      <4>1. k[a] - 1 \in Nat
        BY <2>1, <3>2
      <4> QED  BY <4>1
    <3> QED  BY <2>1, <3>1, <3>2
  <2> QED  BY <2>1, <2>2, <2>3, <2>4
<1>4. ASSUME NEW f, \A v \in V : f[v] \in Int
      PROVE  SumFunctionOnSet(f, V) =
             SumFunctionOnSet([a \in A |-> SumFunctionOnSet(OfGroup(f, V, g, a), V)], A)
  BY <1>0, <1>4, SumByGroup
<1>5. SumFunctionOnSet(x, V) = SumFunctionOnSet(k, A)
  BY <1>2, <1>4 DEF Marks
<1>6. SumFunctionOnSet(Own, V) = SumFunctionOnSet(Sq, A)
  <2> DEFINE R == [a \in A |-> SumFunctionOnSet(OfGroup(Own, V, g, a), V)]
  <2>1. SumFunctionOnSet(Own, V) = SumFunctionOnSet(R, A)
    BY <1>2, <1>4
  <2>2. ASSUME NEW a \in A PROVE R[a] = Sq[a]
    <3> DEFINE B == OfGroup(x, V, g, a)
               C == OfGroup(Own, V, g, a)
               c == k[a]
    <3>1. \A v \in V : B[v] \in Int /\ C[v] = c * B[v]
      <4> SUFFICES ASSUME NEW v \in V PROVE B[v] \in Int /\ C[v] = c * B[v]
        OBVIOUS
      <4>1. x[v] \in Int
        BY <1>0
      <4>0. c \in Nat
        BY <1>1
      <4>2. CASE g[v] = a
        <5>1. B[v] = x[v] /\ C[v] = c * x[v]
          BY <4>2 DEF OfGroup
        <5> QED  BY <4>0, <4>1, <5>1
      <4>3. CASE g[v] # a
        <5>1. B[v] = 0 /\ C[v] = 0
          BY <4>3 DEF OfGroup
        <5> HIDE DEF B, C, c
        <5> QED  BY <4>0, <4>1, <5>1
      <4> QED  BY <4>2, <4>3
    <3>2. c \in Int /\ SumFunctionOnSet(B, V) = c /\ R[a] = SumFunctionOnSet(C, V) /\ Sq[a] = c * c
      BY <1>3 DEF Marks
    <3> HIDE DEF B, C, c, R, Sq
    <3>3. SumFunctionOnSet(C, V) = c * SumFunctionOnSet(B, V)
      BY <1>f, <3>1, <3>2, SumScaled
    <3> QED  BY <3>2, <3>3
  <2> HIDE DEF R, Sq, Own
  <2>3. SumFunctionOnSet(R, A) = SumFunctionOnSet(Sq, A)
    BY <1>0, <2>2, SumEqual
  <2> QED  BY <2>1, <2>3
<1>7. /\ Energy(m, x) = m.offset + SumFunctionOnSet(Lin, V) + SumFunctionOnSet(Quad, V) \div 2
      /\ Misses(x, V, g, A) = SumFunctionOnSet(Ms, A)
      /\ Clashes(x, V, clash) = SumFunctionOnSet(Clash, V)
      /\ SumFunctionOnSet(One, A) = n /\ m.offset = 4 * p * n
  <2>1. Energy(m, x) = m.offset + SumFunction(Lin) + SumFunction(Quad) \div 2
    BY DEF Energy
  <2>2. DOMAIN Lin = V /\ DOMAIN Quad = V
    OBVIOUS
  <2>3. SumFunction(Lin) = SumFunctionOnSet(Lin, V) /\ SumFunction(Quad) = SumFunctionOnSet(Quad, V)
    <3> HIDE DEF Lin, Quad, V
    <3> QED  BY <2>2, SumWhole
  <2>4. Misses(x, V, g, A) = SumFunctionOnSet(Ms, A)
    <3>1. [a \in A |-> (Marks(x, V, g, a) - 1) * (Marks(x, V, g, a) - 1)] = Ms
      OBVIOUS
    <3> QED  BY <3>1 DEF Misses
  <2>5. Clashes(x, V, clash) = SumFunctionOnSet(Clash, V)
    BY DEF Clashes
  <2>6. SumFunctionOnSet(One, A) = n
    BY <1>0, SumOfOnes
  <2>7. m.offset = 4 * p * n
    BY DEF IsSelection
  <2> QED  BY <2>1, <2>3, <2>4, <2>5, <2>6, <2>7
<1> HIDE DEF V, n, k, K, Own, Rest, Clash, Price, Lin, Quad, Sq, Df, Ms, One
<1> DEFINE X == SumFunctionOnSet(x, V)
           G == SumFunctionOnSet(Sq, A)
           C == SumFunctionOnSet(Price, V)
           T == SumFunctionOnSet(Clash, V)
<1>8. X \in Int /\ G \in Int /\ C \in Int /\ T \in Nat /\ SumFunctionOnSet(Ms, A) \in Nat
  <2>1. X \in Int
    BY <1>0, <1>2, SumType
  <2>2. G \in Int
    BY <1>0, <1>3, SumType
  <2>3. C \in Int
    BY <1>0, <1>2, SumType
  <2>4. T \in Nat
    BY <1>0, <1>2, SumOfNaturals
  <2>5. SumFunctionOnSet(Ms, A) \in Nat
    BY <1>0, <1>3, SumOfNaturals
  <2> QED  BY <2>1, <2>2, <2>3, <2>4, <2>5
<1>9. SumFunctionOnSet(Lin, V) = 4 * C + (-4 * p) * X
  <2> DEFINE a == 4
             b == -4 * p
  <2>1. a \in Int /\ b \in Int
    BY <1>0
  <2>2. \A v \in V : Price[v] \in Int /\ x[v] \in Int /\ Lin[v] = a * Price[v] + b * x[v]
    BY <1>2
  <2> HIDE DEF a, b
  <2>3. IsMix(Lin, a, Price, b, x, V)
    BY <1>f, <2>1, <2>2 DEF IsMix
  <2>4. SumFunctionOnSet(Lin, V) = a * SumFunctionOnSet(Price, V) + b * SumFunctionOnSet(x, V)
    BY <2>3, SumMix
  <2> QED  BY <2>4 DEF a, b
<1>10. SumFunctionOnSet(Rest, V) = G - X
  <2> DEFINE a == 1
             b == -1
  <2>1. a \in Int /\ b \in Int
    OBVIOUS
  <2>2. \A v \in V : Own[v] \in Int /\ x[v] \in Int /\ Rest[v] = a * Own[v] + b * x[v]
    BY <1>2 DEF Own, Rest
  <2> HIDE DEF a, b
  <2>3. IsMix(Rest, a, Own, b, x, V)
    BY <1>f, <2>1, <2>2 DEF IsMix
  <2>4. SumFunctionOnSet(Rest, V) = a * SumFunctionOnSet(Own, V) + b * SumFunctionOnSet(x, V)
    BY <2>3, SumMix
  <2> QED  BY <1>6, <1>8, <2>4 DEF a, b
<1>11. SumFunctionOnSet(Quad, V) = (8 * p) * (G - X) + (4 * p) * T
  <2> DEFINE a == 8 * p
             b == 4 * p
  <2>1. a \in Int /\ b \in Int
    BY <1>0
  <2>2. \A v \in V : Rest[v] \in Int /\ Clash[v] \in Int /\ Quad[v] = a * Rest[v] + b * Clash[v]
    BY <1>2
  <2> HIDE DEF a, b
  <2>3. IsMix(Quad, a, Rest, b, Clash, V)
    BY <1>f, <2>1, <2>2 DEF IsMix
  <2>4. SumFunctionOnSet(Quad, V) = a * SumFunctionOnSet(Rest, V) + b * SumFunctionOnSet(Clash, V)
    BY <2>3, SumMix
  <2> QED  BY <1>10, <2>4 DEF a, b
<1>12. SumFunctionOnSet(Df, A) = G - 2 * X
  <2> DEFINE a == 1
             b == -2
  <2>1. a \in Int /\ b \in Int
    OBVIOUS
  <2>2. \A v \in A : Sq[v] \in Int /\ k[v] \in Int /\ Df[v] = a * Sq[v] + b * k[v]
    BY <1>3
  <2> HIDE DEF a, b
  <2>3. IsMix(Df, a, Sq, b, k, A)
    BY <1>0, <2>1, <2>2 DEF IsMix
  <2>4. SumFunctionOnSet(Df, A) = a * SumFunctionOnSet(Sq, A) + b * SumFunctionOnSet(k, A)
    BY <2>3, SumMix
  <2> QED  BY <1>5, <1>8, <2>4 DEF a, b
<1>13. SumFunctionOnSet(Ms, A) = G - 2 * X + n
  <2> DEFINE a == 1
             b == 1
  <2>1. a \in Int /\ b \in Int
    OBVIOUS
  <2>2. \A v \in A : Df[v] \in Int /\ One[v] \in Int /\ Ms[v] = a * Df[v] + b * One[v]
    BY <1>3
  <2> HIDE DEF a, b
  <2>3. IsMix(Ms, a, Df, b, One, A)
    BY <1>0, <2>1, <2>2 DEF IsMix
  <2>4. SumFunctionOnSet(Ms, A) = a * SumFunctionOnSet(Df, A) + b * SumFunctionOnSet(One, A)
    BY <2>3, SumMix
  <2> QED  BY <1>0, <1>7, <1>8, <1>12, <2>4 DEF a, b
<1> DEFINE M == SumFunctionOnSet(Ms, A)
<1>14. SumFunctionOnSet(Quad, V) \div 2 = (4 * p) * (G - X) + (2 * p) * T
  <2> DEFINE h == (4 * p) * (G - X) + (2 * p) * T
  <2>1. h \in Int /\ SumFunctionOnSet(Quad, V) = 2 * h
    <3> HIDE DEF G, X, T
    <3> QED  BY <1>0, <1>8, <1>11
  <2> HIDE DEF h
  <2>2. (2 * h) \div 2 = h
    BY <2>1
  <2> QED  BY <2>1, <2>2 DEF h
<1>15. Energy(m, x) = 4 * C + 4 * p * M + 2 * p * T
  <2> DEFINE E == Energy(m, x)
             L == SumFunctionOnSet(Lin, V)
             Q == SumFunctionOnSet(Quad, V) \div 2
  <2>1. /\ E = 4 * p * n + L + Q /\ L = 4 * C + (-4 * p) * X /\ M = G - 2 * X + n
        /\ Q = (4 * p) * (G - X) + (2 * p) * T
    BY <1>7, <1>9, <1>13, <1>14
  <2> HIDE DEF E, L, Q, X, G, C, T, M
  <2>2. 4 * p * M = 4 * p * G - 8 * p * X + 4 * p * n
    BY <2>1, <1>0, <1>8
  <2>3. E = 4 * C + 4 * p * M + 2 * p * T
    BY <2>1, <2>2, <1>0, <1>8
  <2> QED  BY <2>3 DEF E
<1>16. C = Travel(x, Vars(m), cost)
  BY DEF Price, V, Travel
<1> QED  BY <1>7, <1>8, <1>15, <1>16 DEF V
(* Double sums can be taken either way round.                               *)
ColumnOf(f, A, b) == [a \in A |-> f[a][b]]

RowSums(f, A, B) == [a \in A |-> SumFunctionOnSet(f[a], B)]

\* The sums of the columns, as far as the rows of S.
ColumnSums(f, A, B, S) == [b \in B |-> SumFunctionOnSet(ColumnOf(f, A, b), S)]

LEMMA SumSwap ==
    ASSUME NEW A, NEW B, IsFiniteSet(A), IsFiniteSet(B), NEW f,
           \A a \in A : \A b \in B : f[a][b] \in Int
    PROVE  SumFunctionOnSet(RowSums(f, A, B), A) = SumFunctionOnSet(ColumnSums(f, A, B, A), B)
<1> DEFINE R == RowSums(f, A, B)
           C(S) == ColumnSums(f, A, B, S)
           T == {S \in SUBSET A : SumFunctionOnSet(R, S) = SumFunctionOnSet(C(S), B)}
<1>1. \A a \in A : R[a] = SumFunctionOnSet(f[a], B) /\ R[a] \in Int
  BY SumType DEF RowSums
<1>2. \A a \in A : \A b \in B : ColumnOf(f, A, b)[a] = f[a][b]
  BY DEF ColumnOf
<1>3. {} \in T
  <2>1. \A b \in B : C({})[b] = 0
    BY SumEmpty DEF ColumnSums
  <2> DEFINE c == C({})
  <2> HIDE DEF C
  <2>2. SumFunctionOnSet(c, B) = 0
    BY <2>1, SumZero
  <2>3. SumFunctionOnSet(R, {}) = 0
    BY SumEmpty
  <2> QED  BY <2>2, <2>3
<1>4. ASSUME NEW S \in SUBSET A, NEW k \in A \ S, S \in T
      PROVE  S \cup {k} \in T
  <2> DEFINE c == C(S)
             d == C(S \cup {k})
             r == f[k]
  <2>1. IsFiniteSet(S)
    BY FS_Subset
  <2>2. ASSUME NEW b \in B PROVE r[b] \in Int /\ c[b] \in Int /\ d[b] = 1 * r[b] + 1 * c[b]
    <3> DEFINE g == ColumnOf(f, A, b)
    <3>1. c[b] = SumFunctionOnSet(g, S) /\ d[b] = SumFunctionOnSet(g, S \cup {k})
      BY DEF ColumnSums
    <3>2. \A a \in A : g[a] = f[a][b] /\ g[a] \in Int
      BY <1>2
    <3> HIDE DEF g, c, d
    <3>3. \A a \in S \cup {k} : g[a] \in Int
      BY <3>2
    <3>4. SumFunctionOnSet(g, S \cup {k}) = g[k] + SumFunctionOnSet(g, S)
      BY <2>1, <3>3, SumInsert
    <3>5. SumFunctionOnSet(g, S) \in Int
      BY <2>1, <3>3, SumType
    <3> QED  BY <3>1, <3>2, <3>4, <3>5
  <2>3. SumFunctionOnSet(R, S \cup {k}) = R[k] + SumFunctionOnSet(R, S)
    <3>1. \A a \in S \cup {k} : R[a] \in Int
      BY <1>1
    <3> HIDE DEF R
    <3> QED  BY <2>1, <3>1, SumInsert
  <2>4. SumFunctionOnSet(R, S) = SumFunctionOnSet(c, B) /\ R[k] = SumFunctionOnSet(r, B)
    BY <1>1, <1>4
  <2> HIDE DEF c, d, r
  <2>5. IsMix(d, 1, r, 1, c, B)
    BY <2>2 DEF IsMix
  <2>6. SumFunctionOnSet(d, B) = 1 * SumFunctionOnSet(r, B) + 1 * SumFunctionOnSet(c, B)
    BY <2>5, SumMix
  <2>7. SumFunctionOnSet(r, B) \in Int /\ SumFunctionOnSet(c, B) \in Int
    BY <2>2, SumType
  <2>8. SumFunctionOnSet(R, S \cup {k}) = SumFunctionOnSet(d, B)
    BY <2>3, <2>4, <2>6, <2>7
  <2> QED  BY <2>8 DEF d
<1> HIDE DEF T
<1>5. A \in T
  BY <1>3, <1>4, ElementInduction
<1> QED  BY <1>5 DEF T

(* A sum over a part, as one over the whole.                                *)
Within(f, D, S) == [x \in D |-> IF x \in S THEN f[x] ELSE 0]

LEMMA SumWithin ==
    ASSUME NEW D, IsFiniteSet(D), NEW S, S \subseteq D, NEW f, \A x \in D : f[x] \in Int
    PROVE  SumFunctionOnSet(f, S) = SumFunctionOnSet(Within(f, D, S), D)
<1> DEFINE g == Within(f, D, S)
           T == {U \in SUBSET D : SumFunctionOnSet(f, S \cap U) = SumFunctionOnSet(g, U)}
<1>1. \A x \in D : g[x] \in Int /\ (x \in S => g[x] = f[x]) /\ (x \notin S => g[x] = 0)
  BY DEF Within
<1>2. {} \in T
  <2>1. S \cap {} = {}
    OBVIOUS
  <2> QED  BY <2>1, SumEmpty
<1>3. ASSUME NEW U \in SUBSET D, NEW k \in D \ U, U \in T
      PROVE  U \cup {k} \in T
  <2> HIDE DEF g
  <2>1. IsFiniteSet(U) /\ IsFiniteSet(S \cap U)
    BY FS_Subset
  <2>2. SumFunctionOnSet(g, U \cup {k}) = g[k] + SumFunctionOnSet(g, U)
    <3>1. \A x \in U \cup {k} : g[x] \in Int
      BY <1>1
    <3> QED  BY <2>1, <3>1, SumInsert
  <2>3. SumFunctionOnSet(g, U) \in Int
    BY <1>1, <2>1, SumType
  <2>4. CASE k \in S
    <3>1. S \cap (U \cup {k}) = (S \cap U) \cup {k} /\ k \notin S \cap U
      BY <2>4
    <3>2. \A x \in (S \cap U) \cup {k} : f[x] \in Int
      OBVIOUS
    <3>3. SumFunctionOnSet(f, (S \cap U) \cup {k}) = f[k] + SumFunctionOnSet(f, S \cap U)
      BY <2>1, <3>1, <3>2, SumInsert
    <3> QED  BY <1>1, <1>3, <2>2, <2>4, <3>1, <3>3
  <2>5. CASE k \notin S
    <3>1. S \cap (U \cup {k}) = S \cap U
      BY <2>5
    <3>2. g[k] = 0 /\ SumFunctionOnSet(f, S \cap U) = SumFunctionOnSet(g, U)
      BY <1>1, <1>3, <2>5
    <3>3. SumFunctionOnSet(g, U \cup {k}) = SumFunctionOnSet(f, S \cap U)
      BY <2>2, <2>3, <3>2
    <3>4. SumFunctionOnSet(f, S \cap (U \cup {k})) = SumFunctionOnSet(f, S \cap U)
      BY <3>1
    <3> QED  BY <3>3, <3>4
  <2> QED  BY <2>4, <2>5
<1>4. D \in T
  <2> HIDE DEF T
  <2> QED  BY <1>2, <1>3, ElementInduction
<1>5. S \cap D = S
  OBVIOUS
<1> QED  BY <1>4, <1>5

(* The square of a signed sum, as a model: every pair of numbers couples.   *)
IsSquare(m, a) ==
    /\ IsFiniteSet(Vars(m)) /\ a \in [Vars(m) -> Int]
    /\ m.offset = 4 * SumFunctionOnSet([i \in Vars(m) |-> a[i] * a[i]], Vars(m))
    /\ \A i, j \in Vars(m) :
         m.linear[i] = 0 /\ m.quad[i][j] = IF i = j THEN 0 ELSE 8 * (a[i] * a[j])

Signed(a, s, V) == [i \in V |-> a[i] * s[i]]

LEMMA SquareEnergy ==
    ASSUME NEW m, NEW a, IsSquare(m, a), NEW s \in [Vars(m) -> {-1, 1}]
    PROVE  LET d == SumFunctionOnSet(Signed(a, s, Vars(m)), Vars(m))
           IN  d \in Int /\ Energy(m, s) = 4 * (d * d)
<1> DEFINE V == Vars(m)
           y == Signed(a, s, V)
           d == SumFunctionOnSet(y, V)
           q == [i \in V |-> a[i] * a[i]]
           L == [i \in V |-> m.linear[i] * s[i]]
           Q == [i \in V |-> s[i] * Pull(m, s, i)]
<1>0. /\ IsFiniteSet(V) /\ a \in [V -> Int] /\ m.offset = 4 * SumFunctionOnSet(q, V)
      /\ \A i, j \in V : m.linear[i] = 0 /\ m.quad[i][j] = IF i = j THEN 0 ELSE 8 * (a[i] * a[j])
  BY DEF IsSquare
<1>1. ASSUME NEW i \in V
      PROVE  /\ a[i] \in Int /\ s[i] \in {-1, 1} /\ y[i] = a[i] * s[i] /\ y[i] \in Int
             /\ q[i] = a[i] * a[i] /\ q[i] \in Int /\ y[i] * y[i] = q[i] /\ s[i] * y[i] = a[i]
  <2>1. a[i] \in Int /\ s[i] \in {-1, 1} /\ y[i] = a[i] * s[i] /\ q[i] = a[i] * a[i]
    BY <1>0 DEF Signed
  <2> HIDE DEF y, q
  <2>2. CASE s[i] = 1
    BY <2>1, <2>2
  <2>3. CASE s[i] = -1
    BY <2>1, <2>3
  <2> QED  BY <2>1, <2>2, <2>3
<1>2. d \in Int
  <2> HIDE DEF y
  <2> QED  BY <1>0, <1>1, SumType
<1>3. ASSUME NEW i \in V
      PROVE  Pull(m, s, i) \in Int /\ Pull(m, s, i) = 8 * a[i] * (d - y[i])
  <2> DEFINE p == [j \in V |-> m.quad[i][j] * s[j]]
             z == [j \in V |-> IF j = i THEN 0 ELSE y[j]]
             c == 8 * a[i]
  <2>1. Pull(m, s, i) = SumFunctionOnSet(p, V)
    <3>1. Pull(m, s, i) = SumFunction(p) /\ DOMAIN p = V
      BY DEF Pull
    <3> HIDE DEF p
    <3> QED  BY <3>1, SumWhole
  <2>2. c \in Int
    BY <1>1
  <2>3. ASSUME NEW j \in V PROVE z[j] \in Int /\ p[j] = c * z[j]
    <3>1. CASE j = i
      <4>1. p[j] = 0 * s[j] /\ z[j] = 0
        BY <1>0, <3>1
      <4> HIDE DEF p, z, c
      <4> QED  BY <1>1, <2>2, <4>1
    <3>2. CASE j # i
      <4>1. p[j] = 8 * (a[i] * a[j]) * s[j] /\ z[j] = y[j]
        BY <1>0, <3>2
      <4> HIDE DEF p, z, y
      <4>2. 8 * (a[i] * a[j]) * s[j] = (8 * a[i]) * (a[j] * s[j])
        BY <1>1
      <4> QED  BY <1>1, <4>1, <4>2
    <3> QED  BY <3>1, <3>2
  <2>4. z[i] = 0 /\ \A j \in V \ {i} : y[j] = z[j]
    OBVIOUS
  <2> HIDE DEF p, z, c
  <2>5. SumFunctionOnSet(p, V) = c * SumFunctionOnSet(z, V)
    BY <1>0, <2>2, <2>3, SumScaled
  <2>6. SumFunctionOnSet(z, V) = d - y[i] + z[i]
    <3> HIDE DEF y
    <3>1. \A j \in V : y[j] \in Int /\ z[j] \in Int
      BY <1>1, <2>3
    <3> QED  BY <1>0, <2>4, <3>1, SumUpdate
  <2> HIDE DEF d, y
  <2> QED  BY <1>1, <1>2, <2>1, <2>4, <2>5, <2>6 DEF c
<1>4. Energy(m, s) = m.offset + SumFunctionOnSet(L, V) + SumFunctionOnSet(Q, V) \div 2
  <2>1. Energy(m, s) = m.offset + SumFunction(L) + SumFunction(Q) \div 2
    BY DEF Energy
  <2>2. DOMAIN L = V /\ DOMAIN Q = V
    OBVIOUS
  <2> HIDE DEF L, Q, V
  <2> QED  BY <2>1, <2>2, SumWhole
<1>5. SumFunctionOnSet(L, V) = 0
  <2>1. \A i \in V : L[i] = 0
    BY <1>0, <1>1
  <2> HIDE DEF L
  <2> QED  BY <1>0, <2>1, SumZero
<1>6. ASSUME NEW i \in V PROVE Q[i] = (8 * d) * y[i] + -8 * q[i]
  <2>1. Q[i] = s[i] * (8 * a[i] * (d - y[i]))
    BY <1>3
  <2> HIDE DEF Q, d, y, q
  <2>2. s[i] * (8 * a[i] * (d - y[i])) = 8 * (a[i] * s[i]) * (d - y[i])
    BY <1>1, <1>2
  <2>3. 8 * y[i] * (d - y[i]) = (8 * d) * y[i] - 8 * (y[i] * y[i])
    BY <1>1, <1>2
  <2> QED  BY <1>1, <1>2, <2>1, <2>2, <2>3
<1>7. SumFunctionOnSet(q, V) \in Int
  <2> HIDE DEF q
  <2> QED  BY <1>0, <1>1, SumType
<1>8. SumFunctionOnSet(Q, V) = (8 * d) * d + -8 * SumFunctionOnSet(q, V)
  <2> DEFINE A == 8 * d
             B == -8
  <2>1. IsMix(Q, A, y, B, q, V)
    <3>1. A \in Int /\ B \in Int
      BY <1>2
    <3>2. \A i \in V : y[i] \in Int /\ q[i] \in Int /\ Q[i] = A * y[i] + B * q[i]
      BY <1>1, <1>6
    <3> HIDE DEF A, B, Q, y, q
    <3> QED  BY <1>0, <3>1, <3>2 DEF IsMix
  <2> HIDE DEF A, B, Q, y, q
  <2>2. SumFunctionOnSet(Q, V) = A * SumFunctionOnSet(y, V) + B * SumFunctionOnSet(q, V)
    BY <2>1, SumMix
  <2>3. SumFunctionOnSet(y, V) = d /\ A = 8 * d /\ B = -8
    BY DEF A, B
  <2> HIDE DEF d
  <2> QED  BY <1>2, <1>7, <2>2, <2>3
<1>9. SumFunctionOnSet(Q, V) \div 2 = 4 * (d * d) - 4 * SumFunctionOnSet(q, V)
  <2> DEFINE h == 4 * (d * d) - 4 * SumFunctionOnSet(q, V)
  <2>1. h \in Int /\ SumFunctionOnSet(Q, V) = 2 * h
    <3> HIDE DEF d, q, Q
    <3> QED  BY <1>2, <1>7, <1>8
  <2> HIDE DEF h
  <2>2. (2 * h) \div 2 = h
    BY <2>1, WholeQuarters
  <2> QED  BY <2>1, <2>2 DEF h
<1> HIDE DEF q, L, Q, y
<1>10. Energy(m, s) = 4 * (d * d)
  <2> HIDE DEF d
  <2> QED  BY <1>0, <1>2, <1>4, <1>5, <1>7, <1>9
<1> QED  BY <1>2, <1>10 DEF y

(* A weighted list K of pairs, as a model: a pair couples its two ends.     *)
Joins(u, v, K, i, j) == {k \in K : i # j /\ {u[k], v[k]} = {i, j}}

IsCut(m, K, u, v, w) ==
    /\ IsFiniteSet(Vars(m)) /\ IsFiniteSet(K)
    /\ u \in [K -> Vars(m)] /\ v \in [K -> Vars(m)] /\ w \in [K -> Int]
    /\ \A k \in K : u[k] # v[k]
    /\ m.offset = 0
    /\ \A i, j \in Vars(m) :
         m.linear[i] = 0 /\ m.quad[i][j] = 4 * SumFunctionOnSet(w, Joins(u, v, K, i, j))

Bonds(u, v, w, K, s) == [k \in K |-> w[k] * s[u[k]] * s[v[k]]]

(* What the pairs contribute to the couplings of a variable.                *)
LEMMA CutPull ==
    ASSUME NEW m, NEW K, NEW u, NEW v, NEW w, IsCut(m, K, u, v, w),
           NEW s \in [Vars(m) -> {-1, 1}], NEW i \in Vars(m)
    PROVE  /\ Pull(m, s, i) \in Int
           /\ s[i] * Pull(m, s, i) =
                SumFunctionOnSet([k \in K |-> IF i = u[k] \/ i = v[k]
                                              THEN 4 * Bonds(u, v, w, K, s)[k] ELSE 0], K)
<1> DEFINE V == Vars(m)
           e == Bonds(u, v, w, K, s)
           p == [j \in V |-> m.quad[i][j] * s[j]]
           W(j) == Within(w, K, Joins(u, v, K, i, j))
           f == [j \in V |-> [k \in K |-> (4 * s[j]) * W(j)[k]]]
           R == RowSums(f, V, K)
           C == ColumnSums(f, V, K, V)
           g == [k \in K |-> IF i = u[k] \/ i = v[k] THEN (4 * s[i]) * e[k] ELSE 0]
           h == [k \in K |-> IF i = u[k] \/ i = v[k] THEN 4 * e[k] ELSE 0]
<1>0. /\ IsFiniteSet(V) /\ IsFiniteSet(K) /\ u \in [K -> V] /\ v \in [K -> V] /\ w \in [K -> Int]
      /\ s \in [V -> {-1, 1}] /\ i \in V /\ \A k \in K : u[k] # v[k]
  BY DEF IsCut
<1>1. ASSUME NEW k \in K
      PROVE  /\ w[k] \in Int /\ u[k] \in V /\ v[k] \in V /\ u[k] # v[k] /\ s[u[k]] \in {-1, 1}
             /\ s[v[k]] \in {-1, 1} /\ e[k] = w[k] * s[u[k]] * s[v[k]] /\ e[k] \in Int
             /\ (u[k] = i => s[i] * e[k] = w[k] * s[v[k]])
             /\ (v[k] = i => s[i] * e[k] = w[k] * s[u[k]])
  <2>1. /\ w[k] \in Int /\ u[k] \in V /\ v[k] \in V /\ u[k] # v[k]
        /\ e[k] = w[k] * s[u[k]] * s[v[k]]
    BY <1>0 DEF Bonds
  <2>2. s[u[k]] \in {-1, 1} /\ s[v[k]] \in {-1, 1} /\ s[i] \in {-1, 1}
    BY <1>0, <2>1
  <2> DEFINE a == s[u[k]]
             b == s[v[k]]
             c == w[k]
  <2> HIDE DEF e, a, b, c
  <2>3. a * (c * a * b) = c * b /\ b * (c * a * b) = c * a /\ c * a * b \in Int
    <3>1. a \in {-1, 1} /\ b \in {-1, 1} /\ c \in Int
      BY <2>1, <2>2 DEF a, b, c
    <3>2. CASE a = 1
      BY <3>1, <3>2
    <3>3. CASE a = -1
      BY <3>1, <3>3
    <3> QED  BY <3>1, <3>2, <3>3
  <2> QED  BY <2>1, <2>2, <2>3 DEF a, b, c
<1>2. ASSUME NEW j \in V
      PROVE  /\ s[j] \in {-1, 1}
             /\ \A k \in K : W(j)[k] \in Int /\ f[j][k] \in Int /\ f[j][k] = (4 * s[j]) * W(j)[k]
             /\ SumFunctionOnSet(w, Joins(u, v, K, i, j)) = SumFunctionOnSet(W(j), K)
  <2>1. s[j] \in {-1, 1}
    BY <1>0
  <2>2. \A k \in K : W(j)[k] \in Int
    BY <1>1 DEF Within
  <2>3. \A k \in K : f[j][k] = (4 * s[j]) * W(j)[k]
    OBVIOUS
  <2>4. SumFunctionOnSet(w, Joins(u, v, K, i, j)) = SumFunctionOnSet(W(j), K)
    <3> DEFINE S == Joins(u, v, K, i, j)
    <3>1. S \subseteq K /\ \A k \in K : w[k] \in Int
      BY <1>1 DEF Joins
    <3> HIDE DEF S
    <3>2. SumFunctionOnSet(w, S) = SumFunctionOnSet(Within(w, K, S), K)
      BY <1>0, <3>1, SumWithin
    <3> QED  BY <3>2 DEF S
  <2> HIDE DEF f, W
  <2> QED  BY <2>1, <2>2, <2>3, <2>4
<1>3. ASSUME NEW j \in V PROVE p[j] = R[j] /\ p[j] \in Int
  <2> DEFINE a == 4 * s[j]
             r == f[j]
             t == W(j)
  <2>1. p[j] = 4 * SumFunctionOnSet(t, K) * s[j]
    BY <1>0, <1>2 DEF IsCut
  <2>2. R[j] = SumFunctionOnSet(r, K)
    BY DEF RowSums
  <2>3. a \in Int /\ \A k \in K : t[k] \in Int /\ r[k] = a * t[k]
    BY <1>2
  <2> HIDE DEF p, R, r, t
  <2>4. SumFunctionOnSet(t, K) \in Int
    BY <1>0, <2>3, SumType
  <2>5. SumFunctionOnSet(r, K) = a * SumFunctionOnSet(t, K)
    <3> HIDE DEF a
    <3> QED  BY <1>0, <2>3, SumScaled
  <2> QED  BY <1>2, <2>1, <2>2, <2>4, <2>5
<1>4. ASSUME NEW k \in K PROVE C[k] = g[k] /\ g[k] \in Int
  <2> DEFINE c == ColumnOf(f, V, k)
  <2>1. C[k] = SumFunctionOnSet(c, V)
    BY DEF ColumnSums
  <2>2. \A j \in V : c[j] = (4 * s[j]) * W(j)[k] /\ c[j] \in Int
    BY <1>2 DEF ColumnOf
  <2>3. \A j \in V : W(j)[k] = IF i # j /\ {u[k], v[k]} = {i, j} THEN w[k] ELSE 0
    BY DEF Within, Joins
  <2>4. g[k] = IF i = u[k] \/ i = v[k] THEN (4 * s[i]) * e[k] ELSE 0
    OBVIOUS
  <2> HIDE DEF c, W, C, g, e
  <2>5. CASE i = u[k]
    <3>1. v[k] \in V /\ c[v[k]] = (4 * s[v[k]]) * w[k] /\ c[v[k]] \in Int
      BY <1>1, <2>2, <2>3, <2>5
    <3>2. ASSUME NEW j \in V \ {v[k]} PROVE c[j] = 0
      <4>1. {u[k], v[k]} # {i, j}
        BY <1>1, <2>5
      <4>2. W(j)[k] = 0
        BY <2>3, <4>1
      <4> QED  BY <1>2, <2>2, <4>2
    <3>3. SumFunctionOnSet(c, V) = c[v[k]]
      BY <1>0, <3>1, <3>2, SumSingle
    <3>4. g[k] = (4 * s[v[k]]) * w[k]
      BY <1>0, <1>1, <2>4, <2>5
    <3> QED  BY <2>1, <3>1, <3>3, <3>4
  <2>6. CASE i = v[k]
    <3>1. u[k] \in V /\ c[u[k]] = (4 * s[u[k]]) * w[k] /\ c[u[k]] \in Int
      BY <1>1, <2>2, <2>3, <2>6
    <3>2. ASSUME NEW j \in V \ {u[k]} PROVE c[j] = 0
      <4>1. {u[k], v[k]} # {i, j}
        BY <1>1, <2>6
      <4>2. W(j)[k] = 0
        BY <2>3, <4>1
      <4> QED  BY <1>2, <2>2, <4>2
    <3>3. SumFunctionOnSet(c, V) = c[u[k]]
      BY <1>0, <3>1, <3>2, SumSingle
    <3>4. g[k] = (4 * s[u[k]]) * w[k]
      BY <1>0, <1>1, <2>4, <2>6
    <3> QED  BY <2>1, <3>1, <3>3, <3>4
  <2>7. CASE i # u[k] /\ i # v[k]
    <3>1. ASSUME NEW j \in V PROVE c[j] = 0
      <4>1. {u[k], v[k]} # {i, j}
        BY <2>7
      <4>2. W(j)[k] = 0
        BY <2>3, <4>1
      <4> QED  BY <1>2, <2>2, <4>2
    <3>2. SumFunctionOnSet(c, V) = 0
      BY <1>0, <3>1, SumZero
    <3> QED  BY <2>1, <2>4, <2>7, <3>2
  <2> QED  BY <2>5, <2>6, <2>7
<1>5. Pull(m, s, i) = SumFunctionOnSet(p, V)
  <2>1. Pull(m, s, i) = SumFunction(p) /\ DOMAIN p = V
    BY DEF Pull
  <2> HIDE DEF p
  <2> QED  BY <2>1, SumWhole
<1>6. \A j \in V : \A k \in K : f[j][k] \in Int
  BY <1>2
<1> HIDE DEF p, f, g, h, W
<1>7. SumFunctionOnSet(p, V) = SumFunctionOnSet(R, V) /\ SumFunctionOnSet(p, V) \in Int
  <2> HIDE DEF R
  <2> QED  BY <1>0, <1>3, SumEqual, SumType
<1>8. SumFunctionOnSet(R, V) = SumFunctionOnSet(C, K)
  BY <1>0, <1>6, SumSwap
<1>9. SumFunctionOnSet(C, K) = SumFunctionOnSet(g, K)
  <2> HIDE DEF C
  <2> QED  BY <1>0, <1>4, SumEqual
<1>10. ASSUME NEW k \in K PROVE h[k] = s[i] * g[k]
  <2>1. /\ g[k] = IF i = u[k] \/ i = v[k] THEN (4 * s[i]) * e[k] ELSE 0
        /\ h[k] = IF i = u[k] \/ i = v[k] THEN 4 * e[k] ELSE 0
    BY DEF g, h
  <2>2. e[k] \in Int /\ s[i] \in {-1, 1}
    BY <1>0, <1>1
  <2> HIDE DEF e
  <2>3. s[i] * ((4 * s[i]) * e[k]) = 4 * e[k]
    <3>1. CASE s[i] = 1
      BY <2>2, <3>1
    <3>2. CASE s[i] = -1
      BY <2>2, <3>2
    <3> QED  BY <2>2, <3>1, <3>2
  <2> QED  BY <2>1, <2>2, <2>3
<1>11. SumFunctionOnSet(h, K) = s[i] * SumFunctionOnSet(g, K)
  <2>1. s[i] \in Int /\ \A k \in K : g[k] \in Int /\ h[k] = s[i] * g[k]
    BY <1>0, <1>4, <1>10
  <2> QED  BY <1>0, <2>1, SumScaled
<1>12. s[i] * Pull(m, s, i) = SumFunctionOnSet(h, K) /\ Pull(m, s, i) \in Int
  BY <1>5, <1>7, <1>8, <1>9, <1>11
<1> QED  BY <1>12 DEF h

(* What a state of such a model costs: the weights of all pairs, less twice *)
(* those of the pairs it cuts.                                              *)
Parted(u, v, K, s) == {k \in K : s[u[k]] # s[v[k]]}

LEMMA CutEnergy ==
    ASSUME NEW m, NEW K, NEW u, NEW v, NEW w, IsCut(m, K, u, v, w),
           NEW s \in [Vars(m) -> {-1, 1}]
    PROVE  Energy(m, s) = 4 * (SumFunctionOnSet(w, K) - 2 * SumFunctionOnSet(w, Parted(u, v, K, s)))
<1> DEFINE V == Vars(m)
           e == Bonds(u, v, w, K, s)
           L == [i \in V |-> m.linear[i] * s[i]]
           Q == [i \in V |-> s[i] * Pull(m, s, i)]
           f == [i \in V |-> [k \in K |-> IF i = u[k] \/ i = v[k] THEN 4 * e[k] ELSE 0]]
           R == RowSums(f, V, K)
           C == ColumnSums(f, V, K, V)
           S == Parted(u, v, K, s)
           x == Within(w, K, S)
<1>0. /\ IsFiniteSet(V) /\ IsFiniteSet(K) /\ m.offset = 0 /\ \A i \in V : m.linear[i] = 0
  BY DEF IsCut
<1>1. ASSUME NEW k \in K
      PROVE  /\ w[k] \in Int /\ u[k] \in V /\ v[k] \in V /\ u[k] # v[k] /\ e[k] \in Int
             /\ x[k] \in Int /\ e[k] = 1 * w[k] + -2 * x[k]
  <2>1. w[k] \in Int /\ u[k] \in V /\ v[k] \in V /\ u[k] # v[k] /\ e[k] = w[k] * s[u[k]] * s[v[k]]
    BY DEF IsCut, Bonds
  <2>2. s[u[k]] \in {-1, 1} /\ s[v[k]] \in {-1, 1}
    BY <2>1
  <2>3. x[k] = IF s[u[k]] # s[v[k]] THEN w[k] ELSE 0
    BY DEF Within, Parted
  <2> HIDE DEF e, x
  <2>4. CASE s[u[k]] = 1 /\ s[v[k]] = 1
    BY <2>1, <2>3, <2>4
  <2>5. CASE s[u[k]] = -1 /\ s[v[k]] = -1
    BY <2>1, <2>3, <2>5
  <2>6. CASE s[u[k]] = 1 /\ s[v[k]] = -1
    BY <2>1, <2>3, <2>6
  <2>7. CASE s[u[k]] = -1 /\ s[v[k]] = 1
    BY <2>1, <2>3, <2>7
  <2> QED  BY <2>2, <2>4, <2>5, <2>6, <2>7
<1>2. ASSUME NEW i \in V
      PROVE  /\ \A k \in K : f[i][k] = (IF i = u[k] \/ i = v[k] THEN 4 * e[k] ELSE 0)
                             /\ f[i][k] \in Int
             /\ Q[i] = R[i] /\ R[i] \in Int
  <2>1. \A k \in K : f[i][k] = IF i = u[k] \/ i = v[k] THEN 4 * e[k] ELSE 0
    OBVIOUS
  <2>2. \A k \in K : f[i][k] \in Int
    <3> HIDE DEF e, f
    <3> QED  BY <1>1, <2>1
  <2>3. Q[i] = SumFunctionOnSet(f[i], K)
    BY CutPull
  <2>4. R[i] = SumFunctionOnSet(f[i], K)
    BY DEF RowSums
  <2> DEFINE r == f[i]
  <2>5. \A k \in K : r[k] \in Int
    BY <2>2
  <2>6. R[i] \in Int
    <3> HIDE DEF f, r, R
    <3>1. SumFunctionOnSet(r, K) \in Int
      BY <1>0, <2>5, SumType
    <3> QED  BY <2>4, <3>1 DEF r
  <2> HIDE DEF Q, R, f, e
  <2> QED  BY <2>1, <2>2, <2>3, <2>4, <2>6
<1>3. ASSUME NEW k \in K PROVE C[k] = 8 * e[k]
  <2> DEFINE c == ColumnOf(f, V, k)
             a == u[k]
             b == v[k]
  <2>1. C[k] = SumFunctionOnSet(c, V)
    BY DEF ColumnSums
  <2>2. \A i \in V : c[i] = (IF i = a \/ i = b THEN 4 * e[k] ELSE 0) /\ c[i] \in Int
    <3>1. \A i \in V : c[i] = f[i][k]
      BY DEF ColumnOf
    <3> HIDE DEF c, f
    <3> QED  BY <1>2, <3>1
  <2>3. a \in V /\ b \in V /\ a # b /\ e[k] \in Int
    BY <1>1
  <2> HIDE DEF c, a, b, e, C
  <2>4. SumFunctionOnSet(c, V) = c[a] + SumFunctionOnSet(c, V \ {a})
    BY <1>0, <2>2, <2>3, SumRemove
  <2>5. SumFunctionOnSet(c, V \ {a}) = c[b]
    <3> DEFINE D == V \ {a}
    <3>1. IsFiniteSet(D) /\ b \in D /\ c[b] \in Int /\ \A i \in D \ {b} : c[i] = 0
      BY <1>0, <2>2, <2>3, FS_Subset
    <3> HIDE DEF D
    <3>2. SumFunctionOnSet(c, D) = c[b]
      BY <3>1, SumSingle
    <3> QED  BY <3>2 DEF D
  <2>6. c[a] = 4 * e[k] /\ c[b] = 4 * e[k]
    BY <2>2, <2>3
  <2> QED  BY <2>1, <2>3, <2>4, <2>5, <2>6
<1>4. Energy(m, s) = m.offset + SumFunctionOnSet(L, V) + SumFunctionOnSet(Q, V) \div 2
  <2>1. Energy(m, s) = m.offset + SumFunction(L) + SumFunction(Q) \div 2
    BY DEF Energy
  <2>2. DOMAIN L = V /\ DOMAIN Q = V
    OBVIOUS
  <2> HIDE DEF L, Q, V
  <2> QED  BY <2>1, <2>2, SumWhole
<1>5. SumFunctionOnSet(L, V) = 0
  <2>1. \A i \in V : L[i] = 0
    BY <1>0
  <2> HIDE DEF L
  <2> QED  BY <1>0, <2>1, SumZero
<1>6. \A i \in V : \A k \in K : f[i][k] \in Int
  BY <1>2
<1> HIDE DEF L, Q, f, e, x, S
<1>7. SumFunctionOnSet(Q, V) = SumFunctionOnSet(R, V)
  <2> HIDE DEF R
  <2> QED  BY <1>0, <1>2, SumEqual
<1>8. SumFunctionOnSet(R, V) = SumFunctionOnSet(C, K)
  BY <1>0, <1>6, SumSwap
<1>9. SumFunctionOnSet(C, K) = 8 * SumFunctionOnSet(e, K)
  <2>1. 8 \in Int /\ \A k \in K : e[k] \in Int /\ C[k] = 8 * e[k]
    BY <1>1, <1>3
  <2> HIDE DEF C
  <2> QED  BY <1>0, <2>1, SumScaled
<1>10. SumFunctionOnSet(w, S) = SumFunctionOnSet(x, K)
  <2>1. S \subseteq K /\ \A k \in K : w[k] \in Int
    BY <1>1 DEF S, Parted
  <2>2. SumFunctionOnSet(w, S) = SumFunctionOnSet(Within(w, K, S), K)
    BY <1>0, <2>1, SumWithin
  <2> QED  BY <2>2 DEF x
<1>11. SumFunctionOnSet(w, K) \in Int /\ SumFunctionOnSet(x, K) \in Int
  BY <1>0, <1>1, SumType
<1>12. SumFunctionOnSet(e, K) = SumFunctionOnSet(w, K) - 2 * SumFunctionOnSet(x, K)
  <2> DEFINE a == 1
             b == -2
  <2>1. IsMix(e, a, w, b, x, K)
    <3>1. a \in Int /\ b \in Int
      OBVIOUS
    <3>2. \A k \in K : w[k] \in Int /\ x[k] \in Int /\ e[k] = a * w[k] + b * x[k]
      BY <1>1
    <3> HIDE DEF a, b
    <3> QED  BY <1>0, <3>1, <3>2 DEF IsMix
  <2> HIDE DEF a, b
  <2>2. SumFunctionOnSet(e, K) = a * SumFunctionOnSet(w, K) + b * SumFunctionOnSet(x, K)
    BY <2>1, SumMix
  <2>3. a = 1 /\ b = -2
    BY DEF a, b
  <2> QED  BY <1>11, <2>2, <2>3
<1>13. Energy(m, s) = 4 * (SumFunctionOnSet(w, K) - 2 * SumFunctionOnSet(w, S))
  <2> DEFINE h == 4 * (SumFunctionOnSet(w, K) - 2 * SumFunctionOnSet(x, K))
             q == SumFunctionOnSet(Q, V)
  <2>1. h \in Int /\ q = 2 * h
    <3>1. q = 8 * SumFunctionOnSet(e, K)
      BY <1>7, <1>8, <1>9
    <3> HIDE DEF q
    <3> QED  BY <1>11, <1>12, <3>1
  <2> HIDE DEF h
  <2>2. (2 * h) \div 2 = h
    BY <2>1, WholeQuarters
  <2>3. Energy(m, s) = h
    BY <1>0, <1>4, <1>5, <2>1, <2>2
  <2> QED  BY <1>10, <2>3 DEF h
<1> QED  BY <1>13 DEF S

=============================================================================
