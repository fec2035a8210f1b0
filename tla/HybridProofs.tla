---------------------------- MODULE HybridProofs ----------------------------
(***************************************************************************)
(* Proofs about the hybrid loop, for grids, fleets and menus of any size:  *)
(* what it reports is true, only agents can be in each other's way, the    *)
(* best plan is kept, and every round but the first is paid for with a new *)
(* path.                                                                   *)
(***************************************************************************)
EXTENDS StaticStream, BqmTheorems, SequenceTheorems

(* What every path of a menu is: it goes from start to goal over free cells  *)
(* by moves, ends when it first reaches the goal, and is not too long.       *)
IsWalk(p, start, goal, k) ==
    /\ p \in [1 .. k + 1 -> Free] /\ p[1] = start
    /\ \A j \in 1 .. k : p[j] # goal /\ p[j + 1] \in MovesFrom(p[j])

IsWholePath(p, start, goal) ==
    \E k \in 0 .. Horizon : IsWalk(p, start, goal, k) /\ p[k + 1] = goal

-----------------------------------------------------------------------------
(* Small sets.                                                              *)
LEMMA MinOfTwo ==
    ASSUME NEW a \in Int, NEW b \in Int
    PROVE  Min({a, b}) = IF a <= b THEN a ELSE b
<1> DEFINE D == {a, b}
<1>1. IsFiniteSet(D)
  <2>1. IsFiniteSet({a} \cup {b})
    BY FS_Singleton, FS_AddElement
  <2>2. {a} \cup {b} = D
    OBVIOUS
  <2> QED  BY <2>1, <2>2
<1>2. D \subseteq Int /\ D # {}
  OBVIOUS
<1>3. Min(D) \in D /\ \A x \in D : Min(D) <= x
  <2> HIDE DEF D
  <2> QED  BY <1>1, <1>2, SmallestExists
<1> QED  BY <1>3

LEMMA CellsAreFinite ==
    /\ IsFiniteSet(Cells) /\ IsFiniteSet(Free) /\ Free \subseteq Cells
    /\ \A c \in Cells : c[1] \in Int /\ c[2] \in Int
    /\ Horizon \in Nat
<1>1. Width \in Nat \ {0} /\ Height \in Nat \ {0}
  BY GridAssumption
<1>2. IsFiniteSet(0 .. Width - 1) /\ IsFiniteSet(0 .. Height - 1)
  BY <1>1, FS_Interval
<1>3. IsFiniteSet(Cells)
  <2> DEFINE A == 0 .. Width - 1
             B == 0 .. Height - 1
  <2>1. IsFiniteSet(A) /\ IsFiniteSet(B)
    BY <1>2
  <2> HIDE DEF A, B
  <2>2. IsFiniteSet(A \X B)
    BY <2>1, FS_Product
  <2> QED  BY <2>2 DEF A, B, Cells
<1>4. Free \subseteq Cells
  BY DEF Free
<1>5. IsFiniteSet(Free)
  BY <1>3, <1>4, FS_Subset
<1>6. \A c \in Cells : c[1] \in Int /\ c[2] \in Int
  BY DEF Cells
<1> QED  BY <1>1, <1>3, <1>4, <1>5, <1>6 DEF Horizon

(* There are finitely many functions from 1 .. n to a finite set.           *)
LEMMA WordsAreFinite ==
    ASSUME NEW S, IsFiniteSet(S)
    PROVE  \A n \in Nat : IsFiniteSet([1 .. n -> S])
<1> DEFINE T == {n \in Nat : IsFiniteSet([1 .. n -> S])}
<1>1. 0 \in T
  <2> DEFINE e == [i \in 1 .. 0 |-> 0]
  <2>1. [1 .. 0 -> S] = {e}
    <3>1. 1 .. 0 = {}
      OBVIOUS
    <3>2. e \in [1 .. 0 -> S]
      BY <3>1
    <3>3. ASSUME NEW g \in [1 .. 0 -> S] PROVE g = e
      BY <3>1
    <3> QED  BY <3>2, <3>3
  <2> HIDE DEF e
  <2>2. IsFiniteSet({e})
    BY FS_Singleton
  <2> QED  BY <2>1, <2>2
<1>2. ASSUME NEW n \in Nat, n \in T PROVE n + 1 \in T
  <2> DEFINE A == [1 .. n -> S]
             B == [1 .. n + 1 -> S]
             f == [x \in A \X S |-> [i \in 1 .. n + 1 |-> IF i <= n THEN x[1][i] ELSE x[2]]]
  <2>1. ASSUME NEW x \in A \X S PROVE f[x] \in B
    OBVIOUS
  <2>2. ASSUME NEW y \in B PROVE \E x \in A \X S : f[x] = y
    <3> DEFINE u == [i \in 1 .. n |-> y[i]]
               x == <<u, y[n + 1]>>
    <3>1. u \in A /\ y[n + 1] \in S
      OBVIOUS
    <3>2. x \in A \X S
      BY <3>1
    <3>3. f[x] = [i \in 1 .. n + 1 |-> IF i <= n THEN u[i] ELSE y[n + 1]]
      <4>1. x[1] = u /\ x[2] = y[n + 1]
        OBVIOUS
      <4> HIDE DEF x, u
      <4> QED  BY <3>2, <4>1
    <3>4. [i \in 1 .. n + 1 |-> IF i <= n THEN u[i] ELSE y[n + 1]] = y
      OBVIOUS
    <3> QED  BY <3>2, <3>3, <3>4
  <2>3. DOMAIN f = A \X S
    OBVIOUS
  <2>4. IsFiniteSet(A)
    BY <1>2
  <2> HIDE DEF A, B
  <2>5. f \in [A \X S -> B]
    BY <2>1
  <2> HIDE DEF f
  <2>6. f \in Surjection(A \X S, B)
    BY <2>2, <2>5 DEF Surjection
  <2>7. IsFiniteSet(A \X S)
    BY <2>4, FS_Product
  <2>8. IsFiniteSet(B)
    BY <2>6, <2>7, FS_Surjection
  <2> QED  BY <2>8 DEF B
<1>3. Nat \subseteq T
  <2> HIDE DEF T
  <2> QED  BY <1>1, <1>2, NaturalInduction
<1> QED  BY <1>3

-----------------------------------------------------------------------------
(* The search: what a recursive table of walks holds.                       *)
Further(S, goal, room, k) ==
    UNION {{Append(p, c) : c \in MovesFrom(p[k]) \cap room[k]} : p \in {q \in S : q[k] # goal}}

IsTable(g, start, goal, room, D) ==
    g = [k \in D |-> IF k = 0 THEN {<<start>>} ELSE Further(g[k - 1], goal, room, k)]

Table(start, goal, room) == CHOOSE g : IsTable(g, start, goal, room, DOMAIN room)

LEMMA WalksUnfold ==
    ASSUME NEW start, NEW goal, NEW room
    PROVE  Walks(start, goal, room) = UNION {Table(start, goal, room)[k] : k \in DOMAIN room}
BY DEF Walks, Table, IsTable, Further

LEMMA TableExists ==
    ASSUME NEW start, NEW goal, NEW room, NEW h \in Nat, DOMAIN room = 0 .. h
    PROVE  IsTable(Table(start, goal, room), start, goal, room, 0 .. h)
<1> DEFINE T == {n \in Nat : \E g : IsTable(g, start, goal, room, 0 .. n)}
<1>1. 0 \in T
  <2> DEFINE g == [k \in 0 .. 0 |-> {<<start>>}]
  <2>1. IsTable(g, start, goal, room, 0 .. 0)
    BY DEF IsTable
  <2> QED  BY <2>1
<1>2. ASSUME NEW n \in Nat, n \in T PROVE n + 1 \in T
  <2>1. PICK g : IsTable(g, start, goal, room, 0 .. n)
    BY <1>2
  <2> DEFINE f == [k \in 0 .. n + 1 |-> IF k <= n THEN g[k] ELSE Further(g[n], goal, room, n + 1)]
  <2>2. ASSUME NEW k \in 0 .. n + 1
        PROVE  f[k] = IF k = 0 THEN {<<start>>} ELSE Further(f[k - 1], goal, room, k)
    <3>1. CASE k <= n
      <4>1. k \in 0 .. n /\ (k # 0 => k - 1 \in 0 .. n /\ f[k - 1] = g[k - 1]) /\ f[k] = g[k]
        BY <3>1
      <4>2. g[k] = IF k = 0 THEN {<<start>>} ELSE Further(g[k - 1], goal, room, k)
        BY <2>1, <4>1 DEF IsTable
      <4> QED  BY <4>1, <4>2
    <3>2. CASE k = n + 1
      BY <3>2
    <3> QED  BY <3>1, <3>2
  <2>3. IsTable(f, start, goal, room, 0 .. n + 1)
    <3>1. f = [k \in 0 .. n + 1 |-> IF k = 0 THEN {<<start>>} ELSE Further(f[k - 1], goal, room, k)]
      BY <2>2
    <3> HIDE DEF f
    <3> QED  BY <3>1 DEF IsTable
  <2> QED  BY <2>3
<1>3. Nat \subseteq T
  <2> HIDE DEF T
  <2> QED  BY <1>1, <1>2, NaturalInduction
<1>4. \E g : IsTable(g, start, goal, room, 0 .. h)
  BY <1>3
<1> QED  BY <1>4 DEF Table

LEMMA WalksAreWalks ==
    ASSUME NEW start \in Free, NEW goal, NEW room, NEW h \in Nat, DOMAIN room = 0 .. h,
           NEW p \in Walks(start, goal, room)
    PROVE  \E k \in 0 .. h : IsWalk(p, start, goal, k)
<1> DEFINE g == Table(start, goal, room)
           T == {n \in Nat : n <= h => \A q \in g[n] : IsWalk(q, start, goal, n)}
<1>1. \A k \in 0 .. h : g[k] = IF k = 0 THEN {<<start>>} ELSE Further(g[k - 1], goal, room, k)
  <2>1. IsTable(g, start, goal, room, 0 .. h)
    BY TableExists
  <2> HIDE DEF g
  <2> QED  BY <2>1 DEF IsTable
<1> HIDE DEF g
<1>2. 0 \in T
  <2>1. g[0] = {<<start>>}
    BY <1>1
  <2>2. IsWalk(<<start>>, start, goal, 0)
    BY DEF IsWalk
  <2> QED  BY <2>1, <2>2
<1>3. ASSUME NEW n \in Nat, n \in T PROVE n + 1 \in T
  <2> SUFFICES ASSUME n + 1 <= h, NEW q \in g[n + 1] PROVE IsWalk(q, start, goal, n + 1)
    OBVIOUS
  <2>1. g[n + 1] = Further(g[n], goal, room, n + 1)
    BY <1>1
  <2>2. PICK r \in g[n], c \in Free :
           c \in MovesFrom(r[n + 1]) /\ r[n + 1] # goal /\ q = Append(r, c)
    BY <2>1 DEF Further, MovesFrom
  <2>3. IsWalk(r, start, goal, n)
    BY <1>3
  <2>4. r \in [1 .. n + 1 -> Free] /\ c \in Free
    BY <2>2, <2>3 DEF IsWalk, MovesFrom
  <2>5. /\ q \in [1 .. n + 2 -> Free] /\ q[n + 2] = c
        /\ \A j \in 1 .. n + 1 : q[j] = r[j]
    <3>1. r \in Seq(Free) /\ Len(r) = n + 1
      BY <2>4
    <3>2. /\ q \in Seq(Free) /\ Len(q) = n + 2 /\ q[n + 2] = c
          /\ \A j \in 1 .. n + 1 : q[j] = r[j]
      BY <2>2, <2>4, <3>1, AppendProperties
    <3> QED  BY <3>2
  <2>6. \A j \in 1 .. n + 1 : q[j] # goal /\ q[j + 1] \in MovesFrom(q[j])
    <3> TAKE j \in 1 .. n + 1
    <3>1. CASE j = n + 1
      BY <2>2, <2>5, <3>1
    <3>2. CASE j \in 1 .. n
      BY <2>3, <2>5, <3>2 DEF IsWalk
    <3> QED  BY <3>1, <3>2
  <2> QED  BY <2>3, <2>5, <2>6 DEF IsWalk
<1>4. Nat \subseteq T
  <2> HIDE DEF T
  <2> QED  BY <1>2, <1>3, NaturalInduction
<1>5. PICK k \in 0 .. h : p \in g[k]
  BY WalksUnfold DEF g
<1> QED  BY <1>4, <1>5

LEMMA TimetableSize ==
    ASSUME NEW start, NEW goal, NEW occ, NEW room \in Timetables(start, goal, occ)
    PROVE  \E h \in 0 .. Horizon : DOMAIN room = 0 .. h
<1> DEFINE times == Arrivals(start, goal, occ)
           h == Min({Horizon, Min(times) + Detour})
<1>1. times # {} /\ room = Reaching(goal, occ, h)
  BY DEF Timetables
<1>2. times \subseteq 0 .. Horizon /\ Horizon \in Nat /\ Detour \in Nat
  BY CellsAreFinite, DetourAssumption DEF Arrivals
<1>3. DOMAIN room = 0 .. h
  <2> HIDE DEF h
  <2> QED  BY <1>1 DEF Reaching
<1>4. Min(times) \in 0 .. Horizon
  <2> HIDE DEF times
  <2>1. IsFiniteSet(0 .. Horizon) /\ times \subseteq Int
    BY <1>2, FS_Interval
  <2>2. IsFiniteSet(times)
    BY <1>2, <2>1, FS_Subset
  <2>3. Min(times) \in times
    BY <1>1, <2>1, <2>2, SmallestExists
  <2> QED  BY <1>2, <2>3
<1>5. h \in 0 .. Horizon
  <2> DEFINE m == Min(times) + Detour
  <2>1. m \in Nat
    BY <1>2, <1>4
  <2> HIDE DEF m
  <2>2. Min({Horizon, m}) = IF Horizon <= m THEN Horizon ELSE m
    BY <1>2, <2>1, MinOfTwo
  <2> QED  BY <1>2, <2>1, <2>2 DEF m
<1> QED  BY <1>3, <1>5

-----------------------------------------------------------------------------
(* The menus.                                                               *)
Whole(a) == {p \in UNION {[1 .. k + 1 -> Free] : k \in 0 .. Horizon} :
                IsWholePath(p, task.start[a], task.goal[a])}

LEMMA TaskType ==
    ASSUME task \in Instances, NEW a \in Agents
    PROVE  task.start[a] \in Free /\ task.goal[a] \in Free
BY HybridAssumption

LEMMA PathsAreWhole ==
    ASSUME task \in Instances, NEW a \in Agents
    PROVE  Paths(a) \subseteq Whole(a) /\ IsFiniteSet(Paths(a))
<1> DEFINE start == task.start[a]
           goal == task.goal[a]
<1>1. start \in Free /\ goal \in Free
  BY TaskType
<1>2. Paths(a) = WholePaths(start, goal, <<>>)
  BY DEF Paths, PathsOf
<1> HIDE DEF start, goal
<1>3. ASSUME NEW p \in Paths(a) PROVE p \in Whole(a)
  <2>1. PICK room \in Timetables(start, goal, <<>>) : p \in Walks(start, goal, room) /\ p[Len(p)] = goal
    BY <1>2 DEF WholePaths
  <2>2. PICK h \in 0 .. Horizon : DOMAIN room = 0 .. h
    BY TimetableSize
  <2>3. h \in Nat /\ Horizon \in Nat
    BY CellsAreFinite
  <2>4. PICK k \in 0 .. h : IsWalk(p, start, goal, k)
    BY <1>1, <2>1, <2>2, <2>3, WalksAreWalks
  <2>5. k \in 0 .. Horizon /\ p \in [1 .. k + 1 -> Free]
    BY <2>2, <2>3, <2>4 DEF IsWalk
  <2>6. Len(p) = k + 1
    BY <2>3, <2>5
  <2>7. IsWholePath(p, start, goal)
    BY <2>1, <2>4, <2>5, <2>6 DEF IsWholePath
  <2> QED  BY <2>5, <2>7 DEF Whole, start, goal
<1>4. IsFiniteSet(UNION {[1 .. k + 1 -> Free] : k \in 0 .. Horizon})
  <2> DEFINE S == {[1 .. k + 1 -> Free] : k \in 0 .. Horizon}
             f == [k \in 0 .. Horizon |-> [1 .. k + 1 -> Free]]
             D == 0 .. Horizon
  <2>1. IsFiniteSet(D)
    BY CellsAreFinite, FS_Interval
  <2>2. f \in Surjection(D, S)
    BY DEF Surjection
  <2>3. \A T \in S : IsFiniteSet(T)
    <3> SUFFICES ASSUME NEW k \in 0 .. Horizon PROVE IsFiniteSet([1 .. k + 1 -> Free])
      OBVIOUS
    <3>1. k + 1 \in Nat
      BY CellsAreFinite
    <3> QED  BY <3>1, CellsAreFinite, WordsAreFinite
  <2> HIDE DEF f, S, D
  <2>4. IsFiniteSet(S)
    BY <2>1, <2>2, FS_Surjection
  <2>5. IsFiniteSet(UNION S)
    BY <2>3, <2>4, FS_UNION
  <2> QED  BY <2>5 DEF S
<1>5. Paths(a) \subseteq Whole(a)
  BY <1>3
<1>6. IsFiniteSet(Whole(a))
  <2> DEFINE U == UNION {[1 .. k + 1 -> Free] : k \in 0 .. Horizon}
  <2>1. Whole(a) \subseteq U
    BY DEF Whole
  <2> HIDE DEF U
  <2> QED  BY <1>4, <2>1, FS_Subset DEF U
<1> QED  BY <1>5, <1>6, FS_Subset

LEMMA WholeType ==
    ASSUME NEW a \in Agents, NEW p \in Whole(a)
    PROVE  /\ Len(p) \in 1 .. Horizon + 1 /\ p \in [1 .. Len(p) -> Free]
           /\ p[1] = task.start[a] /\ p[Len(p)] = task.goal[a]
           /\ \A j \in 1 .. Len(p) - 1 : p[j] # task.goal[a] /\ p[j + 1] \in MovesFrom(p[j])
<1>1. PICK k \in 0 .. Horizon : IsWalk(p, task.start[a], task.goal[a], k) /\ p[k + 1] = task.goal[a]
  BY DEF Whole, IsWholePath
<1>2. Horizon \in Nat
  BY CellsAreFinite
<1>3. p \in [1 .. k + 1 -> Free]
  BY <1>1 DEF IsWalk
<1>4. Len(p) = k + 1
  BY <1>2, <1>3
<1> QED  BY <1>1, <1>2, <1>3, <1>4 DEF IsWalk

-----------------------------------------------------------------------------
(* The plans.                                                               *)
Chosen == {f \in [Agents -> UNION {Paths(a) : a \in Agents}] : \A a \in Agents : f[a] \in Paths(a)}

LEMMA MakespanBounds ==
    ASSUME NEW paths, \A a \in Agents : Len(paths[a]) \in Nat \ {0}
    PROVE  /\ \A a \in Agents : Len(paths[a]) - 1 <= Makespan(paths)
           /\ Makespan(paths) \in Nat
           /\ Makespan(paths) # 0 => \E a \in Agents : Makespan(paths) = Len(paths[a]) - 1
<1> DEFINE S == {Len(paths[a]) - 1 : a \in Agents}
           D == {0} \cup S
           f == [a \in Agents |-> Len(paths[a]) - 1]
<1>1. IsFiniteSet(S)
  <2>1. f \in Surjection(Agents, S)
    BY DEF Surjection
  <2> HIDE DEF f, S
  <2> QED  BY <2>1, AgentsAssumption, FS_Surjection
<1>2. IsFiniteSet(D)
  <2> HIDE DEF S
  <2>1. IsFiniteSet(S \cup {0}) /\ S \cup {0} = D
    BY <1>1, FS_AddElement
  <2> QED  BY <2>1
<1>3. D \subseteq Nat /\ D # {} /\ \A a \in Agents : Len(paths[a]) - 1 \in D
  OBVIOUS
<1>4. Max(D) \in D /\ \A x \in D : x <= Max(D)
  <2> HIDE DEF D
  <2>1. D \subseteq Int
    BY <1>3
  <2> QED  BY <1>2, <1>3, <2>1, LargestExists
<1>5. Makespan(paths) = Max(D)
  BY DEF Makespan
<1>6. Max(D) # 0 => \E a \in Agents : Max(D) = Len(paths[a]) - 1
  BY <1>4
<1> HIDE DEF D
<1> QED  BY <1>3, <1>4, <1>5, <1>6

(* A plan lets every agent walk its path and then stay; all paths are as    *)
(* long as the longest.                                                     *)
IsPlan(plan, n) ==
    /\ n \in 0 .. Horizon /\ DOMAIN plan = Agents
    /\ \A a \in Agents :
         /\ plan[a] \in [1 .. n + 1 -> Free] /\ Len(plan[a]) = n + 1
         /\ plan[a][1] = task.start[a] /\ plan[a][n + 1] = task.goal[a]
         /\ \A t \in 1 .. n : plan[a][t + 1] = plan[a][t] \/ plan[a][t + 1] \in MovesFrom(plan[a][t])

LEMMA PlanIsPlan ==
    ASSUME task \in Instances, NEW f \in Chosen
    PROVE  /\ IsPlan(BuildPlan(f), Makespan(f))
           /\ \A a \in Agents : \A t \in 1 .. Makespan(f) + 1 :
                 BuildPlan(f)[a][t] = IF t <= Len(f[a]) THEN f[a][t] ELSE task.goal[a]
           /\ \A a \in Agents : Len(f[a]) <= Makespan(f) + 1
<1> DEFINE n == Makespan(f)
           plan == BuildPlan(f)
<1>1. \A a \in Agents : f[a] \in Whole(a)
  BY PathsAreWhole DEF Chosen
<1>2. \A a \in Agents : Len(f[a]) \in 1 .. Horizon + 1
  BY <1>1, WholeType
<1>3. Horizon \in Nat
  BY CellsAreFinite
<1>4. n \in 0 .. Horizon /\ \A a \in Agents : Len(f[a]) - 1 <= n
  <2>1. /\ \A a \in Agents : Len(f[a]) - 1 <= n
        /\ n \in Nat /\ (n # 0 => \E a \in Agents : n = Len(f[a]) - 1)
    BY <1>2, MakespanBounds
  <2> HIDE DEF n
  <2> QED  BY <1>2, <1>3, <2>1
<1>5. DOMAIN plan = Agents /\ \A a \in Agents : plan[a] = [t \in 1 .. n + 1 |-> PathAt(f[a], t - 1)]
  BY DEF BuildPlan, PadTo
<1> HIDE DEF n, plan
<1>6. ASSUME NEW a \in Agents
      PROVE  /\ plan[a] \in [1 .. n + 1 -> Free] /\ Len(plan[a]) = n + 1
             /\ \A t \in 1 .. n + 1 : plan[a][t] = IF t <= Len(f[a]) THEN f[a][t] ELSE task.goal[a]
             /\ plan[a][1] = task.start[a] /\ plan[a][n + 1] = task.goal[a]
             /\ \A t \in 1 .. n : plan[a][t + 1] = plan[a][t] \/ plan[a][t + 1] \in MovesFrom(plan[a][t])
             /\ Len(f[a]) <= n + 1
  <2> DEFINE p == f[a]
             m == Len(f[a])
             goal == task.goal[a]
  <2>1. /\ m \in 1 .. n + 1 /\ n \in Nat /\ p \in [1 .. m -> Free] /\ p[1] = task.start[a]
        /\ p[m] = goal /\ \A j \in 1 .. m - 1 : p[j + 1] \in MovesFrom(p[j])
    <3>1. n \in Nat /\ m \in Int /\ m - 1 <= n
      BY <1>2, <1>3, <1>4
    <3>2. m \in 1 .. n + 1
      <4>1. m \in 1 .. Horizon + 1
        BY <1>2
      <4> HIDE DEF m
      <4> QED  BY <1>3, <3>1, <4>1
    <3>3. p \in Whole(a)
      BY <1>1
    <3> HIDE DEF p
    <3>4. /\ p \in [1 .. Len(p) -> Free] /\ p[1] = task.start[a] /\ p[Len(p)] = task.goal[a]
          /\ \A j \in 1 .. Len(p) - 1 : p[j + 1] \in MovesFrom(p[j])
      BY <3>3, WholeType
    <3>5. m = Len(p)
      BY DEF p
    <3> HIDE DEF m
    <3> QED  BY <3>1, <3>2, <3>4, <3>5
  <2>2. \A t \in 1 .. n + 1 : plan[a][t] = IF t <= m THEN p[t] ELSE goal
    <3> TAKE t \in 1 .. n + 1
    <3>1. plan[a][t] = PathAt(p, t - 1)
      BY <1>5
    <3>2. PathAt(p, t - 1) = IF t - 1 < m THEN p[(t - 1) + 1] ELSE p[m]
      BY DEF PathAt
    <3>3. (t - 1 < m <=> t <= m) /\ (t - 1) + 1 = t
      BY <2>1
    <3> HIDE DEF p, m, goal
    <3> QED  BY <2>1, <3>1, <3>2, <3>3
  <2> HIDE DEF p, m, goal
  <2>3. DOMAIN plan[a] = 1 .. n + 1
    BY <1>5
  <2>4. \A t \in 1 .. n + 1 : plan[a][t] \in Free
    BY <2>1, <2>2
  <2>5. plan[a] \in [1 .. n + 1 -> Free]
    BY <1>5, <2>3, <2>4
  <2>6. Len(plan[a]) = n + 1
    BY <2>1, <2>5
  <2>7. plan[a][1] = task.start[a] /\ plan[a][n + 1] = goal
    BY <2>1, <2>2
  <2>8. \A t \in 1 .. n : plan[a][t + 1] = plan[a][t] \/ plan[a][t + 1] \in MovesFrom(plan[a][t])
    <3> TAKE t \in 1 .. n
    <3>1. /\ plan[a][t] = IF t <= m THEN p[t] ELSE goal
          /\ plan[a][t + 1] = IF t + 1 <= m THEN p[t + 1] ELSE goal
      BY <2>1, <2>2
    <3> QED  BY <2>1, <3>1
  <2> QED  BY <2>1, <2>2, <2>5, <2>6, <2>7, <2>8 DEF m, p, goal
<1> QED  BY <1>4, <1>5, <1>6 DEF IsPlan, n, plan

LEMMA PlanMakespan ==
    ASSUME NEW plan, NEW n, IsPlan(plan, n)
    PROVE  Makespan(plan) = n /\ n \in Nat
<1>1. n \in Nat /\ \A a \in Agents : Len(plan[a]) = n + 1
  BY CellsAreFinite DEF IsPlan
<1>2. \A a \in Agents : Len(plan[a]) \in Nat \ {0}
  BY <1>1
<1>3. /\ \A a \in Agents : Len(plan[a]) - 1 <= Makespan(plan)
      /\ Makespan(plan) \in Nat
      /\ Makespan(plan) # 0 => \E a \in Agents : Makespan(plan) = Len(plan[a]) - 1
  BY <1>2, MakespanBounds
<1> QED  BY <1>1, <1>3, AgentsAssumption

-----------------------------------------------------------------------------
(* The verifier, on such plans: agents may collide, nothing else is wrong.  *)
LEMMA OnlyCollisions ==
    ASSUME NEW plan, NEW n, IsPlan(plan, n), NEW v \in Verify(task.start, task.goal, plan)
    PROVE  v \in Conceivable /\ v[1] \in {"vertex", "swap"}
<1>1. Makespan(plan) = n /\ n \in Nat
  BY PlanMakespan
<1>2. ASSUME NEW a \in Agents, NEW t \in 0 .. n
      PROVE  PathAt(plan[a], t) = plan[a][t + 1] /\ plan[a][t + 1] \in Free
  BY <1>1, <1>2 DEF IsPlan, PathAt
<1>3. ASSUME NEW a \in Agents
      PROVE  ~(PathAt(plan[a], 0) # task.start[a] \/ plan[a][Len(plan[a])] # task.goal[a])
  <2>1. PathAt(plan[a], 0) = plan[a][1]
    BY <1>1, <1>2
  <2> QED  BY <2>1 DEF IsPlan
<1>4. ASSUME NEW a \in Agents, NEW t \in 0 .. n
      PROVE  ~(\/ PathAt(plan[a], t) \notin Free
               \/ t > 0 /\ Manhattan(PathAt(plan[a], t - 1), PathAt(plan[a], t)) > 1)
  <2>1. CASE t = 0
    BY <1>2, <2>1
  <2>2. CASE t > 0
    <3> DEFINE c == plan[a][t]
               d == plan[a][t + 1]
    <3>1. t - 1 \in 0 .. n /\ (t - 1) + 1 = t /\ t \in 1 .. n
      BY <1>1, <2>2
    <3>2. PathAt(plan[a], t - 1) = c /\ PathAt(plan[a], t) = d /\ c \in Free /\ d \in Free
      <4>1. PathAt(plan[a], t - 1) = plan[a][(t - 1) + 1] /\ plan[a][(t - 1) + 1] \in Free
        BY <1>2, <3>1
      <4> QED  BY <1>2, <3>1, <4>1
    <3>3. d = c \/ d \in MovesFrom(c)
      BY <3>1 DEF IsPlan
    <3>4. Manhattan(c, d) <= 1
      <4>1. c[1] \in Int /\ c[2] \in Int
        BY <3>2, CellsAreFinite
      <4> HIDE DEF c, d
      <4>2. Manhattan(c, c) = 0
        BY <4>1 DEF Manhattan, Distance
      <4> QED  BY <3>3, <4>2 DEF MovesFrom
    <3>5. Manhattan(c, d) \in Int
      <4>1. c[1] \in Int /\ c[2] \in Int /\ d[1] \in Int /\ d[2] \in Int
        BY <3>2, CellsAreFinite
      <4> HIDE DEF c, d
      <4> QED  BY <4>1 DEF Manhattan, Distance
    <3> HIDE DEF c, d
    <3> QED  BY <3>2, <3>4, <3>5
  <2> QED  BY <1>1, <2>1, <2>2
<1>5. \/ v \in {<<"vertex", u[1], u[2], u[3]>> : u \in Agents \X Agents \X (0 .. n)}
      \/ v \in {<<"swap", u[1], u[2], u[3]>> : u \in Agents \X Agents \X (1 .. n)}
  <2>1. \A u \in Agents \X (0 .. n) :
           ~(\/ PathAt(plan[u[1]], u[2]) \notin Free
             \/ u[2] > 0 /\ Manhattan(PathAt(plan[u[1]], u[2] - 1), PathAt(plan[u[1]], u[2])) > 1)
    <3> TAKE u \in Agents \X (0 .. n)
    <3>1. u[1] \in Agents /\ u[2] \in 0 .. n
      OBVIOUS
    <3> QED  BY <1>4, <3>1
  <2>2. {b \in Agents : PathAt(plan[b], 0) # task.start[b] \/ plan[b][Len(plan[b])] # task.goal[b]} = {}
    BY <1>3
  <2>3. {w \in Agents \X (0 .. n) :
           /\ w[2] < Len(plan[w[1]])
           /\ \/ PathAt(plan[w[1]], w[2]) \notin Free
              \/ /\ w[2] > 0
                 /\ Manhattan(PathAt(plan[w[1]], w[2] - 1), PathAt(plan[w[1]], w[2])) > 1} = {}
    BY <2>1
  <2> QED  BY <1>1, <2>2, <2>3 DEF Verify
<1>6. n <= Horizon /\ Horizon \in Nat
  BY CellsAreFinite DEF IsPlan
<1> QED  BY <1>1, <1>5, <1>6 DEF Conceivable

-----------------------------------------------------------------------------
(* How many violations there can be.                                        *)
LEMMA ConceivableIsFinite ==
    ASSUME NEW S, S \subseteq Conceivable
    PROVE  IsFiniteSet(S) /\ Cardinality(S) \in Nat /\ Cardinality(S) < SizeMax
<1> DEFINE K == {"endpoint", "move", "vertex", "swap"}
           U == K \X Agents
           V == Agents \X (0 .. Horizon)
           D == U \X V
           f == [x \in D |-> <<x[1][1], x[1][2], x[2][1], x[2][2]>>]
<1>1. IsFiniteSet(K)
  <2>1. IsFiniteSet({} \cup {"endpoint"} \cup {"move"} \cup {"vertex"} \cup {"swap"})
    BY FS_EmptySet, FS_AddElement
  <2>2. {} \cup {"endpoint"} \cup {"move"} \cup {"vertex"} \cup {"swap"} = K
    OBVIOUS
  <2> QED  BY <2>1, <2>2
<1>2. IsFiniteSet(U)
  <2> HIDE DEF K
  <2> QED  BY <1>1, AgentsAssumption, FS_Product
<1>3. IsFiniteSet(V)
  <2> DEFINE H == 0 .. Horizon
  <2>1. IsFiniteSet(H)
    BY CellsAreFinite, FS_Interval
  <2> HIDE DEF H
  <2>2. IsFiniteSet(Agents \X H)
    BY <2>1, AgentsAssumption, FS_Product
  <2> QED  BY <2>2 DEF H
<1>4. IsFiniteSet(D)
  <2> HIDE DEF U, V
  <2> QED  BY <1>2, <1>3, FS_Product
<1>5. ASSUME NEW x \in D PROVE f[x] \in Conceivable
  BY <1>5 DEF Conceivable
<1>6. ASSUME NEW y \in Conceivable PROVE \E x \in D : f[x] = y
  <2> DEFINE x == <<<<y[1], y[2]>>, <<y[3], y[4]>>>>
  <2>1. /\ y[1] \in K /\ y[2] \in Agents /\ y[3] \in Agents /\ y[4] \in 0 .. Horizon
        /\ y = <<y[1], y[2], y[3], y[4]>>
    BY DEF Conceivable
  <2>2. x \in D
    BY <2>1
  <2>3. f[x] = <<y[1], y[2], y[3], y[4]>>
    BY <2>2
  <2> QED  BY <2>1, <2>2, <2>3
<1>7. IsFiniteSet(Conceivable)
  <2>1. DOMAIN f = D
    OBVIOUS
  <2> HIDE DEF D
  <2>2. f \in [D -> Conceivable]
    BY <1>5
  <2> HIDE DEF f
  <2>3. f \in Surjection(D, Conceivable)
    BY <1>6, <2>2 DEF Surjection
  <2> QED  BY <1>4, <2>3, FS_Surjection
<1>8. /\ IsFiniteSet(S) /\ Cardinality(S) <= Cardinality(Conceivable)
      /\ Cardinality(S) \in Nat /\ Cardinality(Conceivable) \in Nat
  BY <1>7, FS_Subset, FS_CardinalityType
<1> QED  BY <1>8, HybridAssumption

(* A round's plan and what the verifier says about it.                      *)
LEMMA RoundPlan ==
    ASSUME task \in Instances, NEW f \in Chosen
    PROVE  LET plan == BuildPlan(f)
               violations == Verify(task.start, task.goal, plan)
           IN  /\ plan # <<>> /\ violations \subseteq Conceivable
               /\ \A v \in violations : v[1] \in {"vertex", "swap"}
               /\ Cardinality(violations) \in Nat /\ Cardinality(violations) < SizeMax
               /\ Cardinality(violations) = 0 <=> violations = {}
<1> DEFINE plan == BuildPlan(f)
           violations == Verify(task.start, task.goal, plan)
           n == Makespan(f)
<1>1. IsPlan(plan, n)
  BY PlanIsPlan
<1> HIDE DEF plan, n
<1>2. \A v \in violations : v \in Conceivable /\ v[1] \in {"vertex", "swap"}
  BY <1>1, OnlyCollisions
<1>3. plan # <<>>
  <2>1. DOMAIN plan = Agents
    BY <1>1 DEF IsPlan
  <2>2. DOMAIN <<>> = {}
    OBVIOUS
  <2> QED  BY <2>1, <2>2, AgentsAssumption
<1>4. IsFiniteSet(violations) /\ Cardinality(violations) \in Nat /\ Cardinality(violations) < SizeMax
  <2>1. violations \subseteq Conceivable
    BY <1>2
  <2> HIDE DEF violations
  <2> QED  BY <2>1, ConceivableIsFinite
<1>5. Cardinality(violations) = 0 <=> violations = {}
  <2> HIDE DEF violations
  <2> QED  BY <1>4, FS_EmptySet
<1> QED  BY <1>2, <1>3, <1>4, <1>5 DEF plan, violations

-----------------------------------------------------------------------------
(* The invariant.                                                           *)
AllPaths == UNION {Whole(a) : a \in Agents}

PoolInv ==
    /\ pools \in [Agents -> SUBSET AllPaths]
    /\ \A a \in Agents : pools[a] \subseteq Paths(a)
    /\ pc \in {"round", "grow"} => \A a \in Agents : pools[a] # {}

Plans == {BuildPlan(f) : f \in Chosen}

(* The plan kept, its violations and their number belong together.          *)
KeptInv ==
    /\ fewest \in Nat
    /\ DOMAIN result = {"success", "plan", "verification", "iterations", "infeasible"}
    /\ result.iterations \in Nat
    /\ pc = "generate" => result.iterations = 0
    /\ result.iterations = 0 => fewest = SizeMax /\ result.plan = <<>>
    /\ result.iterations > 0 =>
         /\ result.plan \in Plans
         /\ result.verification = Verify(task.start, task.goal, result.plan)
         /\ fewest = Cardinality(result.verification)
    /\ result.success => result.iterations > 0 /\ result.verification = {}
    /\ result.infeasible => MenuSize = 0 \/ \E a \in Agents : Paths(a) = {}

(* A round that ends with somebody to find candidates for has a collision.  *)
FoundInv ==
    pc = "grow" => found # {} /\ \E plan \in Plans : found = Verify(task.start, task.goal, plan)

HybridInv ==
    /\ pc \in {"generate", "round", "grow", "done"}
    /\ task \in Instances
    /\ PoolInv /\ KeptInv /\ FoundInv

LEMMA SameTask ==
    ASSUME task' = task
    PROVE  /\ AllPaths' = AllPaths /\ Plans' = Plans
           /\ \A a \in Agents : Paths(a)' = Paths(a)
<1>1. ASSUME NEW a \in Agents PROVE Whole(a)' = Whole(a) /\ Paths(a)' = Paths(a)
  BY DEF Whole, Paths
<1>2. AllPaths' = AllPaths
  BY <1>1 DEF AllPaths
<1>3. Chosen' = Chosen
  BY <1>1 DEF Chosen
<1>4. Plans' = Plans
  BY <1>3 DEF Plans
<1> QED  BY <1>1, <1>2, <1>4

(* A choice from the menus is one path per agent.                           *)
LEMMA ChosenFromMenus ==
    ASSUME HybridInv, NEW chosen \in Families(pools)
    PROVE  chosen \in Chosen
<1>1. chosen = [a \in Agents |-> chosen[a]] /\ \A a \in Agents : chosen[a] \in pools[a]
  BY DEF Families
<1>2. \A a \in Agents : chosen[a] \in Paths(a)
  BY <1>1 DEF HybridInv, PoolInv
<1>3. \A a \in Agents : chosen[a] \in UNION {Paths(b) : b \in Agents}
  BY <1>2
<1> QED  BY <1>1, <1>2, <1>3 DEF Chosen

LEMMA MenusOf ==
    ASSUME HybridInv, NEW choices, NEW f \in Families([a \in Agents |-> choices[a]]),
           \A a \in Agents : \A m \in choices[a] : m \subseteq Paths(a) /\ m # {}
    PROVE  /\ f \in [Agents -> SUBSET AllPaths]
           /\ \A a \in Agents : f[a] \in choices[a] /\ f[a] \subseteq Paths(a) /\ f[a] # {}
<1>1. f = [a \in Agents |-> f[a]] /\ \A a \in Agents : f[a] \in choices[a]
  BY DEF Families
<1>2. \A a \in Agents : f[a] \subseteq Paths(a) /\ f[a] # {}
  BY <1>1
<1>3. \A a \in Agents : Paths(a) \subseteq Whole(a)
  BY PathsAreWhole DEF HybridInv
<1>4. \A a \in Agents : f[a] \in SUBSET AllPaths
  BY <1>2, <1>3 DEF AllPaths
<1> QED  BY <1>1, <1>2, <1>4

LEMMA LengthsAreFinite ==
    ASSUME task \in Instances, NEW a \in Agents
    PROVE  IsFiniteSet({Len(p) : p \in Paths(a)}) /\ \A p \in Paths(a) : Len(p) \in Int
<1> DEFINE L == {Len(p) : p \in Paths(a)}
           f == [p \in Paths(a) |-> Len(p)]
<1>1. Paths(a) \subseteq Whole(a) /\ IsFiniteSet(Paths(a))
  BY PathsAreWhole
<1>2. \A p \in Paths(a) : Len(p) \in Int
  <2> TAKE p \in Paths(a)
  <2>1. Len(p) \in 1 .. Horizon + 1
    BY <1>1, WholeType
  <2> QED  BY <2>1
<1>3. f \in Surjection(Paths(a), L)
  BY DEF Surjection
<1> HIDE DEF f, L
<1>4. IsFiniteSet(L)
  BY <1>1, <1>3, FS_Surjection
<1> QED  BY <1>2, <1>4 DEF L

(* A search that may keep one path always has a shortest one to keep.       *)
LEMMA FirstMenuExists ==
    ASSUME task \in Instances, NEW a \in Agents, FirstMenus(a) = {}
    PROVE  MenuSize = 0 \/ Paths(a) = {}
<1> SUFFICES ASSUME MenuSize # 0, Paths(a) # {} PROVE FALSE
  OBVIOUS
<1> DEFINE L == {Len(p) : p \in Paths(a)}
<1>1. L # {} /\ L \subseteq Int /\ IsFiniteSet(L)
  BY LengthsAreFinite
<1>2. PICK p \in Paths(a) : \A q \in Paths(a) : Len(p) <= Len(q)
  <2>1. \E m \in L : \A x \in L : m <= x
    <3> HIDE DEF L
    <3> QED  BY <1>1, SmallestExists
  <2> QED  BY <2>1
<1>3. Cardinality({p}) = 1
  BY FS_Singleton
<1>4. MenuSize \in Nat
  BY HybridAssumption
<1>5. {p} \in FirstMenus(a)
  BY <1>2, <1>3, <1>4 DEF FirstMenus, Menus
<1> QED  BY <1>5

LEMMA GrownMenusGrow ==
    ASSUME HybridInv, pc = "grow", NEW a \in Agents, NEW m \in GrownMenus(a)
    PROVE  pools[a] \subseteq m /\ m \subseteq Paths(a) /\ m # {}
BY DEF HybridInv, PoolInv, GrownMenus, Menus

(* What one round of the loop does to its menus.                            *)
LEMMA GrowStep ==
    ASSUME HybridInv, Grow
    PROVE  /\ pools' \in [Agents -> SUBSET AllPaths]
           /\ \A a \in Agents : pools[a] \subseteq pools'[a] /\ pools'[a] \subseteq Paths(a) /\ pools'[a] # {}
<1> DEFINE choices == [a \in Agents |-> IF a \in Touched THEN GrownMenus(a) ELSE {pools[a]}]
<1>1. \A a \in Agents : \A m \in choices[a] : pools[a] \subseteq m /\ m \subseteq Paths(a) /\ m # {}
  <2> SUFFICES ASSUME NEW a \in Agents, NEW m \in choices[a]
               PROVE  pools[a] \subseteq m /\ m \subseteq Paths(a) /\ m # {}
    OBVIOUS
  <2>1. CASE a \in Touched
    BY <2>1, GrownMenusGrow DEF Grow
  <2>2. CASE a \notin Touched
    BY <2>2 DEF HybridInv, PoolInv, Grow
  <2> QED  BY <2>1, <2>2
<1>2. choices = [a \in Agents |-> choices[a]] /\ pools' \in Families(choices)
  BY DEF Grow
<1> HIDE DEF choices
<1>3. pools' \in Families([a \in Agents |-> choices[a]])
  BY <1>2
<1>4. /\ pools' \in [Agents -> SUBSET AllPaths]
      /\ \A a \in Agents : pools'[a] \in choices[a] /\ pools'[a] \subseteq Paths(a) /\ pools'[a] # {}
  BY <1>1, <1>3, MenusOf
<1> QED  BY <1>1, <1>4

LEMMA GenerateStep ==
    ASSUME HybridInv, Generate
    PROVE  /\ pools' \in [Agents -> SUBSET AllPaths]
           /\ \A a \in Agents : pools'[a] \subseteq Paths(a) /\ pools'[a] # {}
<1> DEFINE choices == [a \in Agents |-> FirstMenus(a)]
<1>1. \A a \in Agents : \A m \in choices[a] : m \subseteq Paths(a) /\ m # {}
  BY DEF FirstMenus, Menus
<1>2. choices = [a \in Agents |-> choices[a]] /\ pools' \in Families(choices)
  BY DEF Generate
<1> HIDE DEF choices
<1> QED  BY <1>1, <1>2, MenusOf

(* A round, whatever the annealer answers: the plan that is kept, its       *)
(* violations and their number change together or not at all.               *)
LEMMA SelectStep ==
    ASSUME HybridInv, Select
    PROVE  \E plan \in Plans :
             /\ found' = Verify(task.start, task.goal, plan) /\ Cardinality(found') \in Nat
             /\ Cardinality(found') < SizeMax /\ (Cardinality(found') = 0 <=> found' = {})
             /\ DOMAIN result' = DOMAIN result
             /\ result'.iterations = result.iterations + 1
             /\ result'.infeasible = result.infeasible
             /\ result'.success <=> found' = {}
             /\ \/ /\ Cardinality(found') < fewest
                   /\ result'.plan = plan /\ result'.verification = found'
                   /\ fewest' = Cardinality(found')
                \/ /\ fewest <= Cardinality(found')
                   /\ result'.plan = result.plan /\ result'.verification = result.verification
                   /\ fewest' = fewest
<1>1. PICK chosen \in Families(pools) : \E plan \in {BuildPlan(chosen)} :
         found' = Verify(task.start, task.goal, plan) /\ result' = Keep(plan, found')
  BY DEF Select
<1> DEFINE plan == BuildPlan(chosen)
<1>2. found' = Verify(task.start, task.goal, plan) /\ result' = Keep(plan, found')
  BY <1>1
<1>3. chosen \in Chosen /\ plan = BuildPlan(chosen)
  BY ChosenFromMenus
<1> HIDE DEF plan
<1>4. plan \in Plans
  BY <1>3 DEF Plans
<1>5. /\ Cardinality(found') \in Nat /\ Cardinality(found') < SizeMax
      /\ Cardinality(found') = 0 <=> found' = {}
  BY <1>2, <1>3, RoundPlan DEF HybridInv
<1>6. fewest \in Nat /\ fewest' = IF fewest <= Cardinality(found') THEN fewest ELSE Cardinality(found')
  <2>1. fewest \in Nat /\ fewest' = Min({fewest, Cardinality(found')})
    BY DEF HybridInv, KeptInv, Select
  <2>2. fewest \in Int /\ Cardinality(found') \in Int
    BY <1>5, <2>1
  <2> QED  BY <2>1, <2>2, MinOfTwo
<1>7. DOMAIN result = {"success", "plan", "verification", "iterations", "infeasible"}
  BY DEF HybridInv, KeptInv
<1>8. /\ DOMAIN result' = DOMAIN result
      /\ result'.iterations = result.iterations + 1
      /\ result'.infeasible = result.infeasible
      /\ result'.plan = IF Cardinality(found') < fewest THEN plan ELSE result.plan
      /\ result'.verification = IF Cardinality(found') < fewest THEN found' ELSE result.verification
  BY <1>2, <1>7 DEF Keep
<1>9. result'.success <=> found' = {}
  BY <1>2, <1>7 DEF Keep
<1>10. CASE Cardinality(found') < fewest
  BY <1>2, <1>4, <1>5, <1>6, <1>8, <1>9, <1>10
<1>11. CASE fewest <= Cardinality(found')
  BY <1>2, <1>4, <1>5, <1>6, <1>8, <1>9, <1>11
<1> QED  BY <1>5, <1>6, <1>10, <1>11

-----------------------------------------------------------------------------
(* The invariant holds, step by step.                                       *)
LEMMA InitEstablishes == Init => HybridInv
<1> SUFFICES ASSUME Init PROVE HybridInv
  OBVIOUS
<1>1. pc = "generate" /\ task \in Instances /\ pools = [a \in Agents |-> {}]
  BY DEF Init
<1>2. PoolInv
  BY <1>1 DEF PoolInv
<1>3. FoundInv
  BY <1>1 DEF FoundInv
<1>4. KeptInv
  <2>1. result = NoResult /\ fewest = SizeMax /\ SizeMax \in Nat
    BY HybridAssumption DEF Init
  <2>2. /\ DOMAIN result = {"success", "plan", "verification", "iterations", "infeasible"}
        /\ result.iterations = 0 /\ result.plan = <<>>
    BY <2>1 DEF NoResult
  <2>3. ~result.success /\ ~result.infeasible
    BY <2>1 DEF NoResult
  <2> QED  BY <2>1, <2>2, <2>3 DEF KeptInv
<1> QED  BY <1>1, <1>2, <1>3, <1>4 DEF HybridInv

LEMMA SameReport ==
    ASSUME KeptInv, task' = task, result' = result, fewest' = fewest, pc' # "generate"
    PROVE  KeptInv'
<1>1. Plans' = Plans /\ \A a \in Agents : Paths(a)' = Paths(a)
  BY SameTask
<1>2. (result.infeasible => MenuSize = 0 \/ \E a \in Agents : Paths(a) = {})'
  BY <1>1 DEF KeptInv
<1>3. (result.success => result.iterations > 0 /\ result.verification = {})'
  BY DEF KeptInv
<1> QED  BY <1>1, <1>2, <1>3 DEF KeptInv

LEMMA StepKeeps == HybridInv /\ [Next]_vars => HybridInv'
<1> SUFFICES ASSUME HybridInv, [Next]_vars PROVE HybridInv'
  OBVIOUS
<1>1. task' = task /\ task' \in Instances
  BY DEF HybridInv, Next, Generate, GenerateFails, Select, Grow, GiveUp, vars
<1>2. AllPaths' = AllPaths /\ Plans' = Plans /\ \A a \in Agents : Paths(a)' = Paths(a)
  BY <1>1, SameTask
<1>3. CASE Generate
  <2>1. pc' = "round" /\ result' = result /\ fewest' = fewest
    BY <1>3 DEF Generate
  <2>2. KeptInv'
    BY <1>1, <2>1, SameReport DEF HybridInv
  <2>3. PoolInv'
    BY <1>2, <1>3, GenerateStep DEF PoolInv
  <2> QED  BY <1>1, <2>1, <2>2, <2>3 DEF HybridInv, FoundInv
<1>4. CASE GenerateFails
  <2>1. pc' = "done" /\ pools' = pools /\ fewest' = fewest
    BY <1>4 DEF GenerateFails
  <2>2. PoolInv'
    BY <1>2, <2>1 DEF PoolInv, HybridInv
  <2>3. KeptInv'
    <3>1. DOMAIN result = {"success", "plan", "verification", "iterations", "infeasible"}
      BY DEF HybridInv, KeptInv
    <3>2. /\ DOMAIN result' = DOMAIN result /\ result'.plan = result.plan
          /\ result'.verification = result.verification /\ result'.iterations = result.iterations
      BY <1>4, <3>1 DEF GenerateFails
    <3>3. result'.success = result.success
      BY <1>4, <3>1 DEF GenerateFails
    <3>4. MenuSize = 0 \/ \E a \in Agents : Paths(a) = {}
      BY <1>4, FirstMenuExists DEF GenerateFails, HybridInv
    <3>5. (result.infeasible => MenuSize = 0 \/ \E a \in Agents : Paths(a) = {})'
      BY <1>2, <3>4
    <3>6. (result.success => result.iterations > 0 /\ result.verification = {})'
      BY <3>2, <3>3 DEF HybridInv, KeptInv
    <3> QED  BY <1>1, <1>2, <2>1, <3>2, <3>5, <3>6 DEF HybridInv, KeptInv
  <2> QED  BY <1>1, <2>1, <2>2, <2>3 DEF HybridInv, FoundInv
<1>5. CASE Select
  <2>1. /\ pc \in {"round"} /\ pools' = pools
        /\ pc' = IF found' = {} THEN "done" ELSE "grow"
    BY <1>5 DEF Select
  <2>2. PoolInv'
    BY <1>2, <2>1 DEF PoolInv, HybridInv
  <2>3. PICK plan \in Plans :
           /\ found' = Verify(task.start, task.goal, plan) /\ Cardinality(found') \in Nat
           /\ Cardinality(found') < SizeMax /\ (Cardinality(found') = 0 <=> found' = {})
           /\ DOMAIN result' = DOMAIN result
           /\ result'.iterations = result.iterations + 1
           /\ result'.infeasible = result.infeasible
           /\ result'.success <=> found' = {}
           /\ \/ /\ Cardinality(found') < fewest
                 /\ result'.plan = plan /\ result'.verification = found'
                 /\ fewest' = Cardinality(found')
              \/ /\ fewest <= Cardinality(found')
                 /\ result'.plan = result.plan /\ result'.verification = result.verification
                 /\ fewest' = fewest
    BY <1>5, SelectStep
  <2>4. FoundInv'
    BY <1>1, <1>2, <2>1, <2>3 DEF FoundInv
  <2>5. KeptInv'
    <3>1. /\ fewest \in Nat /\ SizeMax \in Nat /\ result.iterations \in Nat
          /\ DOMAIN result = {"success", "plan", "verification", "iterations", "infeasible"}
          /\ result.iterations = 0 => fewest = SizeMax
          /\ result.iterations > 0 =>
               /\ result.plan \in Plans
               /\ result.verification = Verify(task.start, task.goal, result.plan)
               /\ fewest = Cardinality(result.verification)
      BY HybridAssumption DEF HybridInv, KeptInv
    <3>2. result'.iterations \in Nat /\ result'.iterations > 0 /\ pc' # "generate"
      BY <2>1, <2>3, <3>1
    <3>3. CASE Cardinality(found') < fewest
      <4>1. /\ result'.plan = plan /\ result'.verification = found'
            /\ fewest' = Cardinality(found')
        BY <2>3, <3>1, <3>3
      <4>2. (result.success => result.iterations > 0 /\ result.verification = {})'
        BY <2>3, <3>2, <4>1
      <4>3. (result.infeasible => MenuSize = 0 \/ \E a \in Agents : Paths(a) = {})'
        BY <1>2, <2>3 DEF HybridInv, KeptInv
      <4> QED  BY <1>1, <1>2, <2>3, <3>1, <3>2, <4>1, <4>2, <4>3 DEF KeptInv
    <3>4. CASE fewest <= Cardinality(found')
      <4>1. /\ result'.plan = result.plan /\ result'.verification = result.verification
            /\ fewest' = fewest
        BY <2>3, <3>1, <3>4
      <4>2. result.iterations > 0
        BY <2>3, <3>1, <3>4
      <4>3. result.verification \subseteq Conceivable
        <5>1. PICK f \in Chosen : result.plan = BuildPlan(f)
          BY <3>1, <4>2 DEF Plans
        <5> QED  BY <3>1, <4>2, <5>1, RoundPlan DEF HybridInv
      <4>4. found' = {} => result.verification = {}
        <5> SUFFICES ASSUME found' = {} PROVE result.verification = {}
          OBVIOUS
        <5>1. Cardinality(found') = 0
          BY <2>3
        <5>2. Cardinality(result.verification) = 0
          BY <3>1, <3>4, <4>2, <5>1
        <5>3. IsFiniteSet(result.verification)
          BY <4>3, ConceivableIsFinite
        <5> QED  BY <5>2, <5>3, FS_EmptySet
      <4>5. (result.success => result.iterations > 0 /\ result.verification = {})'
        BY <2>3, <3>2, <4>1, <4>4
      <4>6. (result.infeasible => MenuSize = 0 \/ \E a \in Agents : Paths(a) = {})'
        BY <1>2, <2>3 DEF HybridInv, KeptInv
      <4>7. /\ result'.plan \in Plans' /\ fewest' = Cardinality(result'.verification)
            /\ result'.verification = Verify(task'.start, task'.goal, result'.plan)
            /\ fewest' \in Nat
            /\ DOMAIN result' = {"success", "plan", "verification", "iterations", "infeasible"}
        BY <1>1, <1>2, <2>3, <3>1, <4>1, <4>2
      <4> QED  BY <3>2, <4>5, <4>6, <4>7 DEF KeptInv
    <3> QED  BY <2>3, <3>1, <3>3, <3>4
  <2> QED  BY <1>1, <2>1, <2>2, <2>4, <2>5 DEF HybridInv
<1>6. CASE Grow
  <2>1. pc' \in {"done", "round"} /\ result' = result /\ fewest' = fewest
    BY <1>6 DEF Grow
  <2>2. KeptInv'
    BY <1>1, <2>1, SameReport DEF HybridInv
  <2>3. PoolInv'
    BY <1>2, <1>6, GrowStep DEF PoolInv
  <2> QED  BY <1>1, <2>1, <2>2, <2>3 DEF HybridInv, FoundInv
<1>7. CASE GiveUp
  <2>1. pc' = "done" /\ pools' = pools /\ result' = result /\ fewest' = fewest
    BY <1>7 DEF GiveUp
  <2>2. KeptInv'
    BY <1>1, <2>1, SameReport DEF HybridInv
  <2>3. PoolInv'
    BY <1>2, <2>1 DEF PoolInv, HybridInv
  <2> QED  BY <1>1, <2>1, <2>2, <2>3 DEF HybridInv, FoundInv
<1>8. CASE UNCHANGED vars
  <2>1. pc' = pc /\ pools' = pools /\ found' = found /\ result' = result /\ fewest' = fewest
    BY <1>8 DEF vars
  <2>2. PoolInv'
    BY <1>2, <2>1 DEF PoolInv, HybridInv
  <2>3. FoundInv'
    BY <1>1, <1>2, <2>1 DEF FoundInv, HybridInv
  <2>4. KeptInv'
    <3>1. (result.infeasible => MenuSize = 0 \/ \E a \in Agents : Paths(a) = {})'
      BY <1>2, <2>1 DEF HybridInv, KeptInv
    <3>2. (result.success => result.iterations > 0 /\ result.verification = {})'
      BY <2>1 DEF HybridInv, KeptInv
    <3> QED  BY <1>1, <1>2, <2>1, <3>1, <3>2 DEF HybridInv, KeptInv
  <2> QED  BY <1>1, <2>1, <2>2, <2>3, <2>4 DEF HybridInv
<1> QED  BY <1>3, <1>4, <1>5, <1>6, <1>7, <1>8 DEF Next

LEMMA HybridInvHolds == Spec => []HybridInv
BY InitEstablishes, StepKeeps, PTL DEF Spec

-----------------------------------------------------------------------------
(* The verification reported is the reported plan's own, a success is a plan *)
(* the verifier accepts, and an instance is called infeasible only when an   *)
(* agent has no path or no candidates are asked for: for every instance and  *)
(* whatever the annealer answers (solver.hpp:109-147).                       *)
THEOREM TrueReport == Spec => []ReportIsTrue
<1>1. HybridInv => ReportIsTrue
  <2> SUFFICES ASSUME HybridInv PROVE ReportIsTrue
    OBVIOUS
  <2>1. result.iterations > 0 =>
           /\ result.plan # <<>>
           /\ result.verification = Verify(task.start, task.goal, result.plan)
    <3>1. result.iterations > 0 => result.plan # <<>>
      BY RoundPlan DEF HybridInv, KeptInv, Plans
    <3> QED  BY <3>1 DEF HybridInv, KeptInv
  <2>2. result.success => result.iterations > 0 /\ result.verification = {}
    BY DEF HybridInv, KeptInv
  <2>3. result.infeasible => MenuSize = 0 \/ \E a \in Agents : Paths(a) = {}
    BY DEF HybridInv, KeptInv
  <2> QED  BY <2>1, <2>2, <2>3 DEF ReportIsTrue
<1> QED  BY <1>1, HybridInvHolds, PTL

(* A round that fails does so because agents collide, and names at least one *)
(* of them to find new candidates for (solver.hpp:149-164).                  *)
THEOREM OnlyCollisionsFail == Spec => []OnlyAgentsConflict
<1>1. HybridInv => OnlyAgentsConflict
  <2> SUFFICES ASSUME HybridInv, pc = "grow"
               PROVE  (\A v \in found : v[1] \in {"vertex", "swap"}) /\ Touched # {}
    BY DEF OnlyAgentsConflict
  <2>1. PICK f \in Chosen : found = Verify(task.start, task.goal, BuildPlan(f))
    BY DEF HybridInv, FoundInv, Plans
  <2>2. \A v \in found : v[1] \in {"vertex", "swap"}
    BY <2>1, RoundPlan DEF HybridInv
  <2>3. PICK v \in found : v[1] \in {"vertex", "swap"}
    BY <2>2 DEF HybridInv, FoundInv
  <2>4. {v[2], v[3]} \in {{w[2], w[3]} : w \in {u \in found : u[1] \in {"vertex", "swap"}}}
    BY <2>3
  <2>5. v[2] \in Touched
    BY <2>4 DEF Touched
  <2> QED  BY <2>2, <2>5
<1> QED  BY <1>1, HybridInvHolds, PTL

(* The plan that is kept is never worse than the plan of any round, and it   *)
(* is replaced only by a better one (solver.hpp:136-142).                    *)
THEOREM BestIsKept == Spec => KeepsTheBest
<1> DEFINE A == /\ pc = "round" /\ result'.iterations > result.iterations =>
                     Cardinality(result'.verification) <= Cardinality(found')
                /\ result.iterations > 0 /\ result'.plan # result.plan =>
                     Cardinality(result'.verification) < Cardinality(result.verification)
<1>1. HybridInv /\ [Next]_vars => [A]_vars
  <2> SUFFICES ASSUME HybridInv, Next PROVE A
    OBVIOUS
  <2>1. result.iterations \in Nat /\ fewest \in Nat /\ SizeMax \in Nat
    BY HybridAssumption DEF HybridInv, KeptInv
  <2>2. CASE Select
    <3>1. PICK plan \in Plans :
             /\ Cardinality(found') \in Nat /\ Cardinality(found') < SizeMax
             /\ \/ /\ Cardinality(found') < fewest
                   /\ result'.plan = plan /\ result'.verification = found'
                \/ /\ fewest <= Cardinality(found')
                   /\ result'.plan = result.plan /\ result'.verification = result.verification
      BY <2>2, SelectStep
    <3>2. result.iterations = 0 => fewest = SizeMax
      BY DEF HybridInv, KeptInv
    <3>3. result.iterations > 0 => fewest = Cardinality(result.verification)
      BY DEF HybridInv, KeptInv
    <3>4. CASE result.iterations = 0
      BY <2>1, <3>1, <3>2, <3>4
    <3>5. CASE result.iterations > 0
      BY <2>1, <3>1, <3>3, <3>5
    <3> QED  BY <2>1, <3>4, <3>5
  <2>3. CASE GenerateFails
    <3>1. DOMAIN result = {"success", "plan", "verification", "iterations", "infeasible"}
      BY DEF HybridInv, KeptInv
    <3>2. result'.plan = result.plan /\ pc = "generate"
      BY <2>3, <3>1 DEF GenerateFails
    <3> QED  BY <3>2
  <2>4. CASE Generate \/ Grow \/ GiveUp
    BY <2>1, <2>4 DEF Generate, Grow, GiveUp
  <2> QED  BY <2>2, <2>3, <2>4 DEF Next
<1> QED  BY <1>1, HybridInvHolds, PTL DEF Spec, KeepsTheBest

-----------------------------------------------------------------------------
(* Every round but the first adds a path to a menu: the rounds so far are   *)
(* bounded by the paths in the menus, over and above one per agent.         *)
Sizes(menus) == [a \in Agents |-> Cardinality(menus[a])]

PayInv ==
    /\ pc = "generate" => result.iterations = 0
    /\ pc = "round" => result.iterations <= PathsAdded - Cardinality(Agents)
    /\ pc = "grow" => result.iterations - 1 <= PathsAdded - Cardinality(Agents)

LEMMA MenuSizes ==
    ASSUME HybridInv, NEW menus, menus \in [Agents -> SUBSET AllPaths],
           \A a \in Agents : menus[a] \subseteq Paths(a)
    PROVE  /\ \A a \in Agents : IsFiniteSet(menus[a]) /\ Cardinality(menus[a]) \in Nat
           /\ SumFunction(Sizes(menus)) = SumFunctionOnSet(Sizes(menus), Agents)
           /\ SumFunctionOnSet(Sizes(menus), Agents) \in Int
<1>1. ASSUME NEW a \in Agents PROVE IsFiniteSet(menus[a]) /\ Cardinality(menus[a]) \in Nat
  BY PathsAreWhole, FS_Subset, FS_CardinalityType DEF HybridInv
<1>2. \A a \in Agents : Sizes(menus)[a] \in Int
  BY <1>1 DEF Sizes
<1>3. DOMAIN Sizes(menus) = Agents
  BY DEF Sizes
<1> QED  BY <1>1, <1>2, <1>3, AgentsAssumption, SumType, SumWhole

(* Menus that keep what they have and are not the same have grown.          *)
LEMMA GrowthCounts ==
    ASSUME HybridInv, NEW old, NEW new,
           old \in [Agents -> SUBSET AllPaths], new \in [Agents -> SUBSET AllPaths], old # new,
           \A a \in Agents : old[a] \subseteq new[a] /\ new[a] \subseteq Paths(a)
    PROVE  SumFunction(Sizes(old)) + 1 <= SumFunction(Sizes(new))
<1> DEFINE f == Sizes(old)
           g == Sizes(new)
<1>1. PICK k \in Agents : old[k] # new[k]
  OBVIOUS
<1>2. /\ SumFunction(f) = SumFunctionOnSet(f, Agents)
      /\ SumFunction(g) = SumFunctionOnSet(g, Agents)
  <2>1. \A a \in Agents : old[a] \subseteq Paths(a)
    OBVIOUS
  <2> QED  BY <2>1, MenuSizes
<1>3. \A a \in Agents : IsFiniteSet(new[a]) /\ old[a] \subseteq new[a]
  BY MenuSizes
<1>4. \A a \in Agents : f[a] \in Int /\ g[a] \in Int /\ f[a] <= g[a]
  <2> TAKE a \in Agents
  <2>1. /\ Cardinality(old[a]) <= Cardinality(new[a])
        /\ Cardinality(old[a]) \in Nat /\ Cardinality(new[a]) \in Nat
    BY <1>3, FS_Subset, FS_CardinalityType
  <2> QED  BY <2>1 DEF Sizes
<1>5. f[k] + 1 <= g[k]
  <2>1. Cardinality(old[k]) # Cardinality(new[k])
    BY <1>1, <1>3, FS_Subset
  <2> QED  BY <1>4, <2>1 DEF Sizes
<1> HIDE DEF f, g
<1> DEFINE R == Agents \ {k}
<1>6. IsFiniteSet(R) /\ \A a \in R : f[a] \in Int /\ g[a] \in Int /\ f[a] <= g[a]
  BY <1>4, AgentsAssumption, FS_Subset
<1>7. SumFunctionOnSet(f, R) <= SumFunctionOnSet(g, R)
  <2> HIDE DEF R
  <2> QED  BY <1>6, SumMonotone
<1>8. SumFunctionOnSet(f, R) \in Int /\ SumFunctionOnSet(g, R) \in Int
  <2> HIDE DEF R
  <2> QED  BY <1>6, SumType
<1>9. /\ SumFunctionOnSet(f, Agents) = f[k] + SumFunctionOnSet(f, R)
      /\ SumFunctionOnSet(g, Agents) = g[k] + SumFunctionOnSet(g, R)
  BY <1>1, <1>4, AgentsAssumption, SumRemove
<1> HIDE DEF R
<1>10. f[k] \in Int /\ g[k] \in Int
  BY <1>4
<1> QED  BY <1>2, <1>5, <1>7, <1>8, <1>9, <1>10 DEF f, g

LEMMA FullMenusCount ==
    ASSUME HybridInv, NEW menus, menus \in [Agents -> SUBSET AllPaths],
           \A a \in Agents : menus[a] \subseteq Paths(a) /\ menus[a] # {}
    PROVE  Cardinality(Agents) <= SumFunction(Sizes(menus))
<1> DEFINE f == Sizes(menus)
           one == [a \in Agents |-> 1]
<1>1. \A a \in Agents : IsFiniteSet(menus[a]) /\ Cardinality(menus[a]) \in Nat
  BY MenuSizes
<1>2. SumFunction(f) = SumFunctionOnSet(f, Agents)
  BY MenuSizes
<1>3. \A a \in Agents : one[a] \in Int /\ f[a] \in Int /\ one[a] <= f[a]
  <2> TAKE a \in Agents
  <2>1. Cardinality(menus[a]) # 0
    BY <1>1, FS_EmptySet
  <2> QED  BY <1>1, <2>1 DEF Sizes
<1>4. SumFunctionOnSet(one, Agents) = Cardinality(Agents)
  BY AgentsAssumption, SumOfOnes
<1> HIDE DEF f, one
<1>5. SumFunctionOnSet(one, Agents) <= SumFunctionOnSet(f, Agents)
  BY <1>3, AgentsAssumption, SumMonotone
<1> QED  BY <1>2, <1>4, <1>5 DEF f

LEMMA PayStep == HybridInv /\ PayInv /\ [Next]_vars => PayInv'
<1> SUFFICES ASSUME HybridInv, PayInv, [Next]_vars PROVE PayInv'
  OBVIOUS
<1> DEFINE N == Cardinality(Agents)
<1>1. PathsAdded = SumFunction(Sizes(pools)) /\ PathsAdded' = SumFunction(Sizes(pools'))
  BY DEF PathsAdded, Sizes
<1>2. N \in Nat /\ result.iterations \in Nat
  BY AgentsAssumption, FS_CardinalityType DEF HybridInv, KeptInv
<1>3. SumFunction(Sizes(pools)) \in Int
  BY MenuSizes DEF HybridInv, PoolInv
<1>4. CASE Generate
  <2>1. N <= SumFunction(Sizes(pools'))
    BY <1>4, GenerateStep, FullMenusCount
  <2>2. SumFunction(Sizes(pools')) \in Int
    BY <1>4, GenerateStep, MenuSizes
  <2>3. pc = "generate" /\ pc' = "round" /\ result' = result
    BY <1>4 DEF Generate
  <2>4. result'.iterations = 0
    BY <2>3 DEF PayInv
  <2> HIDE DEF N
  <2> QED  BY <1>1, <1>2, <2>1, <2>2, <2>3, <2>4 DEF PayInv, N
<1>5. CASE Select
  <2>1. pc = "round" /\ pc' \in {"done", "grow"} /\ pools' = pools
    BY <1>5 DEF Select
  <2>2. result'.iterations = result.iterations + 1
    BY <1>5, SelectStep
  <2> QED  BY <1>1, <1>2, <1>3, <2>1, <2>2 DEF PayInv
<1>6. CASE Grow
  <2>1. /\ pools' \in [Agents -> SUBSET AllPaths]
        /\ \A a \in Agents : pools[a] \subseteq pools'[a] /\ pools'[a] \subseteq Paths(a)
    BY <1>6, GrowStep
  <2>2. pc = "grow" /\ result' = result /\ pc' = IF pools' = pools THEN "done" ELSE "round"
    BY <1>6 DEF Grow
  <2>3. CASE pools' = pools
    BY <2>2, <2>3 DEF PayInv
  <2>4. CASE pools' # pools
    <3>1. SumFunction(Sizes(pools)) + 1 <= SumFunction(Sizes(pools'))
      BY <2>1, <2>4, GrowthCounts DEF HybridInv, PoolInv
    <3>2. SumFunction(Sizes(pools')) \in Int
      BY <2>1, MenuSizes
    <3>3. pc' = "round"
      BY <2>2, <2>4
    <3> HIDE DEF N
    <3> QED  BY <1>1, <1>2, <1>3, <2>2, <3>1, <3>2, <3>3 DEF PayInv, N
  <2> QED  BY <2>3, <2>4
<1>7. CASE GenerateFails
  BY <1>7 DEF GenerateFails, PayInv
<1>8. CASE GiveUp
  BY <1>8 DEF GiveUp, PayInv
<1>9. CASE UNCHANGED vars
  BY <1>1, <1>9 DEF vars, PayInv
<1> QED  BY <1>4, <1>5, <1>6, <1>7, <1>8, <1>9 DEF Next

(* The capped menus alone bound the rounds: no round is run twice on the     *)
(* same menus, whatever max_iterations says (solver.hpp:166-185).            *)
THEOREM RoundsArePaid == Spec => []EveryRoundPays
<1>1. Init => PayInv
  BY DEF Init, PayInv, NoResult
<1>2. Spec => []PayInv
  BY <1>1, PayStep, HybridInvHolds, PTL DEF Spec
<1>3. PayInv => EveryRoundPays
  BY DEF PayInv, EveryRoundPays
<1> QED  BY <1>2, <1>3, PTL

-----------------------------------------------------------------------------
(* The static mode: what is printed, and when.                              *)
(* The loop does not go on with a plan that has nothing wrong with it.      *)
StopsAtSuccess == result.iterations > 0 /\ result.verification = {} => result.success /\ pc = "done"

Told ==
    [told      |-> TRUE,
     success   |-> result.success,
     steps     |-> Makespan(result.plan),
     cycles    |-> result.iterations,
     costs     |-> SumOfCosts(result.plan),
     conflicts |-> Cardinality(Listed(Verify(task.start, task.goal, result.plan))),
     paths     |-> result.plan]

TellInv ==
    /\ exit \in {"running", "0", "1", "killed"}
    /\ exit # "running" => pc = "done"
    /\ exit \in {"running", "killed"} => event = NoEvent
    /\ exit = "killed" => result.plan = <<>>
    /\ exit \in {"0", "1"} =>
         event = Told /\ result.plan # <<>> /\ (exit = "0" <=> result.success)

StreamInv == HybridInv /\ StopsAtSuccess /\ TellInv

LEMMA StopsStep == HybridInv /\ StopsAtSuccess /\ [Next]_vars => StopsAtSuccess'
<1> SUFFICES ASSUME HybridInv, StopsAtSuccess, [Next]_vars PROVE StopsAtSuccess'
  OBVIOUS
<1>1. CASE Select
  <2>1. PICK plan \in Plans :
           /\ Cardinality(found') \in Nat /\ Cardinality(found') < SizeMax
           /\ result'.success <=> found' = {}
           /\ \/ Cardinality(found') < fewest /\ result'.verification = found'
              \/ fewest <= Cardinality(found') /\ result'.verification = result.verification
    BY <1>1, SelectStep
  <2>2. pc = "round" /\ pc' = IF found' = {} THEN "done" ELSE "grow"
    BY <1>1 DEF Select
  <2>3. result.iterations \in Nat /\ SizeMax \in Nat /\ (result.iterations = 0 => fewest = SizeMax)
    BY HybridAssumption DEF HybridInv, KeptInv
  <2>4. CASE result.iterations = 0
    <3>1. result'.verification = found'
      BY <2>1, <2>3, <2>4
    <3>2. result'.verification = {} => pc' = "done"
      BY <2>2, <3>1
    <3>3. result'.verification = {} => result'.success
      BY <2>1, <3>1
    <3> QED  BY <3>2, <3>3 DEF StopsAtSuccess
  <2>5. CASE result.iterations > 0
    <3>1. result.verification # {}
      BY <2>2, <2>5 DEF StopsAtSuccess
    <3>2. result'.verification = found' \/ result'.verification # {}
      BY <2>1, <3>1
    <3>3. result'.verification = {} => found' = {}
      BY <3>2
    <3>4. result'.verification = {} => pc' = "done"
      BY <2>2, <3>3
    <3>5. result'.verification = {} => result'.success
      BY <2>1, <3>3
    <3> QED  BY <3>4, <3>5 DEF StopsAtSuccess
  <2> QED  BY <2>3, <2>4, <2>5
<1>2. CASE GenerateFails
  <2>1. DOMAIN result = {"success", "plan", "verification", "iterations", "infeasible"}
    BY DEF HybridInv, KeptInv
  <2>2. result'.iterations = result.iterations /\ pc = "generate"
    BY <1>2, <2>1 DEF GenerateFails
  <2>3. result.iterations = 0
    BY <2>2 DEF HybridInv, KeptInv
  <2> QED  BY <2>2, <2>3 DEF StopsAtSuccess
<1>3. CASE Generate \/ Grow \/ GiveUp
  <2>1. result' = result /\ pc # "done"
    BY <1>3 DEF Generate, Grow, GiveUp
  <2>2. ~(result.iterations > 0 /\ result.verification = {})
    BY <2>1 DEF StopsAtSuccess
  <2> QED  BY <2>1, <2>2 DEF StopsAtSuccess
<1>4. CASE UNCHANGED vars
  <2>1. pc' = pc /\ result' = result
    BY <1>4 DEF vars
  <2> QED  BY <2>1 DEF StopsAtSuccess
<1> QED  BY <1>1, <1>2, <1>3, <1>4 DEF Next

LEMMA TellStep == TellInv /\ [StaticNext]_static => TellInv'
<1> SUFFICES ASSUME TellInv, [StaticNext]_static PROVE TellInv'
  OBVIOUS
<1>1. CASE SolveStep
  <2>1. pc # "done" /\ event' = event /\ exit' = exit
    BY <1>1 DEF SolveStep, Next, Generate, GenerateFails, Select, Grow, GiveUp
  <2>2. exit = "running"
    BY <2>1 DEF TellInv
  <2> QED  BY <2>1, <2>2 DEF TellInv
<1>2. CASE PrintDone
  <2>1. /\ pc' = pc /\ pc = "done" /\ task' = task /\ result' = result /\ result.plan # <<>>
        /\ event' = Told
    BY <1>2 DEF PrintDone, Told, vars
  <2>2. Told' = Told
    BY <2>1 DEF Told, Verify, Makespan, Listed, SumOfCosts
  <2>3. CASE result.success
    <3>1. exit' = "0"
      BY <1>2, <2>3 DEF PrintDone
    <3> QED  BY <2>1, <2>2, <2>3, <3>1 DEF TellInv
  <2>4. CASE ~result.success
    <3>1. exit' = "1"
      BY <1>2, <2>4 DEF PrintDone
    <3> QED  BY <2>1, <2>2, <2>4, <3>1 DEF TellInv
  <2> QED  BY <2>3, <2>4
<1>3. CASE ReadNoPath
  BY <1>3 DEF ReadNoPath, TellInv, vars
<1>4. CASE UNCHANGED static
  <2>1. /\ pc' = pc /\ task' = task /\ result' = result /\ event' = event /\ exit' = exit
    BY <1>4 DEF static, vars
  <2>2. Told' = Told
    BY <2>1 DEF Told, Verify, Makespan, Listed, SumOfCosts
  <2> QED  BY <2>1, <2>2 DEF TellInv
<1> QED  BY <1>1, <1>2, <1>3, <1>4 DEF StaticNext

LEMMA StreamInvHolds == StaticSpec => []StreamInv
<1>1. StaticInit => StreamInv
  <2>1. Init => StopsAtSuccess
    BY DEF Init, NoResult, StopsAtSuccess
  <2>2. StaticInit => TellInv
    BY DEF StaticInit, TellInv
  <2> QED  BY <2>1, <2>2, InitEstablishes DEF StaticInit, StreamInv
<1>2. [StaticNext]_static => [Next]_vars
  BY DEF StaticNext, SolveStep, PrintDone, ReadNoPath, static
<1>3. StreamInv /\ [StaticNext]_static => StreamInv'
  BY <1>2, StepKeeps, StopsStep, TellStep DEF StreamInv
<1> QED  BY <1>1, <1>3, PTL DEF StaticSpec

(* A run that ends without a round has been refused its menus, or was not to *)
(* make any.                                                                 *)
NoRound ==
    result.iterations = 0 /\ pc \notin {"generate", "round"} =>
        pc = "done" /\ (result.infeasible \/ MaxIterations = 0)

LEMMA NoRoundStep == HybridInv /\ NoRound /\ [Next]_vars => NoRound'
<1> SUFFICES ASSUME HybridInv, NoRound, [Next]_vars PROVE NoRound'
  OBVIOUS
<1>1. /\ DOMAIN result = {"success", "plan", "verification", "iterations", "infeasible"}
      /\ result.iterations \in Nat /\ MaxIterations \in Nat
  BY HybridAssumption DEF HybridInv, KeptInv
<1>2. CASE Generate
  BY <1>2 DEF Generate, NoRound
<1>3. CASE GenerateFails
  <2>1. pc' = "done" /\ result'.infeasible
    BY <1>1, <1>3 DEF GenerateFails
  <2> QED  BY <2>1 DEF NoRound
<1>4. CASE Select
  <2>1. PICK plan : result' = Keep(plan, found')
    BY <1>4 DEF Select
  <2>2. result'.iterations = result.iterations + 1
    BY <1>1, <2>1 DEF Keep
  <2> QED  BY <1>1, <2>2 DEF NoRound
<1>5. CASE Grow
  BY <1>5 DEF Grow, NoRound
<1>6. CASE GiveUp
  BY <1>1, <1>6 DEF GiveUp, NoRound
<1>7. CASE UNCHANGED vars
  BY <1>7 DEF vars, NoRound
<1> QED  BY <1>2, <1>3, <1>4, <1>5, <1>6, <1>7 DEF Next

(* In static mode the process is killed over an empty plan in three cases    *)
(* only, all of which its arguments and the map decide before the first      *)
(* round: an agent's goal is out of reach, no candidates are asked for, or   *)
(* no rounds.  No selection the annealer makes can bring it about            *)
(* (solve_stream.cpp:171-174, solver.hpp:108-116, 123).                      *)
DeathHasACause ==
    exit = "killed" => \/ MaxIterations = 0 \/ MenuSize = 0
                       \/ \E a \in Agents : Paths(a) = {}

THEOREM OnlyInputsKill == StaticSpec => []DeathHasACause
<1>1. StaticInit => NoRound
  BY DEF StaticInit, Init, NoRound
<1>2. [StaticNext]_static => [Next]_vars
  BY DEF StaticNext, SolveStep, PrintDone, ReadNoPath, static
<1>3. StreamInv /\ NoRound /\ [StaticNext]_static => NoRound'
  BY <1>2, NoRoundStep DEF StreamInv
<1>4. ASSUME StreamInv, NoRound PROVE DeathHasACause
  <2> SUFFICES ASSUME exit = "killed"
               PROVE  \/ MaxIterations = 0 \/ MenuSize = 0
                      \/ \E a \in Agents : Paths(a) = {}
    BY DEF DeathHasACause
  <2>1. pc = "done" /\ result.plan = <<>>
    BY <1>4 DEF StreamInv, TellInv
  <2>2. result.iterations = 0
    <3>1. result.iterations \in Nat /\ (result.iterations > 0 => result.plan # <<>>)
      BY <1>4, RoundPlan DEF StreamInv, HybridInv, KeptInv, Plans
    <3> QED  BY <2>1, <3>1
  <2>3. result.infeasible \/ MaxIterations = 0
    BY <1>4, <2>1, <2>2 DEF NoRound
  <2> QED  BY <1>4, <2>3 DEF StreamInv, HybridInv, KeptInv
<1> QED  BY StreamInvHolds, <1>1, <1>3, <1>4, PTL DEF StaticSpec

-----------------------------------------------------------------------------
(* What the verifier's report means for the plan as it is played back.      *)
LEMMA ListedPairs ==
    ASSUME task \in Instances, NEW f \in Chosen
    PROVE  LET violations == Verify(task.start, task.goal, BuildPlan(f))
           IN  Cardinality(Listed(violations)) = 0 <=> violations = {}
<1> DEFINE plan == BuildPlan(f)
           n == Makespan(f)
           violations == Verify(task.start, task.goal, plan)
           L == Listed(violations)
<1>1. IsPlan(plan, n)
  BY PlanIsPlan
<1>2. violations \subseteq Conceivable /\ \A v \in violations : v[1] \in {"vertex", "swap"}
  BY RoundPlan
<1> HIDE DEF plan, n
<1>3. \A v \in violations : <<v[1], v[3], v[2], v[4]>> \in violations
  <2> SUFFICES ASSUME NEW v \in violations PROVE <<v[1], v[3], v[2], v[4]>> \in violations
    OBVIOUS
  <2> DEFINE m == Makespan(plan)
  <2>1. CASE v[1] = "vertex"
    <3>1. PICK u \in Agents \X Agents \X (0 .. m) :
             /\ v = <<"vertex", u[1], u[2], u[3]>> /\ u[1] # u[2]
             /\ PathAt(plan[u[1]], u[3]) = PathAt(plan[u[2]], u[3])
      BY <2>1 DEF Verify
    <3> DEFINE w == <<u[2], u[1], u[3]>>
    <3>2. w \in {x \in Agents \X Agents \X (0 .. m) :
                    x[1] # x[2] /\ PathAt(plan[x[1]], x[3]) = PathAt(plan[x[2]], x[3])}
      BY <3>1
    <3>3. <<"vertex", w[1], w[2], w[3]>> \in violations
      BY <3>2 DEF Verify
    <3> QED  BY <3>1, <3>3
  <2>2. CASE v[1] = "swap"
    <3>1. PICK u \in Agents \X Agents \X (1 .. m) :
             /\ v = <<"swap", u[1], u[2], u[3]>> /\ u[1] # u[2]
             /\ PathAt(plan[u[1]], u[3]) # PathAt(plan[u[2]], u[3])
             /\ PathAt(plan[u[1]], u[3]) = PathAt(plan[u[2]], u[3] - 1)
             /\ PathAt(plan[u[2]], u[3]) = PathAt(plan[u[1]], u[3] - 1)
      BY <2>2 DEF Verify
    <3> DEFINE w == <<u[2], u[1], u[3]>>
    <3>2. w \in {x \in Agents \X Agents \X (1 .. m) :
                    /\ x[1] # x[2]
                    /\ PathAt(plan[x[1]], x[3]) # PathAt(plan[x[2]], x[3])
                    /\ PathAt(plan[x[1]], x[3]) = PathAt(plan[x[2]], x[3] - 1)
                    /\ PathAt(plan[x[2]], x[3]) = PathAt(plan[x[1]], x[3] - 1)}
      BY <3>1
    <3>3. <<"swap", w[1], w[2], w[3]>> \in violations
      BY <3>2 DEF Verify
    <3> QED  BY <3>1, <3>3
  <2> HIDE DEF violations
  <2> QED  BY <1>2, <2>1, <2>2
<1> HIDE DEF violations
<1>4. violations # {} => L # {}
  <2> SUFFICES ASSUME NEW v \in violations PROVE L # {}
    OBVIOUS
  <2>1. v[2] \in Nat /\ v[3] \in Nat
    BY <1>2, StaticAssumption DEF Conceivable
  <2> DEFINE w == <<v[1], v[3], v[2], v[4]>>
  <2>2. w \in violations /\ w[2] = v[3] /\ w[3] = v[2]
    BY <1>3
  <2>3. v[2] <= v[3] \/ w[2] <= w[3]
    BY <2>1, <2>2
  <2> HIDE DEF w
  <2> QED  BY <2>2, <2>3 DEF Listed
<1>5. L \subseteq violations
  BY DEF Listed
<1> HIDE DEF L
<1>6. IsFiniteSet(L)
  BY <1>2, <1>5, ConceivableIsFinite
<1>7. Cardinality(L) = 0 <=> L = {}
  BY <1>6, FS_EmptySet
<1> QED  BY <1>4, <1>5, <1>7 DEF L, violations, plan

LEMMA NoViolationNoCollision ==
    ASSUME NEW plan, NEW n, IsPlan(plan, n), Verify(task.start, task.goal, plan) = {},
           NEW t \in 1 .. n
    PROVE  StepOk([a \in Agents |-> plan[a][t]], [a \in Agents |-> plan[a][t + 1]])
<1>1. Makespan(plan) = n /\ n \in Nat
  BY PlanMakespan
<1>2. \A a \in Agents : PathAt(plan[a], t) = plan[a][t + 1] /\ PathAt(plan[a], t - 1) = plan[a][t]
  <2> TAKE a \in Agents
  <2>1. Len(plan[a]) = n + 1 /\ t \in Int /\ t < n + 1 /\ t - 1 < n + 1 /\ (t - 1) + 1 = t
    BY <1>1 DEF IsPlan
  <2> QED  BY <2>1 DEF PathAt
<1>3. ASSUME NEW i \in Agents, NEW j \in Agents, i # j, plan[i][t + 1] = plan[j][t + 1] PROVE FALSE
  <2> DEFINE u == <<i, j, t>>
  <2>1. u \in Agents \X Agents \X (0 .. n)
    BY <1>1
  <2>2. u \in {w \in Agents \X Agents \X (0 .. n) :
                 w[1] # w[2] /\ PathAt(plan[w[1]], w[3]) = PathAt(plan[w[2]], w[3])}
    BY <1>2, <1>3, <2>1
  <2>3. <<"vertex", u[1], u[2], u[3]>> \in Verify(task.start, task.goal, plan)
    <3> HIDE DEF u
    <3> QED  BY <1>1, <2>2 DEF Verify
  <2> QED  BY <2>3
<1>4. ASSUME NEW i \in Agents, NEW j \in Agents, i # j,
             plan[i][t + 1] = plan[j][t], plan[j][t + 1] = plan[i][t]
      PROVE  FALSE
  <2> DEFINE u == <<i, j, t>>
  <2>1. u \in Agents \X Agents \X (1 .. n)
    OBVIOUS
  <2>2. plan[i][t + 1] # plan[j][t + 1]
    BY <1>3, <1>4
  <2>3. u \in {w \in Agents \X Agents \X (1 .. n) :
                 /\ w[1] # w[2]
                 /\ PathAt(plan[w[1]], w[3]) # PathAt(plan[w[2]], w[3])
                 /\ PathAt(plan[w[1]], w[3]) = PathAt(plan[w[2]], w[3] - 1)
                 /\ PathAt(plan[w[2]], w[3]) = PathAt(plan[w[1]], w[3] - 1)}
    BY <1>2, <1>4, <2>1, <2>2
  <2>4. <<"swap", u[1], u[2], u[3]>> \in Verify(task.start, task.goal, plan)
    <3> HIDE DEF u
    <3> QED  BY <1>1, <2>3 DEF Verify
  <2> QED  BY <2>4
<1> QED  BY <1>3, <1>4 DEF StepOk, Swaps

(* An agent that parks on its goal has paid for every step of its path.     *)
LEMMA CostIsLength ==
    ASSUME task \in Instances, NEW f \in Chosen, NEW a \in Agents
    PROVE  /\ PathCost(BuildPlan(f)[a], task.goal[a]) \in Int
           /\ Len(f[a]) \in Int /\ Len(f[a]) - 1 <= PathCost(BuildPlan(f)[a], task.goal[a])
<1> DEFINE n == Makespan(f)
           plan == BuildPlan(f)
           m == Len(f[a])
           S == {t \in 1 .. Len(plan[a]) : plan[a][t] # task.goal[a]}
           D == {0} \cup S
<1>1. /\ IsPlan(plan, n) /\ m <= n + 1
      /\ \A t \in 1 .. n + 1 : plan[a][t] = IF t <= m THEN f[a][t] ELSE task.goal[a]
  BY PlanIsPlan
<1>2. f[a] \in Whole(a)
  BY PathsAreWhole DEF Chosen
<1>3. m \in 1 .. Horizon + 1 /\ \A j \in 1 .. m - 1 : f[a][j] # task.goal[a]
  BY <1>2, WholeType
<1>4. m \in Nat /\ m > 0
  BY <1>3, CellsAreFinite
<1> HIDE DEF n, plan, m
<1>5. n \in Nat /\ Len(plan[a]) = n + 1
  BY <1>1, CellsAreFinite DEF IsPlan
<1>6. S \subseteq 1 .. n + 1 /\ IsFiniteSet(1 .. n + 1)
  BY <1>5, FS_Interval
<1>7. IsFiniteSet(D)
  <2> HIDE DEF S
  <2>1. IsFiniteSet(S)
    BY <1>6, FS_Subset
  <2>2. IsFiniteSet(S \cup {0}) /\ S \cup {0} = D
    BY <2>1, FS_AddElement
  <2> QED  BY <2>2
<1>8. D \subseteq Int /\ D # {}
  BY <1>6
<1>9. m - 1 \in D
  <2>1. CASE m = 1
    BY <2>1
  <2>2. CASE m > 1
    <3>1. m - 1 \in 1 .. m - 1 /\ m - 1 \in 1 .. n + 1 /\ m - 1 <= m
      BY <1>1, <1>4, <1>5, <2>2
    <3>2. plan[a][m - 1] = f[a][m - 1]
      BY <1>1, <3>1
    <3> QED  BY <1>3, <1>5, <3>1, <3>2
  <2> QED  BY <1>4, <2>1, <2>2
<1>10. PathCost(plan[a], task.goal[a]) = Max(D)
  BY DEF PathCost
<1> HIDE DEF D
<1>11. Max(D) \in Int /\ m - 1 <= Max(D)
  BY <1>7, <1>8, <1>9, LargestExists
<1> QED  BY <1>4, <1>10, <1>11 DEF plan, m

LEMMA FleetCost ==
    ASSUME task \in Instances, NEW f \in Chosen
    PROVE  SumOfCosts(BuildPlan(f)) >=
           SumFunction([a \in Agents |-> Min({Len(p) : p \in Paths(a)}) - 1])
<1> DEFINE plan == BuildPlan(f)
           g == [a \in Agents |-> Min({Len(p) : p \in Paths(a)}) - 1]
           h == [a \in Agents |-> PathCost(plan[a], task.goal[a])]
<1>1. ASSUME NEW a \in Agents PROVE g[a] \in Int /\ h[a] \in Int /\ g[a] <= h[a]
  <2> DEFINE L == {Len(p) : p \in Paths(a)}
  <2>1. f[a] \in Paths(a)
    BY DEF Chosen
  <2>2. Len(f[a]) \in L /\ L \subseteq Int /\ IsFiniteSet(L)
    BY <2>1, LengthsAreFinite
  <2> HIDE DEF L
  <2>3. Min(L) \in Int /\ Min(L) <= Len(f[a])
    BY <2>2, SmallestExists
  <2>4. g[a] = Min(L) - 1 /\ h[a] = PathCost(plan[a], task.goal[a])
    BY DEF L
  <2>5. /\ PathCost(plan[a], task.goal[a]) \in Int
        /\ Len(f[a]) \in Int /\ Len(f[a]) - 1 <= PathCost(plan[a], task.goal[a])
    BY CostIsLength
  <2> HIDE DEF g, h, plan
  <2> QED  BY <2>3, <2>4, <2>5
<1>2. DOMAIN g = Agents /\ DOMAIN h = Agents
  OBVIOUS
<1>3. SumOfCosts(plan) = SumFunction(h)
  BY DEF SumOfCosts
<1> HIDE DEF g, h, plan
<1>4. SumFunctionOnSet(g, Agents) <= SumFunctionOnSet(h, Agents)
  BY <1>1, AgentsAssumption, SumMonotone
<1>5. SumFunctionOnSet(g, Agents) \in Int /\ SumFunctionOnSet(h, Agents) \in Int
  BY <1>1, AgentsAssumption, SumType
<1>6. SumFunction(g) = SumFunctionOnSet(g, Agents) /\ SumFunction(h) = SumFunctionOnSet(h, Agents)
  BY <1>2, SumWhole
<1> QED  BY <1>3, <1>4, <1>5, <1>6 DEF g, plan

(* What the browser is told is what it can play back: a success is printed   *)
(* for exactly the plans without a conflict, every agent goes from its start *)
(* to its goal in the steps announced, no collision is shown, the fleet is   *)
(* no cheaper than its shortest paths, and a process that prints nothing     *)
(* never had a plan (solve_stream.cpp:152-174).                              *)
THEOREM TrueDoneEvent == StaticSpec => []DoneEventIsTrue
<1>1. StreamInv => DoneEventIsTrue
  <2> SUFFICES ASSUME StreamInv PROVE DoneEventIsTrue
    OBVIOUS
  <2>1. ASSUME event.told
        PROVE  /\ event.success <=> event.conflicts = 0
               /\ event.success <=> exit = "0"
               /\ \A a \in Agents :
                    /\ Len(event.paths[a]) = event.steps + 1
                    /\ FrameAt(0)[a] = task.start[a] /\ FrameAt(event.steps)[a] = task.goal[a]
               /\ event.conflicts = 0 =>
                    \A t \in 1 .. event.steps : StepOk(FrameAt(t - 1), FrameAt(t))
               /\ event.costs >= SumFunction([a \in Agents |->
                                    Min({Len(p) : p \in Paths(a)}) - 1])
    <3>1. exit \in {"0", "1"}
      <4>1. event # NoEvent
        BY <2>1 DEF NoEvent
      <4> QED  BY <4>1 DEF StreamInv, TellInv
    <3>2. event = Told /\ result.plan # <<>>
      BY <3>1 DEF StreamInv, TellInv
    <3>3. result.iterations > 0 /\ task \in Instances
      BY <3>2 DEF StreamInv, HybridInv, KeptInv
    <3>4. PICK f \in Chosen : result.plan = BuildPlan(f)
      BY <3>3 DEF StreamInv, HybridInv, KeptInv, Plans
    <3> DEFINE plan == result.plan
               n == Makespan(f)
               violations == Verify(task.start, task.goal, plan)
    <3>5. IsPlan(plan, n) /\ Makespan(plan) = n /\ n \in Nat
      BY <3>3, <3>4, PlanIsPlan, PlanMakespan
    <3>6. result.verification = violations
      BY <3>3 DEF StreamInv, HybridInv, KeptInv
    <3>7. /\ event.steps = Makespan(plan) /\ event.costs = SumOfCosts(plan) /\ event.paths = plan
          /\ event.conflicts = Cardinality(Listed(violations))
      BY <3>2 DEF Told
    <3>8. event.success <=> result.success
      BY <3>2 DEF Told
    <3>9. event.conflicts = 0 <=> violations = {}
      BY <3>3, <3>4, <3>7, ListedPairs
    <3>10. result.success <=> violations = {}
      <4>1. result.success => violations = {}
        BY <3>6 DEF StreamInv, HybridInv, KeptInv
      <4>2. violations = {} => result.success
        BY <3>3, <3>6 DEF StreamInv, StopsAtSuccess
      <4> QED  BY <4>1, <4>2
    <3>11. exit = "0" <=> result.success
      BY <3>1 DEF StreamInv, TellInv
    <3> HIDE DEF n, plan, violations
    <3>12. ASSUME NEW a \in Agents
           PROVE  /\ Len(event.paths[a]) = event.steps + 1
                  /\ FrameAt(0)[a] = task.start[a] /\ FrameAt(event.steps)[a] = task.goal[a]
      <4>1. Len(plan[a]) = n + 1 /\ plan[a][1] = task.start[a] /\ plan[a][n + 1] = task.goal[a]
        BY <3>5 DEF IsPlan
      <4>2. FrameAt(0)[a] = plan[a][1] /\ FrameAt(n)[a] = plan[a][n + 1]
        BY <3>7 DEF FrameAt
      <4> QED  BY <3>5, <3>7, <4>1, <4>2
    <3>13. ASSUME event.conflicts = 0, NEW t \in 1 .. event.steps
           PROVE  StepOk(FrameAt(t - 1), FrameAt(t))
      <4>1. violations = {} /\ t \in 1 .. n
        BY <3>5, <3>7, <3>9, <3>13
      <4>2. StepOk([a \in Agents |-> plan[a][t]], [a \in Agents |-> plan[a][t + 1]])
        BY <3>5, <4>1, NoViolationNoCollision DEF violations
      <4>3. (t - 1) + 1 = t
        BY <3>5, <4>1
      <4>4. /\ FrameAt(t - 1) = [a \in Agents |-> plan[a][t]]
            /\ FrameAt(t) = [a \in Agents |-> plan[a][t + 1]]
        BY <3>7, <4>3 DEF FrameAt
      <4> QED  BY <4>2, <4>4
    <3>14. event.costs >= SumFunction([a \in Agents |-> Min({Len(p) : p \in Paths(a)}) - 1])
      BY <3>3, <3>4, <3>7, FleetCost DEF plan
    <3>15. event.success <=> event.conflicts = 0
      BY <3>8, <3>9, <3>10
    <3>16. event.success <=> exit = "0"
      BY <3>8, <3>11
    <3> QED  BY <3>12, <3>13, <3>14, <3>15, <3>16
  <2>2. exit = "killed" <=> pc = "done" /\ exit # "running" /\ result.iterations = 0
    <3>1. result.plan = <<>> <=> result.iterations = 0
      <4>1. result.iterations > 0 => result.plan # <<>>
        BY RoundPlan DEF StreamInv, HybridInv, KeptInv, Plans
      <4> QED  BY <4>1 DEF StreamInv, HybridInv, KeptInv
    <3> QED  BY <3>1 DEF StreamInv, TellInv
  <2> QED  BY <2>1, <2>2 DEF DoneEventIsTrue
<1> QED  BY <1>1, StreamInvHolds, PTL
=============================================================================
