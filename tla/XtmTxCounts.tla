---------------------------- MODULE XtmTxCounts ----------------------------
(***************************************************************************)
(* The counters of the transmit rings, for every number of devices, queues *)
(* and buffers: who uses a ring, how many rings there are, how many        *)
(* buffers are queued on all of them.  XtmTxProofs shows that every step   *)
(* keeps the invariant Counts, given facts about sums over the rings and   *)
(* about numbers of users (its Facts).  Here they are proved, from the     *)
(* recursion of MapThenSumSet and the library's theorems on finite sets,   *)
(* and the theorems follow.                                                *)
(***************************************************************************)
EXTENDS XtmTxProofs, FiniteSetTheorems

------------------------------------------------------------------------------
\* Sums over a finite set, by the recursion of MapThenSumSet.  Induction is by a smallest
\* counterexample: a subset all of whose proper subsets are none.
LEMMA Smallest ==
  ASSUME NEW D, IsFiniteSet(D), NEW B \in SUBSET (SUBSET D), B # {}
  PROVE  \E s \in B : \A t \in SUBSET s : t # s => t \notin B
<1>1. IsWellFoundedOn(StrictSubsetOrdering(D), SUBSET D)
  BY FS_StrictSubsetOrderingWellFounded, FS_FiniteSubsetsOfFinite, Zenon
<1>2. PICK s \in B : \A t \in B : ~(<<t, s>> \in StrictSubsetOrdering(D))
  BY <1>1, WFMin
<1>3. ASSUME NEW t \in SUBSET s, t # s, t \in B PROVE FALSE
  <2>1. t \in SUBSET D /\ s \in SUBSET D
    BY <1>3
  <2>. QED BY <1>2, <1>3, <2>1, Zenon DEF StrictSubsetOrdering
<1>. QED BY <1>3

Pick(s) == CHOOSE x \in s : TRUE
IsSum(it, f, D) ==
  it = [s \in SUBSET D |-> IF s = {} THEN 0 ELSE f[Pick(s)] + it[s \ {Pick(s)}]]
Sum(f, D) == (CHOOSE it : IsSum(it, f, D))[D]

\* The element that a step of the recursion takes is one of the set.
LEMMA PickIn == ASSUME NEW s, s # {} PROVE Pick(s) \in s
  BY DEF Pick

\* Two such functions agree where both are defined.
LEMMA SumsAgree ==
  ASSUME NEW D, IsFiniteSet(D), NEW E \in SUBSET D, NEW f, NEW g, \A x \in E : f[x] = g[x],
         NEW a, IsSum(a, f, D), NEW b, IsSum(b, g, E)
  PROVE  a[E] = b[E]
<1>. DEFINE B == {s \in SUBSET E : a[s] # b[s]}
<1>1. ASSUME B # {} PROVE FALSE
  <2>1. PICK s \in B : \A t \in SUBSET s : t # s => t \notin B
    <3>1. B \in SUBSET (SUBSET D)
      OBVIOUS
    <3>. HIDE DEF B
    <3>. QED BY <1>1, <3>1, Smallest
  <2>2. s \in SUBSET E /\ s \in SUBSET D /\ a[s] # b[s]
    OBVIOUS
  <2>3. CASE s = {}
    BY <2>2, <2>3 DEF IsSum
  <2>4. CASE s # {}
    <3>1. Pick(s) \in s
      BY <2>4, PickIn
    <3>2. s \ {Pick(s)} \in SUBSET s /\ s \ {Pick(s)} # s /\ s \ {Pick(s)} \in SUBSET E
      BY <2>2, <3>1
    <3>3. a[s \ {Pick(s)}] = b[s \ {Pick(s)}]
      BY <2>1, <3>2
    <3>4. /\ a[s] = f[Pick(s)] + a[s \ {Pick(s)}]
          /\ b[s] = g[Pick(s)] + b[s \ {Pick(s)}]
      BY <2>2, <2>4, Zenon DEF IsSum
    <3>5. f[Pick(s)] = g[Pick(s)]
      BY <2>2, <3>1
    <3>. QED BY <2>2, <3>3, <3>4, <3>5
  <2>. QED BY <2>3, <2>4
<1>. QED BY <1>1

\* There is one.
LEMMA SumExists ==
  ASSUME NEW D, IsFiniteSet(D), NEW f
  PROVE  \E it : IsSum(it, f, D)
<1>. DEFINE B == {s \in SUBSET D : ~\E it : IsSum(it, f, s)}
<1>1. ASSUME B # {} PROVE FALSE
  <2>1. PICK T \in B : \A t \in SUBSET T : t # T => t \notin B
    <3>. HIDE DEF B
    <3>1. B \in SUBSET (SUBSET D)
      BY DEF B
    <3>. QED BY <1>1, <3>1, Smallest
  <2>2. T \in SUBSET D /\ ~\E it : IsSum(it, f, T)
    OBVIOUS
  <2>3. \A s \in SUBSET T : s # T => \E it : IsSum(it, f, s)
    BY <2>1, <2>2
  <2>. DEFINE c(s) == CHOOSE it : IsSum(it, f, s)
              v(s) == IF s = {} THEN 0 ELSE f[Pick(s)] + c(s \ {Pick(s)})[s \ {Pick(s)}]
              it == [s \in SUBSET T |-> v(s)]
  <2>4. ASSUME NEW s \in SUBSET T, s # T PROVE c(s)[s] = v(s)
    <3>1. IsSum(c(s), f, s)
      BY <2>3, <2>4
    <3>2. CASE s = {}
      BY <3>1, <3>2, Zenon DEF IsSum
    <3>3. CASE s # {}
      <4>. DEFINE r == s \ {Pick(s)}
      <4>1. Pick(s) \in s
        BY <3>3, PickIn
      <4>2. r \in SUBSET s /\ r # T /\ r \in SUBSET T /\ s \in SUBSET s
        BY <4>1
      <4>3. IsSum(c(r), f, r)
        BY <2>3, <4>2
      <4>4. IsFiniteSet(s)
        BY <2>2, FS_Subset
      <4>5. c(s)[r] = c(r)[r]
        <5>. HIDE DEF c, r
        <5>. QED BY <3>1, <4>2, <4>3, <4>4, SumsAgree
      <4>6. c(s)[s] = f[Pick(s)] + c(s)[r]
        <5>. HIDE DEF c
        <5>. QED BY <3>1, <3>3, <4>2, Zenon DEF IsSum
      <4>. HIDE DEF c
      <4>. QED BY <3>3, <4>5, <4>6
    <3>. QED BY <3>2, <3>3
  <2>5. IsSum(it, f, T)
    <3>1. ASSUME NEW s \in SUBSET T
          PROVE  v(s) = IF s = {} THEN 0 ELSE f[Pick(s)] + it[s \ {Pick(s)}]
      <4>1. CASE s # {}
        <5>1. s \ {Pick(s)} \in SUBSET T /\ s \ {Pick(s)} # T
          BY <4>1, PickIn
        <5>2. it[s \ {Pick(s)}] = c(s \ {Pick(s)})[s \ {Pick(s)}]
          <6>. HIDE DEF c, v
          <6>. QED BY <2>4, <5>1
        <5>. HIDE DEF c, it
        <5>. QED BY <4>1, <5>2
      <4>. QED BY <4>1
    <3>. HIDE DEF v
    <3>. QED BY <3>1, Zenon DEF IsSum
  <2>. QED BY <2>2, <2>5
<1>. QED BY <1>1

\* So Sum follows the recursion, ...
LEMMA SumRec ==
  ASSUME NEW D, IsFiniteSet(D), NEW f
  PROVE  Sum(f, D) = IF D = {} THEN 0 ELSE f[Pick(D)] + Sum(f, D \ {Pick(D)})
<1>. DEFINE a == CHOOSE it : IsSum(it, f, D)
            E == D \ {Pick(D)}
            b == CHOOSE it : IsSum(it, f, E)
<1>1. E \in SUBSET D /\ IsFiniteSet(E) /\ D \in SUBSET D
  BY FS_Subset
<1>2. IsSum(a, f, D) /\ IsSum(b, f, E)
  BY <1>1, SumExists
<1>3. Sum(f, D) = a[D] /\ Sum(f, E) = b[E]
  BY DEF Sum
<1>. HIDE DEF a, b, E
<1>4. a[E] = b[E]
  BY <1>1, <1>2, SumsAgree
<1>5. a[D] = IF D = {} THEN 0 ELSE f[Pick(D)] + a[E]
  BY <1>1, <1>2, Zenon DEF IsSum, E
<1>. QED BY <1>3, <1>4, <1>5 DEF E

\* ... depends on the values in the set only, ...
LEMMA SumSame ==
  ASSUME NEW D, IsFiniteSet(D), NEW f, NEW g, \A x \in D : f[x] = g[x]
  PROVE  Sum(f, D) = Sum(g, D)
<1>. DEFINE a == CHOOSE it : IsSum(it, f, D)
            b == CHOOSE it : IsSum(it, g, D)
<1>1. IsSum(a, f, D) /\ IsSum(b, g, D)
  BY SumExists
<1>2. Sum(f, D) = a[D] /\ Sum(g, D) = b[D]
  BY DEF Sum
<1>. HIDE DEF a, b
<1>. QED BY <1>1, <1>2, SumsAgree

\* ... is a number ...
LEMMA SumInt ==
  ASSUME NEW D, IsFiniteSet(D), NEW f, \A x \in D : f[x] \in Int
  PROVE  Sum(f, D) \in Int
<1>. DEFINE B == {s \in SUBSET D : Sum(f, s) \notin Int}
<1>1. ASSUME B # {} PROVE FALSE
  <2>1. PICK s \in B : \A t \in SUBSET s : t # s => t \notin B
    <3>. HIDE DEF B
    <3>1. B \in SUBSET (SUBSET D)
      BY DEF B
    <3>. QED BY <1>1, <3>1, Smallest
  <2>2. s \in SUBSET D /\ IsFiniteSet(s) /\ Sum(f, s) \notin Int
    BY FS_Subset
  <2>3. s # {} /\ Sum(f, s) = f[Pick(s)] + Sum(f, s \ {Pick(s)})
    <3>. HIDE DEF B
    <3>1. Sum(f, s) = IF s = {} THEN 0 ELSE f[Pick(s)] + Sum(f, s \ {Pick(s)})
      BY <2>2, SumRec, Zenon
    <3>. QED BY <2>2, <3>1
  <2>4. Pick(s) \in s /\ Pick(s) \in D
    BY <2>2, <2>3, PickIn
  <2>5. s \ {Pick(s)} \in SUBSET s /\ s \ {Pick(s)} # s /\ s \ {Pick(s)} \in SUBSET D
    BY <2>2, <2>4
  <2>6. Sum(f, s \ {Pick(s)}) \in Int
    BY <2>1, <2>5
  <2>. QED BY <2>2, <2>3, <2>4, <2>6
<1>. QED BY <1>1

\* ... and takes its elements in any order.
LEMMA SumTakes ==
  ASSUME NEW D, IsFiniteSet(D), NEW f, \A x \in D : f[x] \in Int, NEW y \in D
  PROVE  Sum(f, D) = f[y] + Sum(f, D \ {y})
<1>. DEFINE B == {s \in SUBSET D : \E z \in s : Sum(f, s) # f[z] + Sum(f, s \ {z})}
<1>1. ASSUME B # {} PROVE FALSE
  <2>1. PICK s \in B : \A t \in SUBSET s : t # s => t \notin B
    <3>. HIDE DEF B
    <3>1. B \in SUBSET (SUBSET D)
      BY DEF B
    <3>. QED BY <1>1, <3>1, Smallest
  <2>2. PICK z \in s : Sum(f, s) # f[z] + Sum(f, s \ {z})
    OBVIOUS
  <2>. DEFINE x == Pick(s)
              u == s \ {x, z}
  <2>3. s \in SUBSET D /\ IsFiniteSet(s)
    BY FS_Subset
  <2>4. Sum(f, s) = f[x] + Sum(f, s \ {x}) /\ x \in s
    BY <2>2, <2>3, SumRec, PickIn, Zenon
  <2>. HIDE DEF x
  <2>5. x # z
    BY <2>2, <2>4, Zenon
  <2>6. s \ {x} \notin B /\ s \ {z} \notin B
    BY <2>1, <2>2, <2>4, Zenon
  <2>7. \A t \in SUBSET D : t \notin B => \A w \in t : Sum(f, t) = f[w] + Sum(f, t \ {w})
    BY Zenon
  <2>. HIDE DEF B
  <2>8. (s \ {x}) \ {z} = u /\ (s \ {z}) \ {x} = u
    OBVIOUS
  <2>9. Sum(f, s \ {x}) = f[z] + Sum(f, u)
    BY <2>2, <2>3, <2>5, <2>6, <2>7, <2>8
  <2>10. Sum(f, s \ {z}) = f[x] + Sum(f, u)
    BY <2>3, <2>4, <2>5, <2>6, <2>7, <2>8
  <2>11. Sum(f, u) \in Int /\ f[x] \in Int /\ f[z] \in Int
    <3>1. u \in SUBSET D /\ IsFiniteSet(u)
      BY <2>3, FS_Subset
    <3>2. \A w \in u : f[w] \in Int
      BY <3>1
    <3>. HIDE DEF u
    <3>. QED BY <2>3, <2>4, <3>1, <3>2, SumInt
  <2>. HIDE DEF u
  <2>12. f[x] + (f[z] + Sum(f, u)) = f[z] + (f[x] + Sum(f, u))
    BY <2>11
  <2>. QED BY <2>2, <2>4, <2>9, <2>10, <2>12, Zenon
<1>2. D \notin B
  BY <1>1
<1>. QED BY <1>2

\* The totals of the driver are such sums: of the buffers queued on the rings rg, and of the
\* packets that a reclaim of the queues S frees on them.
Qds(rg) == [q \in Queues |-> rg[q].qd]
FreedTotal(rg, S) == MapThenSumSet(LAMBDA q : Pending(rg[q]), S)
Pendings(rg, S) == [q \in S |-> Pending(rg[q])]

\* The buffers queued on all rings ...
LEMMA QdTotalIs == ASSUME NEW rg PROVE QdTotal(rg) = Sum(Qds(rg), Queues)
<1>. DEFINE f == Qds(rg)
            R(it) == it = [s \in SUBSET Queues |->
                             IF s = {} THEN 0
                             ELSE rg[Pick(s)].qd + it[s \ {Pick(s)}]]
            a == CHOOSE it : R(it)
            b == CHOOSE it : IsSum(it, f, Queues)
<1>1. QdTotal(rg) = a[Queues]
  BY DEF QdTotal, MapThenSumSet, MapThenFoldSet, Pick
<1>2. IsSum(b, f, Queues) /\ IsFiniteSet(Queues)
  BY SumExists, XtmTxAssumption
<1>3. ASSUME NEW it PROVE R(it) <=> IsSum(it, f, Queues)
  <2>1. ASSUME NEW s \in SUBSET Queues, s # {} PROVE rg[Pick(s)].qd = f[Pick(s)]
    BY <2>1, PickIn DEF Qds
  <2>. HIDE DEF f
  <2>. QED BY <2>1 DEF IsSum
<1>4. IsSum(a, f, Queues)
  BY <1>2, <1>3, Zenon
<1>5. Sum(f, Queues) = b[Queues]
  BY DEF Sum
<1>. HIDE DEF a, b, f
<1>6. a[Queues] = b[Queues]
  BY <1>2, <1>4, SumsAgree
<1>. QED BY <1>1, <1>5, <1>6 DEF f

\* ... and the packets that a reclaim frees.
LEMMA FreedTotalIs ==
  ASSUME NEW rg, NEW S \in SUBSET Queues
  PROVE  FreedTotal(rg, S) = Sum(Pendings(rg, S), S) /\ IsFiniteSet(S)
<1>. DEFINE f == Pendings(rg, S)
            R(it) == it = [s \in SUBSET S |->
                             IF s = {} THEN 0
                             ELSE Pending(rg[Pick(s)]) + it[s \ {Pick(s)}]]
            a == CHOOSE it : R(it)
            b == CHOOSE it : IsSum(it, f, S)
<1>1. FreedTotal(rg, S) = a[S]
  BY DEF FreedTotal, MapThenSumSet, MapThenFoldSet, Pick
<1>2. IsFiniteSet(S)
  BY XtmTxAssumption, FS_Subset
<1>3. IsSum(b, f, S)
  BY <1>2, SumExists
<1>4. ASSUME NEW it PROVE R(it) <=> IsSum(it, f, S)
  <2>1. ASSUME NEW s \in SUBSET S, s # {} PROVE Pending(rg[Pick(s)]) = f[Pick(s)]
    BY <2>1, PickIn DEF Pendings
  <2>. HIDE DEF f
  <2>. QED BY <2>1 DEF IsSum
<1>5. IsSum(a, f, S)
  BY <1>3, <1>4, Zenon
<1>6. Sum(f, S) = b[S]
  BY DEF Sum
<1>. HIDE DEF a, b, f
<1>7. a[S] = b[S]
  BY <1>2, <1>3, <1>5, SumsAgree
<1>. QED BY <1>1, <1>2, <1>6, <1>7 DEF f

------------------------------------------------------------------------------
\* Sums of values that are equal up to the range are equal up to it.
LEMMA CongSum ==
  ASSUME NEW a \in Int, NEW b \in Int, NEW c \in Int, NEW d \in Int, Cong(a, b), Cong(c, d)
  PROVE  Cong(a + c, b + d) /\ Cong(a - c, b - d)
<1>0. U32 \in Int
  BY Size
<1>1. PICK k \in Int : a = b + k * U32
  BY CongIs
<1>2. PICK l \in Int : c = d + l * U32
  BY CongIs
<1>3. /\ (k + l) * U32 = k * U32 + l * U32 /\ (k - l) * U32 = k * U32 - l * U32
      /\ k * U32 \in Int /\ l * U32 \in Int
  BY <1>0
<1>4. a + c = (b + d) + (k + l) * U32 /\ a - c = (b - d) + (k - l) * U32
  BY <1>1, <1>2, <1>3
<1>5. /\ a + c \in Int /\ b + d \in Int /\ a - c \in Int /\ b - d \in Int
      /\ k + l \in Int /\ k - l \in Int
  OBVIOUS
<1>. QED BY <1>4, <1>5, CongIs

\* Two values of an unsigned counter that are equal up to its range are equal.
LEMMA CongSmall ==
  ASSUME NEW a \in 0 .. U32 - 1, NEW b \in 0 .. U32 - 1, Cong(a, b)
  PROVE  a = b
<1>0. U32 \in Nat \ {0} /\ a \in Int /\ b \in Int
  BY Size
<1>1. PICK k \in Int : a = b + k * U32
  BY <1>0, CongIs, Zenon
<1>2. (k >= 1 => k * U32 >= U32) /\ (k <= -1 => k * U32 <= -U32) /\ k * U32 \in Int
  BY <1>0
<1>3. k = 0
  BY <1>0, <1>1, <1>2
<1>. QED BY <1>0, <1>1, <1>3

\* One value of the sum changes.
LEMMA SumOne ==
  ASSUME NEW D, IsFiniteSet(D), NEW f, NEW g, NEW y \in D,
         \A x \in D : f[x] \in Int /\ g[x] \in Int, \A x \in D \ {y} : g[x] = f[x]
  PROVE  Sum(g, D) = Sum(f, D) + (g[y] - f[y]) /\ Sum(f, D) \in Int
<1>. DEFINE E == D \ {y}
<1>1. IsFiniteSet(E) /\ \A x \in E : f[x] \in Int /\ g[x] = f[x]
  BY FS_Subset
<1>2. Sum(g, D) = g[y] + Sum(g, E) /\ Sum(f, D) = f[y] + Sum(f, E)
  BY SumTakes
<1>. HIDE DEF E
<1>3. Sum(g, E) = Sum(f, E) /\ Sum(f, E) \in Int
  BY <1>1, SumSame, SumInt
<1>. QED BY <1>2, <1>3

\* The values are between 0 and c.
LEMMA SumBound ==
  ASSUME NEW D, IsFiniteSet(D), NEW c \in Nat, NEW f, \A x \in D : f[x] \in 0 .. c
  PROVE  Sum(f, D) \in 0 .. Cardinality(D) * c
<1>. DEFINE B == {s \in SUBSET D : Sum(f, s) \notin 0 .. Cardinality(s) * c}
<1>1. ASSUME B # {} PROVE FALSE
  <2>1. PICK s \in B : \A t \in SUBSET s : t # s => t \notin B
    <3>. HIDE DEF B
    <3>1. B \in SUBSET (SUBSET D)
      BY DEF B
    <3>. QED BY <1>1, <3>1, Smallest
  <2>2. s \in SUBSET D /\ IsFiniteSet(s) /\ Sum(f, s) \notin 0 .. Cardinality(s) * c
    BY FS_Subset
  <2>3. \A t \in SUBSET s : t # s => Sum(f, t) \in 0 .. Cardinality(t) * c
    BY <2>1, <2>2
  <2>. HIDE DEF B
  <2>4. CASE s = {}
    <3>1. Sum(f, s) = 0 /\ Cardinality(s) = 0
      BY <2>2, <2>4, SumRec, FS_EmptySet
    <3>. QED BY <2>2, <3>1
  <2>5. CASE s # {}
    <3>1. PICK x : x \in s
      BY <2>5
    <3>. DEFINE t == s \ {x}
    <3>2. Sum(f, s) = f[x] + Sum(f, t)
      BY <2>2, <3>1, SumTakes
    <3>3. IsFiniteSet(t) /\ Cardinality(t) = Cardinality(s) - 1 /\ Cardinality(t) \in Nat
          /\ Cardinality(s) \in Nat
      BY <2>2, <3>1, FS_RemoveElement, FS_CardinalityType
    <3>4. Sum(f, t) \in 0 .. Cardinality(t) * c
      BY <2>3, <3>1
    <3>. HIDE DEF t
    <3>. DEFINE n == Cardinality(s)
                m == Cardinality(t)
    <3>5. n * c = m * c + c /\ m * c \in Nat
      <4>1. n = m + 1 /\ m \in Nat
        BY <3>3
      <4>. HIDE DEF n, m
      <4>. QED BY <4>1
    <3>6. f[x] \in 0 .. c
      BY <2>2, <3>1
    <3>. QED BY <2>2, <3>2, <3>4, <3>5, <3>6
  <2>. QED BY <2>4, <2>5
<1>2. D \notin B
  BY <1>1
<1>. QED BY <1>2

\* Every value in S is reduced by h, in unsigned arithmetic.
LEMMA SumReduced ==
  ASSUME NEW D, IsFiniteSet(D), NEW S \in SUBSET D, NEW f, NEW g, NEW h,
         \A x \in D : f[x] \in Int /\ g[x] \in Int, \A x \in S : h[x] \in Int,
         \A x \in D \ S : g[x] = f[x], \A x \in S : Cong(g[x], f[x] - h[x])
  PROVE  Cong(Sum(g, D), Sum(f, D) - Sum(h, S)) /\ Sum(h, S) \in Int
<1>0. ASSUME NEW s \in SUBSET D
      PROVE  /\ IsFiniteSet(s) /\ IsFiniteSet(S \cap s)
             /\ Sum(g, s) \in Int /\ Sum(f, s) \in Int /\ Sum(h, S \cap s) \in Int
  <2>1. IsFiniteSet(s) /\ IsFiniteSet(S \cap s)
    BY FS_Subset
  <2>. QED BY <2>1, SumInt
<1>. DEFINE B == {s \in SUBSET D : ~Cong(Sum(g, s), Sum(f, s) - Sum(h, S \cap s))}
<1>1. ASSUME B # {} PROVE FALSE
  <2>1. PICK s \in B : \A t \in SUBSET s : t # s => t \notin B
    <3>. HIDE DEF B
    <3>1. B \in SUBSET (SUBSET D)
      BY DEF B
    <3>. QED BY <1>1, <3>1, Smallest
  <2>2. s \in SUBSET D /\ ~Cong(Sum(g, s), Sum(f, s) - Sum(h, S \cap s))
    OBVIOUS
  <2>3. \A t \in SUBSET s : t # s => Cong(Sum(g, t), Sum(f, t) - Sum(h, S \cap t))
    BY <2>1, <2>2
  <2>. HIDE DEF B
  <2>4. CASE s = {}
    <3>1. Sum(g, s) = 0 /\ Sum(f, s) = 0 /\ Sum(h, S \cap s) = 0
      <4>1. S \cap s = {} /\ IsFiniteSet({})
        BY <2>4, FS_EmptySet
      <4>. QED BY <2>4, <4>1, SumRec, Zenon
    <3>. QED BY <2>2, <3>1, CongSame
  <2>5. CASE s # {}
    <3>1. PICK x : x \in s
      BY <2>5
    <3>. DEFINE t == s \ {x}
    <3>2. t \in SUBSET D /\ Cong(Sum(g, t), Sum(f, t) - Sum(h, S \cap t))
      BY <2>2, <2>3, <3>1
    <3>3. Sum(g, s) = g[x] + Sum(g, t) /\ Sum(f, s) = f[x] + Sum(f, t)
      <4>1. IsFiniteSet(s) /\ \A z \in s : f[z] \in Int /\ g[z] \in Int
        BY <1>0, <2>2
      <4>. QED BY <3>1, <4>1, SumTakes
    <3>4. /\ Sum(g, t) \in Int /\ Sum(f, t) \in Int /\ Sum(h, S \cap t) \in Int
          /\ g[x] \in Int /\ f[x] \in Int
      BY <1>0, <2>2, <3>1, <3>2, Zenon
    <3>5. CASE x \in S
      <4>1. S \cap s \in SUBSET S /\ x \in S \cap s /\ (S \cap s) \ {x} = S \cap t
        BY <3>1, <3>5
      <4>2. IsFiniteSet(S \cap s) /\ \A z \in S \cap s : h[z] \in Int
        BY <1>0, <2>2
      <4>3. Sum(h, S \cap s) = h[x] + Sum(h, S \cap t)
        BY <4>1, <4>2, SumTakes
      <4>4. Cong(g[x], f[x] - h[x]) /\ h[x] \in Int
        BY <3>5
      <4>. HIDE DEF t
      <4>5. Cong(g[x] + Sum(g, t), (f[x] - h[x]) + (Sum(f, t) - Sum(h, S \cap t)))
        <5>1. f[x] - h[x] \in Int /\ Sum(f, t) - Sum(h, S \cap t) \in Int
          BY ONLY <3>4, <4>4
        <5>. QED BY <3>2, <3>4, <4>4, <5>1, CongSum, Zenon
      <4>6. (f[x] - h[x]) + (Sum(f, t) - Sum(h, S \cap t)) = Sum(f, s) - Sum(h, S \cap s)
        BY <3>3, <3>4, <4>3, <4>4
      <4>. QED BY <2>2, <3>3, <4>5, <4>6
    <3>6. CASE x \notin S
      <4>1. S \cap s = S \cap t /\ g[x] = f[x]
        BY <2>2, <3>1, <3>6
      <4>. HIDE DEF t
      <4>2. Cong(g[x] + Sum(g, t), f[x] + (Sum(f, t) - Sum(h, S \cap t)))
        <5>1. Sum(f, t) - Sum(h, S \cap t) \in Int /\ Cong(g[x], f[x])
          BY <3>4, <4>1, CongSame
        <5>. QED BY <3>2, <3>4, <5>1, CongSum, Zenon
      <4>3. f[x] + (Sum(f, t) - Sum(h, S \cap t)) = Sum(f, s) - Sum(h, S \cap s)
        BY <3>3, <3>4, <4>1
      <4>. QED BY <2>2, <3>3, <4>2, <4>3
    <3>. QED BY <3>5, <3>6
  <2>. QED BY <2>4, <2>5
<1>2. D \notin B /\ S \cap D = S
  BY <1>1, Zenon
<1>. QED BY <1>0, <1>2, Zenon

------------------------------------------------------------------------------
\* Reclaiming frees less than a ring of packets, whatever is on the ring.
LEMMA PendingType ==
  ASSUME NEW r \in RingType
  PROVE  Pending(r) \in Idx /\ Pending(r) \in Nat
<1>. DEFINE S == {Dist(r.curr, i) : i \in {j \in Idx : Stops(r, j)}}
<1>1. r.curr \in Idx /\ r.tail \in Idx
  BY DEF RingType
<1>2. S \subseteq Idx /\ S \subseteq Nat
  BY <1>1, DistIdx
<1>3. Dist(r.curr, r.tail) \in S
  BY <1>1 DEF Stops
<1>4. Pending(r) = Min(S)
  BY DEF Pending
<1>. DEFINE R == {ss \in Nat \X Nat : ss[1] < ss[2]}
<1>. HIDE DEF S
<1>5. \E x \in S : \A y \in S : ~(<<y, x>> \in R)
  <2>1. IsWellFoundedOn(R, Nat)
    BY NatLessThanWellFounded DEF OpToRel
  <2>. HIDE DEF R
  <2>. QED BY <1>2, <1>3, <2>1, WFMin, Zenon
<1>6. \E x \in S : \A y \in S : x <= y
  <2>1. \A x, y \in Nat : ~(<<y, x>> \in R) => x <= y
    OBVIOUS
  <2>. HIDE DEF R
  <2>. QED BY <1>2, <1>5, <2>1, Zenon
<1>7. Min(S) \in S
  BY <1>6 DEF Min
<1>. QED BY <1>2, <1>4, <1>7, Zenon

\* The reclaim loop takes what it frees off the ring's count.
LEMMA ReclaimMoves ==
  ASSUME NEW r \in RingType
  PROVE  /\ Moves(r, Reclaimed(r, Pending(r)))
         /\ Reclaimed(r, Pending(r)).head = r.head
         /\ Cong(Reclaimed(r, Pending(r)).qd, r.qd - Pending(r))
<1>. DEFINE n == Pending(r)
            t == Reclaimed(r, n)
<1>1. n \in Nat /\ n \in Idx
  BY PendingType
<1>. HIDE DEF n
<1>2. r.curr \in Idx /\ r.qd \in 0 .. U32 - 1 /\ r.qd \in Int
  BY Size DEF RingType
<1>3. Adv(r.curr, n) \in Idx
  BY <1>1, <1>2, Size DEF Adv, Idx
<1>4. (r.qd - n) % U32 \in 0 .. U32 - 1 /\ Cong((r.qd - n) % U32, r.qd - n)
  BY <1>1, <1>2, r.qd - n \in Int, CongSame, CongMod
<1>5. [i \in Idx |-> IF Dist(r.curr, i) < n THEN "null" ELSE r.slot[i]]
        \in [Idx -> {"null", "live", "freed"}]
  BY DEF RingType
<1>6. t = [r EXCEPT !.curr = Adv(r.curr, n), !.qd = (r.qd - n) % U32,
                    !.slot = [i \in Idx |-> IF Dist(r.curr, i) < n THEN "null" ELSE r.slot[i]]]
  BY DEF Reclaimed
<1>7. t \in RingType /\ t.mem = r.mem /\ t.use = r.use /\ t.head = r.head /\ t.qd = (r.qd - n) % U32
  BY <1>3, <1>4, <1>5, <1>6, Zenon DEF RingType
<1>. QED BY <1>4, <1>7 DEF n, Moves

\* One ring's buffers queued, and the total, change alike.
LEMMA OneMovesHolds == OneMoves
<1>. SUFFICES ASSUME NEW rg, NEW all, NEW t, NEW sum, NEW q \in Queues, NEW n \in Int,
                     /\ Moved(rg, all) /\ Moves(rg[q], t) /\ (rg[q].mem \/ t.qd = rg[q].qd)
                     /\ Cong(t.qd, rg[q].qd + n) /\ sum \in 0 .. U32 - 1 /\ Cong(sum, all + n)
              PROVE  Moved([rg EXCEPT ![q] = t], sum)
  BY Zenon DEF OneMoves
<1>. DEFINE rt == [rg EXCEPT ![q] = t]
            f == Qds(rg)
            g == Qds(rt)
<1>1. /\ rg \in [Queues -> RingType] /\ all \in 0 .. U32 - 1
      /\ \A p \in Queues : (~rg[p].mem => rg[p].qd = 0) /\ Moves(ring[p], rg[p])
      /\ ~skewed => Cong(all, QdTotal(rg))
      /\ t \in RingType /\ t.mem = rg[q].mem /\ t.use = rg[q].use
  BY DEF Moved, Fine, Moves
<1>2. rt \in [Queues -> RingType] /\ rt[q] = t /\ \A p \in Queues \ {q} : rt[p] = rg[p]
  BY <1>1
<1>. HIDE DEF rt
<1>3. /\ \A p \in Queues : f[p] = rg[p].qd /\ g[p] = rt[p].qd
      /\ \A p \in Queues : f[p] \in Int /\ g[p] \in Int
      /\ \A p \in Queues \ {q} : g[p] = f[p]
  <2>1. \A r \in RingType : r.qd \in Int
    BY Size DEF RingType
  <2>. QED BY <1>1, <1>2, <2>1 DEF Qds
<1>. HIDE DEF f, g
<1>4. Sum(g, Queues) = Sum(f, Queues) + (g[q] - f[q]) /\ Sum(f, Queues) \in Int
  BY <1>3, XtmTxAssumption, SumOne
<1>5. QdTotal(rg) = Sum(f, Queues) /\ QdTotal(rt) = Sum(g, Queues)
  BY QdTotalIs DEF f, g
<1>6. ~skewed => Cong(sum, QdTotal(rt))
  <2>. SUFFICES ASSUME ~skewed PROVE Cong(sum, Sum(g, Queues))
    BY <1>5
  <2>. DEFINE s == Sum(f, Queues)
              x == f[q]
              y == g[q]
  <2>1. /\ s \in Int /\ x \in Int /\ y \in Int /\ all \in Int /\ sum \in Int
        /\ Cong(y, x + n) /\ Cong(all, s) /\ Cong(sum, all + n)
        /\ Sum(g, Queues) = s + (y - x)
    BY <1>1, <1>2, <1>3, <1>4, <1>5, Size
  <2>. HIDE DEF s, x, y
  <2>2. PICK j \in Int : y = (x + n) + j * U32
    BY <2>1, x + n \in Int, CongIs
  <2>3. PICK k \in Int : all = s + k * U32
    BY <2>1, CongIs
  <2>4. PICK l \in Int : sum = (all + n) + l * U32
    BY <2>1, all + n \in Int, CongIs
  <2>5. /\ ((k + l) - j) * U32 = k * U32 + l * U32 - j * U32 /\ (k + l) - j \in Int
        /\ k * U32 \in Int /\ l * U32 \in Int /\ j * U32 \in Int
    BY Size
  <2>6. sum = (s + (y - x)) + ((k + l) - j) * U32
    BY <2>1, <2>2, <2>3, <2>4, <2>5
  <2>. QED BY <2>1, <2>5, <2>6, s + (y - x) \in Int, CongIs
<1>7. \A p \in Queues : (~rt[p].mem => rt[p].qd = 0) /\ Moves(ring[p], rt[p])
  BY <1>1, <1>2 DEF Moves
<1>8. Moved(rt, sum)
  BY <1>2, <1>6, <1>7 DEF Moved, Fine
<1>. QED BY <1>8 DEF rt

\* Queues are reclaimed with softirqs off.
LEMMA ReclaimMovedHolds == ReclaimMoved
<1>. SUFFICES ASSUME Fine(ring, qdAll), NEW S \in SUBSET Queues, Backed(S)
              PROVE  /\ Moved(AfterReclaim(S), QdAllAfter(S))
                     /\ \A q \in Queues : AfterReclaim(S)[q].head = ring[q].head
  BY Zenon DEF ReclaimMoved
<1>. DEFINE rg == AfterReclaim(S)
            f == Qds(ring)
            g == Qds(rg)
            h == Pendings(ring, S)
<1>0. /\ ring \in [Queues -> RingType] /\ qdAll \in 0 .. U32 - 1 /\ qdAll \in Int
      /\ \A q \in Queues : ~ring[q].mem => ring[q].qd = 0
      /\ ~skewed => Cong(qdAll, QdTotal(ring))
  BY Size DEF Fine
<1>1. ASSUME NEW q \in Queues
      PROVE  /\ Moves(ring[q], rg[q]) /\ rg[q].head = ring[q].head
             /\ q \in S => Cong(rg[q].qd, ring[q].qd - Pending(ring[q])) /\ Pending(ring[q]) \in Int
             /\ q \notin S => rg[q] = ring[q]
  <2>1. CASE q \in S
    <3>1. ring[q] \in RingType /\ rg[q] = Reclaimed(ring[q], Pending(ring[q]))
      BY <1>0, <2>1 DEF AfterReclaim
    <3>. HIDE DEF rg
    <3>. QED BY <2>1, <3>1, ReclaimMoves, PendingType
  <2>2. CASE q \notin S
    BY <1>0, <2>2 DEF AfterReclaim, Moves
  <2>. QED BY <2>1, <2>2
<1>2. rg \in [Queues -> RingType]
  <2>1. rg = [q \in Queues |-> rg[q]]
    BY DEF AfterReclaim
  <2>. HIDE DEF rg
  <2>. QED BY <1>1, <2>1 DEF Moves
<1>3. QdAllAfter(S) = (qdAll - FreedTotal(ring, S)) % U32
  BY Zenon DEF QdAllAfter, FreedTotal
<1>4. ASSUME NEW q \in Queues, ~rg[q].mem PROVE rg[q].qd = 0
  <2>1. ~ring[q].mem
    BY <1>1, <1>4 DEF Moves
  <2>. QED BY <1>0, <1>1, <2>1 DEF Backed
<1>. HIDE DEF rg
<1>5. /\ \A q \in Queues : f[q] = ring[q].qd /\ g[q] = rg[q].qd
      /\ \A q \in S : h[q] = Pending(ring[q])
  BY DEF Qds, Pendings
<1>6. /\ \A q \in Queues : f[q] \in Int /\ g[q] \in Int
      /\ \A q \in Queues \ S : g[q] = f[q]
      /\ \A q \in S : h[q] \in Int /\ Cong(g[q], f[q] - h[q])
  <2>1. \A r \in RingType : r.qd \in Int
    BY Size DEF RingType
  <2>. HIDE DEF f, g, h
  <2>. QED BY <1>0, <1>1, <1>2, <1>5, <2>1
<1>7. /\ QdTotal(ring) = Sum(f, Queues) /\ QdTotal(rg) = Sum(g, Queues)
      /\ FreedTotal(ring, S) = Sum(h, S)
  BY QdTotalIs, FreedTotalIs
<1>. HIDE DEF f, g, h
<1>8. /\ Cong(Sum(g, Queues), Sum(f, Queues) - Sum(h, S)) /\ Sum(h, S) \in Int
      /\ Sum(f, Queues) \in Int /\ Sum(g, Queues) \in Int
  BY <1>6, XtmTxAssumption, SumReduced, SumInt, Zenon
<1>9. QdAllAfter(S) \in 0 .. U32 - 1
  BY <1>0, <1>3, <1>7, <1>8, qdAll - Sum(h, S) \in Int, ModIs
<1>10. ASSUME ~skewed PROVE Cong(QdAllAfter(S), QdTotal(rg))
  <2>. DEFINE a == Sum(f, Queues)
              b == Sum(g, Queues)
              c == Sum(h, S)
  <2>1. /\ a \in Int /\ b \in Int /\ c \in Int /\ Cong(b, a - c) /\ Cong(qdAll, a)
        /\ QdAllAfter(S) = (qdAll - c) % U32 /\ QdTotal(rg) = b
    BY <1>0, <1>3, <1>7, <1>8, <1>10
  <2>. HIDE DEF a, b, c
  <2>2. PICK k \in Int : b = (a - c) + k * U32
    BY <2>1, a - c \in Int, CongIs
  <2>3. PICK l \in Int : qdAll = a + l * U32
    BY <1>0, <2>1, CongIs
  <2>4. /\ (l - k) * U32 = l * U32 - k * U32 /\ l - k \in Int
        /\ k * U32 \in Int /\ l * U32 \in Int
    BY Size
  <2>5. qdAll - c = b + (l - k) * U32
    BY <1>0, <2>1, <2>2, <2>3, <2>4
  <2>6. Cong(qdAll - c, b) /\ qdAll - c \in Int
    BY <1>0, <2>1, <2>4, <2>5, qdAll - c \in Int, CongIs
  <2>. QED BY <2>1, <2>6, CongMod
<1>11. Moved(rg, QdAllAfter(S))
  BY <1>1, <1>2, <1>4, <1>9, <1>10 DEF Moved, Fine
<1>. QED BY <1>1, <1>11 DEF rg

------------------------------------------------------------------------------
\* The number of users, and what one more or less does to it.
LEMMA UsersFiniteHolds == UsersFinite
<1>. SUFFICES ASSUME NEW tx, NEW jb, NEW q
              PROVE  /\ IsFiniteSet(UsersOf(tx, jb, q))
                     /\ Cardinality(UsersOf(tx, jb, q)) \in Nat /\ CountOf(tx, jb, q) \in Nat
                     /\ jb.pc # "unset" => CountOf(tx, jb, q) = Cardinality(UsersOf(tx, jb, q))
  BY Zenon DEF UsersFinite
<1>1. UsersOf(tx, jb, q) \subseteq Devs
  BY DEF UsersOf
<1>2. IsFiniteSet(UsersOf(tx, jb, q)) /\ Cardinality(UsersOf(tx, jb, q)) \in Nat
  BY <1>1, XtmTxAssumption, FS_Subset, FS_CardinalityType
<1>. QED BY <1>2 DEF CountOf

\* Rings have memory one by one, and fewer of them are counted as fewer.
LEMMA CountLessHolds == CountLess
<1>. SUFFICES ASSUME NEW rg, NEW rt, \A q \in Queues : rt[q].mem => rg[q].mem
              PROVE  /\ CountRings(rg) \in Nat /\ CountRings(rt) \in Nat
                     /\ CountRings(rt) <= CountRings(rg)
  BY Zenon DEF CountLess
<1>. DEFINE A == {q \in Queues : rg[q].mem}
            B == {q \in Queues : rt[q].mem}
<1>1. B \subseteq A /\ A \subseteq Queues
  OBVIOUS
<1>2. CountRings(rg) = Cardinality(A) /\ CountRings(rt) = Cardinality(B)
  BY DEF CountRings
<1>. HIDE DEF A, B
<1>. QED BY <1>1, <1>2, XtmTxAssumption, FS_Subset, FS_CardinalityType

\* A device lists queues S in addition, and becomes one more user of each.
LEMMA MoreHoldersHolds == MoreHolders
<1>. SUFFICES ASSUME NEW tx, NEW tt, NEW d, NEW S, NEW q, Enlists(tx, tt, d, S)
              PROVE  /\ q \in S => Cardinality(Holders(tt, q)) = Cardinality(Holders(tx, q)) + 1
                     /\ q \notin S => Holders(tt, q) = Holders(tx, q)
  BY Zenon DEF MoreHolders
<1>1. /\ d \in Devs /\ Range(tx[d]) \subseteq Range(tt[d]) /\ S = Range(tt[d]) \ Range(tx[d])
      /\ \A e \in Devs \ {d} : tt[e] = tx[e]
  BY DEF Enlists
<1>2. ASSUME q \in S
      PROVE  Cardinality(Holders(tt, q)) = Cardinality(Holders(tx, q)) + 1
  <2>1. Holders(tt, q) = Holders(tx, q) \cup {d} /\ d \notin Holders(tx, q)
    BY <1>1, <1>2 DEF Holders
  <2>2. IsFiniteSet(Holders(tx, q))
    BY XtmTxAssumption, FS_Subset, Holders(tx, q) \subseteq Devs DEF Holders
  <2>. QED BY <2>1, <2>2, FS_AddElement, Zenon
<1>3. ASSUME q \notin S PROVE Holders(tt, q) = Holders(tx, q)
  BY <1>1, <1>3 DEF Holders
<1>. QED BY <1>2, <1>3

\* A queue taken from a list loses this user and no other queue does.
LEMMA FewerHoldersHolds == FewerHolders
<1>. SUFFICES ASSUME NEW tx, NEW tt, NEW q, NEW d \in Devs, Delists(tx, tt, d, q)
              PROVE  /\ Cardinality(Holders(tt, q)) = Cardinality(Holders(tx, q)) - 1
                     /\ \A p \in Queues \ {q} : Holders(tt, p) = Holders(tx, p)
  BY Zenon DEF FewerHolders
<1>1. /\ q \in Range(tx[d]) /\ Range(tt[d]) = Range(tx[d]) \ {q}
      /\ \A e \in Devs \ {d} : tt[e] = tx[e]
  BY DEF Delists
<1>2. Holders(tt, q) = Holders(tx, q) \ {d} /\ d \in Holders(tx, q)
  BY <1>1 DEF Holders
<1>3. IsFiniteSet(Holders(tx, q))
  BY XtmTxAssumption, FS_Subset, Holders(tx, q) \subseteq Devs DEF Holders
<1>4. Cardinality(Holders(tt, q)) = Cardinality(Holders(tx, q)) - 1
  BY <1>2, <1>3, FS_RemoveElement
<1>5. ASSUME NEW p \in Queues \ {q} PROVE Holders(tt, p) = Holders(tx, p)
  BY <1>1 DEF Holders
<1>. QED BY <1>4, <1>5

\* One turn of the release loop takes the device from the users of the queue it passes, which
\* no other index of the list names, and from no other.
LEMMA ReleaseUsersHolds == ReleaseUsers
<1>. SUFFICES ASSUME NEW tx, NEW jb, NEW jn, NEW d, NEW q, Releases(tx, jb, jn, d, q)
              PROVE  /\ CountOf(tx, jb, q) > 0 /\ CountOf(tx, jn, q) = CountOf(tx, jb, q) - 1
                     /\ \A p \in Queues \ {q} : CountOf(tx, jn, p) = CountOf(tx, jb, p)
  BY Zenon DEF ReleaseUsers
<1>. DEFINE i == jb.i
<1>0. /\ tx \in [Devs -> Seq(Queues)] /\ d \in Devs /\ IsInjective(tx[d])
      /\ i \in Nat \ {0} /\ i \in 1 .. Len(tx[d]) /\ q = tx[d][i] /\ jb.i = i
      /\ jb.pc = "release" /\ jb.dev = d /\ jn.pc = "release" /\ jn.dev = d /\ jn.i = i + 1
      /\ tx[d] \in Seq(Queues) /\ DOMAIN tx[d] = 1 .. Len(tx[d])
  BY DEF Releases
<1>. HIDE DEF i
<1>1. \A j \in 1 .. Len(tx[d]) : tx[d][j] = q => j = i
  BY <1>0 DEF IsInjective
<1>2. d \in UsersOf(tx, jb, q) /\ d \notin UsersOf(tx, jn, q)
  <2>1. d \in UsersOf(tx, jb, q)
    BY <1>0 DEF UsersOf
  <2>2. d \notin UsersOf(tx, jn, q)
    BY <1>0, <1>1 DEF UsersOf
  <2>. QED BY <2>1, <2>2
<1>3. ASSUME NEW e \in Devs \ {d}, NEW p PROVE e \in UsersOf(tx, jn, p) <=> e \in UsersOf(tx, jb, p)
  BY <1>0 DEF UsersOf
<1>4. UsersOf(tx, jn, q) = UsersOf(tx, jb, q) \ {d}
  <2>1. UsersOf(tx, jn, q) \subseteq Devs /\ UsersOf(tx, jb, q) \subseteq Devs
    BY DEF UsersOf
  <2>. QED BY <1>2, <1>3, <2>1
<1>5. CountOf(tx, jb, q) > 0 /\ CountOf(tx, jn, q) = CountOf(tx, jb, q) - 1
  <2>1. /\ IsFiniteSet(UsersOf(tx, jb, q)) /\ Cardinality(UsersOf(tx, jb, q)) \in Nat
        /\ CountOf(tx, jb, q) = Cardinality(UsersOf(tx, jb, q))
        /\ CountOf(tx, jn, q) = Cardinality(UsersOf(tx, jn, q))
        /\ Cardinality(UsersOf(tx, jn, q)) \in Nat
    BY <1>0, UsersFiniteHolds DEF UsersFinite
  <2>2. Cardinality(UsersOf(tx, jn, q)) = Cardinality(UsersOf(tx, jb, q)) - 1
    <3>. DEFINE A == UsersOf(tx, jb, q)
    <3>1. d \in A /\ IsFiniteSet(A) /\ UsersOf(tx, jn, q) = A \ {d}
      BY <1>2, <1>4, <2>1
    <3>. HIDE DEF A
    <3>2. Cardinality(A \ {d}) = Cardinality(A) - 1
      BY ONLY <3>1, FS_RemoveElement, Zenon
    <3>. QED BY <3>1, <3>2 DEF A
  <2>. QED BY <2>1, <2>2
<1>6. ASSUME NEW p \in Queues \ {q} PROVE CountOf(tx, jn, p) = CountOf(tx, jb, p)
  <2>1. ASSUME NEW j \in 1 .. Len(tx[d]), tx[d][j] = p PROVE j < i + 1 <=> j < i
    BY <1>0, <2>1
  <2>2. d \in UsersOf(tx, jn, p) <=> d \in UsersOf(tx, jb, p)
    BY <1>0, <2>1 DEF UsersOf
  <2>3. UsersOf(tx, jn, p) \subseteq Devs /\ UsersOf(tx, jb, p) \subseteq Devs
    BY DEF UsersOf
  <2>. DEFINE A == UsersOf(tx, jn, p)
              B == UsersOf(tx, jb, p)
  <2>4. \A e \in Devs : e \in A <=> e \in B
    BY <1>3, <2>2
  <2>5. A = B
    <3>. HIDE DEF A, B
    <3>1. A \subseteq Devs /\ B \subseteq Devs
      BY <2>3 DEF A, B
    <3>. QED BY ONLY <2>4, <3>1, Zenon
  <2>. QED BY <1>0, <2>5, UsersFiniteHolds DEF UsersFinite
<1>. QED BY <1>5, <1>6

\* Nothing queued on any ring is nothing in total.
LEMMA NoneQueuedHolds == NoneQueued
<1>. SUFFICES ASSUME NEW rg, \A q \in Queues : rg[q].qd = 0 PROVE QdTotal(rg) = 0
  BY Zenon DEF NoneQueued
<1>. DEFINE f == Qds(rg)
<1>1. \A q \in Queues : f[q] \in 0 .. 0
  BY DEF Qds
<1>2. QdTotal(rg) = Sum(f, Queues)
  BY QdTotalIs
<1>. HIDE DEF f
<1>3. Sum(f, Queues) \in 0 .. Cardinality(Queues) * 0 /\ Cardinality(Queues) \in Nat
  BY <1>1, XtmTxAssumption, 0 \in Nat, SumBound, FS_CardinalityType, Zenon
<1>. QED BY <1>2, <1>3

\* Emptying the list after the last turn takes no user from a ring.
LEMMA ReleasedUsersHolds == ReleasedUsers
<1>. SUFFICES ASSUME NEW tx, NEW tt, NEW d, NEW jb, NEW jn, NEW q, Empties(tx, jb, d, tt, jn)
              PROVE  CountOf(tt, jn, q) = CountOf(tx, jb, q)
  BY Zenon DEF ReleasedUsers
<1>. USE DEF Empties
<1>1. Len(tx[d]) \in Nat
  <2>1. tx[d] \in Seq(Queues)
    OBVIOUS
  <2>. QED BY <2>1
<1>2. UsersOf(tt, jn, q) = Holders(tt, q)
  BY UsersPlain
<1>3. d \notin UsersOf(tx, jb, q) /\ d \notin Holders(tt, q)
  <2>1. \A i \in 1 .. Len(tx[d]) : i < jb.i
    BY <1>1
  <2>2. d \notin UsersOf(tx, jb, q)
    BY <2>1 DEF UsersOf
  <2>. QED BY <1>1, <2>2 DEF Holders, Range
<1>4. ASSUME NEW e \in Devs \ {d} PROVE e \in UsersOf(tx, jb, q) <=> e \in Holders(tt, q)
  <2>1. tx[e] \in Seq(Queues) /\ tt[e] = tx[e]
    BY <1>1
  <2>2. q \in Range(tx[e]) <=> \E i \in 1 .. Len(tx[e]) : tx[e][i] = q
    BY <2>1 DEF Range
  <2>. QED BY <2>1, <2>2 DEF UsersOf, Holders
<1>. DEFINE A == UsersOf(tx, jb, q)
            B == Holders(tt, q)
<1>5. A \subseteq Devs /\ B \subseteq Devs
  BY DEF UsersOf, Holders
<1>6. \A e \in Devs : e \in A <=> e \in B
  BY <1>3, <1>4
<1>7. A = B
  <2>. HIDE DEF A, B
  <2>. QED BY ONLY <1>5, <1>6, Zenon
<1>. QED BY <1>2, <1>7, UsersFiniteHolds DEF UsersFinite

------------------------------------------------------------------------------
\* Rings with the same buffers queued have the same total.
LEMMA SameTotalHolds == SameTotal
<1>. SUFFICES ASSUME NEW rg, NEW rt, \A q \in Queues : rt[q].qd = rg[q].qd
              PROVE  QdTotal(rt) = QdTotal(rg)
  BY Zenon DEF SameTotal
<1>1. Qds(rt) = Qds(rg)
  BY DEF Qds
<1>. QED BY <1>1, QdTotalIs

\* All of the facts that the proof of NextCounts takes as hypotheses.
LEMMA FactsHold == Facts
  BY OneMovesHolds, ReclaimMovedHolds, SameTotalHolds, NoneQueuedHolds, UsersFiniteHolds,
     CountLessHolds, MoreHoldersHolds, FewerHoldersHolds, ReleaseUsersHolds, ReleasedUsersHolds,
     Zenon
  DEF Facts

------------------------------------------------------------------------------
\* The invariant holds when the driver is loaded.
LEMMA InitCounts == ASSUME Init PROVE Counts
<1>1. /\ NoJob.pc = "idle" /\ NoJob.kind = "none"
  BY DEF NoJob
<1>2. /\ ring = [q \in Queues |-> Zeroed] /\ qdAll = 0 /\ numTxQs = 0 /\ job = NoJob
      /\ txq = [d \in Devs |-> <<>>] /\ prio = [d \in Devs |-> {}]
  BY DEF Init
<1>3. Flags
  BY FALSE \in BOOLEAN, Zenon DEF Init, Flags
<1>4. /\ ring \in [Queues -> RingType]
      /\ \A q \in Queues : ~ring[q].mem /\ ring[q].qd = 0 /\ ring[q].use = 0
  BY <1>2, ZeroedType
<1>5. Fine(ring, qdAll)
  <2>1. QdTotal(ring) = 0
    BY <1>4, NoneQueuedHolds DEF NoneQueued
  <2>2. Cong(qdAll, QdTotal(ring)) /\ qdAll \in 0 .. U32 - 1
    BY <1>2, <2>1, 0 \in Int, CongSame, Size
  <2>. QED BY <1>4, <2>2 DEF Fine
<1>6. Listing
  <2>1. IsInjective(<<>>)
    BY DEF IsInjective
  <2>. QED BY <1>2, <2>1 DEF Listing
<1>7. Uses
  <2>. SUFFICES ASSUME NEW q \in Queues PROVE UseFits(ring[q], CountOf(txq, job, q))
    BY DEF Uses
  <2>1. UsersOf(txq, job, q) = {}
    BY <1>2 DEF UsersOf
  <2>2. CountOf(txq, job, q) = 0
    <3>1. CountOf(txq, job, q) = Cardinality(UsersOf(txq, job, q))
      BY <1>1, <1>2, UsersFiniteHolds DEF UsersFinite
    <3>2. Cardinality({}) = 0
      BY FS_EmptySet
    <3>. QED BY <2>1, <3>1, <3>2, Zenon
  <2>. QED BY <1>4, <2>2 DEF UseFits
<1>8. RingsCounted
  <2>1. {q \in Queues : ring[q].mem} = {}
    BY <1>4
  <2>2. CountRings(ring) = 0
    BY <2>1, FS_EmptySet DEF CountRings
  <2>. QED BY <1>2, <2>2 DEF RingsCounted
<1>9. NeverRefused
  <2>1. Range(<<>>) = {}
    BY DEF Range
  <2>2. \A d \in Devs : prio[d] = Listed(d)
    BY <1>2, <2>1 DEF Listed
  <2>. QED BY <1>1, <1>2, <1>4, <2>2 DEF NeverRefused
<1>10. Window = {}
  BY <1>1, <1>2 DEF Window
<1>. QED BY <1>3, <1>5, <1>6, <1>7, <1>8, <1>9, <1>10 DEF Counts

------------------------------------------------------------------------------
\* The counts of users, rings and buffers are right in every state of the driver, up to the
\* range of the counters.
THEOREM CountsHold == Spec => [](Inv /\ Counts)
<1>1. Init => Inv /\ Counts
  BY InitInv, InitCounts
<1>2. (Inv /\ Counts) /\ [Next]_vars => (Inv /\ Counts)'
  BY NextInv, NextCounts, FactsHold
<1>. QED BY <1>1, <1>2, PTL DEF Spec

\* The driver's state keeps its types: indices stay inside their rings, the unsigned counters
\* inside their range, and every list names rings that exist.
THEOREM XtmTxTyped == Spec => []TypeOK
<1>1. Inv /\ Counts => TypeOK
  <2>. SUFFICES ASSUME Inv, Counts PROVE TypeOK
    OBVIOUS
  <2>1. /\ ring \in [Queues -> RingType] /\ qdAll \in 0 .. U32 - 1 /\ Flags
        /\ txq \in [Devs -> Seq(Queues)] /\ prio \in [Devs -> SUBSET Queues]
    BY DEF Inv, Counts, Fine
  <2>2. job.pc \in {"idle", "free", "null", "release", "count", "unset"} /\ job.dev \in Devs
    BY DEF Inv, JobOK
  <2>3. misfreed \subseteq overlap
    BY DEF Inv, FreedOnce
  <2>. QED BY <2>1, <2>2, <2>3 DEF TypeOK, Flags
<1>. QED BY <1>1, CountsHold, PTL

\* ulUseCount of a ring with memory is the number of devices that list it, through links going
\* up and down, queues set and unset and allocations that fail at any point: no ring is freed
\* under a device that sends on it, or outlives its last one.
THEOREM UsesExact == Spec => []UseExact
<1>1. Inv /\ Counts => UseExact
  <2>. SUFFICES ASSUME Counts, NEW q \in Queues, ring[q].mem
               PROVE  ring[q].use = Cardinality(Users(q))
                                      + IF job.pc = "unset" /\ job.i = q THEN 1 ELSE 0
    BY DEF UseExact
  <2>1. UseFits(ring[q], CountOf(txq, job, q))
    BY DEF Counts, Uses
  <2>2. ring[q].use = CountOf(txq, job, q)
    BY <2>1 DEF UseFits
  <2>3. UsersOf(txq, job, q) = Users(q)
    BY DEF UsersOf, Users
  <2>. QED BY <2>2, <2>3, Zenon DEF CountOf
<1>. QED BY <1>1, CountsHold, PTL

\* ulNumTxBufsQdAll is the number of packets on all rings, and not only up to the range of
\* the counter: the rings together hold fewer than that.
THEOREM TotalsExact == Spec => []TotalExact
<1>1. Inv /\ Counts => TotalExact
  <2>. SUFFICES ASSUME Inv, Counts, ~skewed, overlap = {} PROVE qdAll = Queued
    BY DEF TotalExact
  <2>. DEFINE c == ExtBufs - 1
              f == Qds(ring)
  <2>0. c \in Nat /\ QSize \in Nat /\ QSize - 1 <= c
    BY XtmTxAssumption DEF QSize
  <2>1. ASSUME NEW q \in Queues PROVE ring[q].qd \in 0 .. c
    <3>1. CASE ring[q].mem
      <4>1. ring[q] \in Rings /\ Sound(ring[q], Freeds[q])
        BY <3>1 DEF Inv, AllSound
      <4>2. ring[q].curr \in Idx /\ ring[q].head \in Idx /\ ring[q].qd = Dist(ring[q].curr, ring[q].head)
        BY <4>1 DEF Rings, Sound
      <4>3. ring[q].qd \in 0 .. QSize - 1
        BY <2>0, <4>2 DEF Dist, Idx
      <4>. HIDE DEF c
      <4>. QED BY <2>0, <4>3
    <3>2. CASE ~ring[q].mem
      <4>1. ring[q].qd = 0
        BY <3>2 DEF Counts, Fine
      <4>. HIDE DEF c
      <4>. QED BY <2>0, <4>1
    <3>. QED BY <3>1, <3>2
  <2>2. \A q \in Queues : f[q] \in 0 .. c
    BY <2>1 DEF Qds
  <2>3. QdTotal(ring) = Sum(f, Queues) /\ Queued = QdTotal(ring)
    BY QdTotalIs, Zenon DEF QdTotal, Queued
  <2>. HIDE DEF f
  <2>4. Cardinality(Queues) \in Nat /\ Cardinality(Queues) * c < U32 /\ U32 \in Nat
    BY XtmTxAssumption, FS_CardinalityType
  <2>. HIDE DEF c
  <2>5. Sum(f, Queues) \in 0 .. Cardinality(Queues) * c
    BY <2>0, <2>2, XtmTxAssumption, SumBound
  <2>6. Cardinality(Queues) * c \in Nat
    BY <2>0, <2>4
  <2>7. Queued \in 0 .. U32 - 1
    BY <2>3, <2>4, <2>5, <2>6
  <2>8. qdAll \in 0 .. U32 - 1 /\ Cong(qdAll, Queued)
    BY <2>3 DEF Counts, Fine
  <2>. QED BY <2>7, <2>8, CongSmall
<1>. QED BY <1>1, CountsHold, PTL

\* A ring with memory is counted, and one is counted alone only if no other has memory.
LEMMA CountedAlone ==
  ASSUME NEW q \in Queues, ring[q].mem
  PROVE  /\ CountRings(ring) \in Nat /\ CountRings(ring) > 0
         /\ CountRings(ring) <= 1 => \A p \in Queues \ {q} : ~ring[p].mem
<1>. DEFINE A == {p \in Queues : ring[p].mem}
            B == A \ {q}
<1>1. IsFiniteSet(A) /\ q \in A /\ CountRings(ring) = Cardinality(A)
  BY XtmTxAssumption, FS_Subset DEF CountRings
<1>2. ASSUME NEW p \in Queues \ {q}, ring[p].mem PROVE p \in B
  BY <1>2
<1>. HIDE DEF A
<1>3. IsFiniteSet(B) /\ Cardinality(B) = Cardinality(A) - 1
  BY <1>1, FS_RemoveElement
<1>. HIDE DEF B
<1>4. Cardinality(A) \in Nat /\ Cardinality(B) \in Nat
  BY <1>1, <1>3, FS_CardinalityType
<1>5. Cardinality(B) = 0 => B = {}
  BY <1>3, FS_EmptySet
<1>. QED BY <1>1, <1>2, <1>3, <1>4, <1>5

\* QueuePacket lets a packet take a ring beyond half of the external buffers only while there
\* is no other ring: whatever requests came before, the number of rings it divides by is not
\* below the number there is, except before a request has counted a new one.
THEOREM SharesFair == Spec => FairShare
<1>1. ASSUME Inv, Inv', Counts, [Next]_vars, NEW q \in Queues, ring'[q].mem,
             ring'[q].head # ring[q].head, ring'[q].qd > Pct50, job.pc # "count"
      PROVE  \A p \in Queues \ {q} : ~ring[p].mem
  <2>1. Traffic \/ Quiet
    BY <1>1, NextCounts, FactsHold
  <2>2. Pct50 \in Nat
    BY XtmTxAssumption DEF Pct50
  <2>3. ring[q].mem /\ numTxQs = 1
    BY <1>1, <2>1, <2>2 DEF Traffic, Shares, Quiet
  <2>4. CountRings(ring) <= 1
    BY <1>1, <2>3 DEF Counts, RingsCounted
  <2>. QED BY <2>3, <2>4, CountedAlone
<1>2. (Inv /\ Counts) /\ (Inv /\ Counts)' /\ [Next]_vars =>
        \A q \in Queues : (ring'[q].mem /\ ring'[q].head # ring[q].head /\ ring'[q].qd > Pct50) =>
          job.pc = "count" \/ \A p \in Queues \ {q} : ~ring[p].mem
  BY <1>1
<1>. QED BY <1>2, CountsHold, PTL DEF Spec, FairShare

\* The driver follows no pointer of a freed ring and divides by no number of rings that is 0,
\* unless an allocation once failed, or a softirq comes while a request releases rings or
\* before it has counted a new one.
THEOREM CrashesExplained == Spec => OopsExplained
<1>1. ASSUME Inv, Counts, ~failed, job.pc \notin {"release", "count"}, NEW d \in Devs
      PROVE  Healthy(d)
  <2>. SUFFICES ASSUME NEW q \in Listed(d) \cup prio[d] PROVE ring[q].mem /\ numTxQs # 0
    BY DEF Healthy
  <2>1. /\ txq \in [Devs -> Seq(Queues)] /\ txq[d] \in Seq(Queues) /\ q \in Range(txq[d])
    BY <1>1, Zenon DEF Inv, Counts, NeverRefused, Listed
  <2>2. q \in Queues
    BY <2>1 DEF Range
  <2>3. d \in UsersOf(txq, job, q)
    BY <1>1, <2>1, UsersPlain DEF Holders
  <2>4. CountOf(txq, job, q) > 0 /\ CountOf(txq, job, q) \in Nat
    <3>1. /\ IsFiniteSet(UsersOf(txq, job, q)) /\ Cardinality(UsersOf(txq, job, q)) \in Nat
          /\ CountOf(txq, job, q) \in Nat
      BY UsersFiniteHolds, Zenon DEF UsersFinite
    <3>2. Cardinality(UsersOf(txq, job, q)) # 0
      BY <2>3, <3>1, FS_EmptySet
    <3>3. CountOf(txq, job, q) >= Cardinality(UsersOf(txq, job, q))
      BY <3>1 DEF CountOf
    <3>. QED BY <3>1, <3>2, <3>3
  <2>5. UseFits(ring[q], CountOf(txq, job, q)) /\ ring[q] \in RingType
    BY <1>1, <2>2, Zenon DEF Counts, Uses, Fine
  <2>6. ring[q].use \in Nat
    BY <2>5, XtmTxAssumption DEF RingType
  <2>7. ring[q].mem
    BY <1>1, <2>2, <2>4, <2>5, <2>6 DEF UseFits, Counts, NeverRefused
  <2>8. CountRings(ring) \in Nat /\ CountRings(ring) > 0
    BY <2>2, <2>7, CountedAlone
  <2>. QED BY <1>1, <2>7, <2>8 DEF Counts, RingsCounted, Flags
<1>2. ASSUME Inv, Inv', Counts, [Next]_vars, oops', ~oops
      PROVE  failed \/ job.pc \in {"release", "count"}
  <2>1. Traffic
    BY <1>2, NextCounts, FactsHold, Zenon DEF Quiet
  <2>2. PICK d \in Devs : ~Healthy(d)
    BY <1>2, <2>1, Zenon DEF Traffic
  <2>. QED BY <1>1, <1>2, <2>2, Zenon
<1>3. (Inv /\ Counts) /\ (Inv /\ Counts)' /\ [Next]_vars =>
        ((oops' /\ ~oops) => failed \/ job.pc \in {"release", "count"})
  BY <1>2
<1>. QED BY <1>3, CountsHold, PTL DEF Spec, OopsExplained

=============================================================================
