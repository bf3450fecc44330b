---------------------------- MODULE Foundations -----------------------------
(***************************************************************************)
(* What the other proofs rest on, in three parts.  Induction and recursion *)
(* over the natural numbers, stated with sets and functions: that a        *)
(* recursive definition defines the function it says, which the proofs     *)
(* about sums, layers and paths need of theirs.  What FlattenSeq makes of  *)
(* sequences, which concatenates them.  What Apply's loop does to a text:  *)
(* the patches sorted, and the text that their splice makes, byte by byte. *)
(***************************************************************************)
EXTENDS Source, FiniteSetTheorems, WellFoundedInduction, TLAPS

LEMMA NatSetInduction ==
    ASSUME NEW S, 0 \in S, \A n \in Nat : n \in S => n + 1 \in S
    PROVE  Nat \subseteq S
<1> SUFFICES ASSUME Nat \ S # {} PROVE FALSE
  OBVIOUS
<1> DEFINE R == OpToRel(<, Nat)
<1>1. PICK x \in Nat \ S : \A y \in Nat \ S : <<y, x>> \notin R
  <2> HIDE DEF R
  <2>1. IsWellFoundedOn(R, Nat)
    BY NatLessThanWellFounded DEF R
  <2> QED
    BY <2>1, WFMin
<1>2. x # 0 /\ x - 1 \in Nat
  OBVIOUS
<1>3. <<x - 1, x>> \in R
  BY <1>2 DEF OpToRel
<1>4. x - 1 \notin Nat \ S
  <2> HIDE DEF R
  <2> QED
    BY <1>1, <1>3
<1> HIDE DEF R
<1> QED
  BY <1>2, <1>4

\* A number for which all smaller ones being in S puts it there.
LEMMA NatStrongInduction ==
    ASSUME NEW S, NEW T \in SUBSET Nat,
           \A n \in T : (\A m \in T : m < n => m \in S) => n \in S
    PROVE  T \subseteq S
<1> DEFINE Below == {n \in Nat : \A m \in T : m < n => m \in S}
<1>1. 0 \in Below
  OBVIOUS
<1>2. ASSUME NEW n \in Nat, n \in Below PROVE n + 1 \in Below
  <2>1. ASSUME NEW m \in T, m < n + 1 PROVE m \in S
    <3>1. m < n \/ m = n
      BY <2>1
    <3> QED
      BY <1>2, <3>1
  <2> QED
    BY <2>1
<1>3. Nat \subseteq Below
  <2> HIDE DEF Below
  <2> QED
    BY <1>1, <1>2, NatSetInduction
<1>4. ASSUME NEW n \in T PROVE n \in S
  <2>1. n + 1 \in Below
    BY <1>3
  <2> QED
    BY <2>1
<1> QED
  BY <1>4

-----------------------------------------------------------------------------
(***************************************************************************)
(* Recursion along pred: z on the set B, and elsewhere what h makes of the *)
(* value at the predecessor, which is of a smaller rank.                   *)
(***************************************************************************)
Defines(g, D, B, pred, z, h) ==
    g = [d \in D |-> IF d \in B THEN z ELSE h[<<g[pred[d]], d>>]]

Descends(D, B, pred, rank) ==
    /\ \A d \in D : rank[d] \in Nat
    /\ \A d \in D \ B : pred[d] \in D /\ rank[pred[d]] < rank[d]

Below(D, rank, n) == {d \in D : rank[d] <= n}

LEMMA RecursionUnique ==
    ASSUME NEW D, NEW B, NEW pred, NEW rank, NEW z, NEW h,
           Descends(D, B, pred, rank),
           NEW m \in Nat, NEW f, Defines(f, Below(D, rank, m), B, pred, z, h),
           NEW n \in Nat, NEW g, Defines(g, Below(D, rank, n), B, pred, z, h)
    PROVE  \A d \in Below(D, rank, m) \cap Below(D, rank, n) : f[d] = g[d]
<1> DEFINE E == Below(D, rank, m)
           F == Below(D, rank, n)
           S == {r \in Nat : \A d \in E \cap F : rank[d] = r => f[d] = g[d]}
<1>1. ASSUME NEW r \in Nat, \A q \in Nat : q < r => q \in S,
             NEW d \in E \cap F, rank[d] = r
      PROVE  f[d] = g[d]
  <2>1. /\ f[d] = IF d \in B THEN z ELSE h[<<f[pred[d]], d>>]
        /\ g[d] = IF d \in B THEN z ELSE h[<<g[pred[d]], d>>]
    BY DEF Defines
  <2>2. d \notin B => pred[d] \in E \cap F /\ rank[pred[d]] \in Nat /\ rank[pred[d]] < r
    BY <1>1 DEF Descends, Below
  <2>3. d \notin B => f[pred[d]] = g[pred[d]]
    BY <1>1, <2>2
  <2> QED
    BY <2>1, <2>2, <2>3
<1>2. Nat \subseteq S
  <2>1. \A r \in Nat : (\A q \in Nat : q < r => q \in S) => r \in S
    BY <1>1
  <2> HIDE DEF S
  <2> QED
    BY <2>1, NatStrongInduction
<1>3. \A d \in E \cap F : rank[d] \in Nat
  BY DEF Descends, Below
<1> QED
  BY <1>2, <1>3

LEMMA RecursionUpTo ==
    ASSUME NEW D, NEW B, NEW pred, NEW rank, NEW z, NEW h,
           Descends(D, B, pred, rank)
    PROVE  \A n \in Nat : \E g : Defines(g, Below(D, rank, n), B, pred, z, h)
<1> DEFINE S == {n \in Nat : \E g : Defines(g, Below(D, rank, n), B, pred, z, h)}
<1>1. 0 \in S
  <2>1. Below(D, rank, 0) \subseteq B
    BY DEF Descends, Below
  <2>2. Defines([d \in Below(D, rank, 0) |-> z], Below(D, rank, 0), B, pred, z, h)
    BY <2>1 DEF Defines
  <2> QED
    BY <2>2
<1>2. ASSUME NEW n \in Nat, n \in S PROVE n + 1 \in S
  <2>1. PICK g : Defines(g, Below(D, rank, n), B, pred, z, h)
    BY <1>2
  <2> DEFINE k == [d \in Below(D, rank, n + 1) |-> IF d \in B THEN z ELSE h[<<g[pred[d]], d>>]]
  <2>2. ASSUME NEW d \in Below(D, rank, n + 1) \ B PROVE k[pred[d]] = g[pred[d]]
    <3>1. pred[d] \in Below(D, rank, n) /\ pred[d] \in Below(D, rank, n + 1)
      BY <2>2 DEF Descends, Below
    <3> QED
      BY <2>1, <3>1 DEF Defines
  <2>3. Defines(k, Below(D, rank, n + 1), B, pred, z, h)
    <3> QED
      BY <2>2 DEF Defines
  <2> HIDE DEF k
  <2> QED
    BY <1>2, <2>3
<1>3. Nat \subseteq S
  <2> HIDE DEF S
  <2> QED
    BY <1>1, <1>2, NatSetInduction
<1> QED
  BY <1>3

\* A recursive definition has a function that satisfies it, so that the one
\* it chooses does.
LEMMA RecursionExists ==
    ASSUME NEW D, NEW B, NEW pred, NEW rank, NEW z, NEW h,
           Descends(D, B, pred, rank)
    PROVE  \E g : Defines(g, D, B, pred, z, h)
<1> DEFINE c == [n \in Nat |-> CHOOSE g : Defines(g, Below(D, rank, n), B, pred, z, h)]
           f == [d \in D |-> c[rank[d]][d]]
<1>1. ASSUME NEW n \in Nat PROVE Defines(c[n], Below(D, rank, n), B, pred, z, h)
  <2>1. \E g : Defines(g, Below(D, rank, n), B, pred, z, h)
    BY RecursionUpTo
  <2>2. c[n] = CHOOSE g : Defines(g, Below(D, rank, n), B, pred, z, h)
    OBVIOUS
  <2> HIDE DEF c
  <2> QED
    BY <2>1, <2>2
<1>2. ASSUME NEW d \in D \ B
      PROVE  c[rank[d]][pred[d]] = c[rank[pred[d]]][pred[d]]
  <2> HIDE DEF c
  <2>1. /\ rank[d] \in Nat /\ rank[pred[d]] \in Nat
        /\ pred[d] \in Below(D, rank, rank[d]) \cap Below(D, rank, rank[pred[d]])
    BY <1>2 DEF Descends, Below
  <2>3. /\ Defines(c[rank[d]], Below(D, rank, rank[d]), B, pred, z, h)
        /\ Defines(c[rank[pred[d]]], Below(D, rank, rank[pred[d]]), B, pred, z, h)
    BY <1>1, <2>1
  <2>4. \A e \in Below(D, rank, rank[d]) \cap Below(D, rank, rank[pred[d]]) :
           c[rank[d]][e] = c[rank[pred[d]]][e]
    BY <2>1, <2>3, RecursionUnique
  <2> QED
    BY <2>1, <2>4
<1>3. ASSUME NEW d \in D PROVE f[d] = IF d \in B THEN z ELSE h[<<f[pred[d]], d>>]
  <2>1. rank[d] \in Nat /\ d \in Below(D, rank, rank[d]) /\ (d \notin B => pred[d] \in D)
    BY DEF Descends, Below
  <2> HIDE DEF c
  <2>2. c[rank[d]][d] = IF d \in B THEN z ELSE h[<<c[rank[d]][pred[d]], d>>]
    BY <1>1, <2>1 DEF Defines
  <2> QED
    BY <1>2, <2>1, <2>2
<1>4. Defines(f, D, B, pred, z, h)
  <2> HIDE DEF f
  <2>1. f = [d \in D |-> f[d]]
    BY DEF f
  <2> QED
    BY <1>3, <2>1 DEF Defines
<1> HIDE DEF f
<1> QED
  BY <1>4

Keeps(h, V, D, B) == \A v \in V, d \in D \ B : h[<<v, d>>] \in V

LEMMA RecursionType ==
    ASSUME NEW D, NEW B, NEW pred, NEW rank, NEW z, NEW h,
           Descends(D, B, pred, rank),
           NEW g, Defines(g, D, B, pred, z, h),
           NEW V, z \in V, Keeps(h, V, D, B)
    PROVE  g \in [D -> V]
<1> DEFINE S == {n \in Nat : \A d \in D : rank[d] = n => g[d] \in V}
<1>1. ASSUME NEW n \in Nat, \A m \in Nat : m < n => m \in S,
             NEW d \in D, rank[d] = n
      PROVE  g[d] \in V
  <2>1. g[d] = IF d \in B THEN z ELSE h[<<g[pred[d]], d>>]
    BY DEF Defines
  <2>2. d \notin B => pred[d] \in D /\ rank[pred[d]] \in Nat /\ rank[pred[d]] < n
    BY <1>1 DEF Descends
  <2>3. d \notin B => g[pred[d]] \in V
    BY <1>1, <2>2
  <2> QED
    BY <2>1, <2>3 DEF Keeps
<1>2. Nat \subseteq S
  <2>1. \A n \in Nat : (\A m \in Nat : m < n => m \in S) => n \in S
    BY <1>1
  <2> HIDE DEF S
  <2> QED
    BY <2>1, NatStrongInduction
<1> QED
  BY <1>2 DEF Defines, Descends

-----------------------------------------------------------------------------
(***************************************************************************)
(* Running totals of m numbers, and running concatenations of m sequences. *)
(***************************************************************************)
IsInitial(D) == D = Nat \/ \E m \in Nat : D = 0..m

Steps(g, D, z, h) == g = [n \in D |-> IF n = 0 THEN z ELSE h[<<g[n - 1], n>>]]

LEMMA StepsExist ==
    ASSUME NEW D, IsInitial(D), NEW V, NEW z \in V, NEW h,
           \A v \in V, n \in D : n # 0 => h[<<v, n>>] \in V
    PROVE  \E g \in [D -> V] : Steps(g, D, z, h)
<1> DEFINE B == {0}
           pred == [n \in D |-> n - 1]
           rank == [n \in D |-> n]
<1>1. Descends(D, B, pred, rank)
  BY DEF Descends, IsInitial
<1>2. PICK g : Defines(g, D, B, pred, z, h)
  <2> HIDE DEF pred, rank, B
  <2> QED
    BY <1>1, RecursionExists
<1>3. g \in [D -> V]
  <2>1. ASSUME NEW v \in V, NEW n \in D \ B PROVE h[<<v, n>>] \in V
    OBVIOUS
  <2>2. Keeps(h, V, D, B)
    BY <2>1 DEF Keeps
  <2> HIDE DEF pred, rank, B
  <2> QED
    BY <1>1, <1>2, <2>2, RecursionType
<1>4. Steps(g, D, z, h)
  BY <1>2 DEF Defines, Steps
<1> QED
  BY <1>3, <1>4

Totals(g, m, z, a)  == g = [n \in 0..m |-> IF n = 0 THEN z ELSE g[n - 1] + a[n]]
Chained(g, m, z, a) == g = [n \in 0..m |-> IF n = 0 THEN z ELSE g[n - 1] \o a[n]]

LEMMA TotalsExist ==
    ASSUME NEW m \in Nat, NEW z \in Int, NEW a, \A n \in 1..m : a[n] \in Int
    PROVE  \E g \in [0..m -> Int] : Totals(g, m, z, a)
<1> DEFINE h == [vn \in Int \X (1..m) |-> vn[1] + a[vn[2]]]
<1>1. \A v \in Int, n \in 1..m : h[<<v, n>>] = v + a[n]
  OBVIOUS
<1>2. PICK g \in [0..m -> Int] : Steps(g, 0..m, z, h)
  <2> HIDE DEF h
  <2>1. ASSUME NEW v \in Int, NEW n \in 1..m PROVE h[<<v, n>>] \in Int
    <3>1. h[<<v, n>>] = v + a[n] /\ a[n] \in Int
      BY <1>1
    <3> QED
      BY <3>1
  <2> DEFINE D == 0..m
  <2>2. IsInitial(D) /\ \A n \in D : n # 0 => n \in 1..m
    BY DEF IsInitial
  <2> HIDE DEF D
  <2>3. \E g \in [D -> Int] : Steps(g, D, z, h)
    BY <2>1, <2>2, StepsExist
  <2> QED
    BY <2>3 DEF D
<1>3. ASSUME NEW n \in 0..m PROVE g[n] = IF n = 0 THEN z ELSE g[n - 1] + a[n]
  <2>1. g[n] = IF n = 0 THEN z ELSE h[<<g[n - 1], n>>]
    BY <1>2 DEF Steps
  <2>2. n # 0 => n \in 1..m /\ g[n - 1] \in Int
    OBVIOUS
  <2> HIDE DEF h
  <2> QED
    BY <1>1, <2>1, <2>2
<1> QED
  BY <1>3 DEF Totals

LEMMA ChainedExist ==
    ASSUME NEW V, NEW m \in Nat, NEW z \in Seq(V), NEW a,
           \A n \in 1..m : a[n] \in Seq(V)
    PROVE  \E g \in [0..m -> Seq(V)] : Chained(g, m, z, a)
<1> DEFINE h == [vn \in Seq(V) \X (1..m) |-> vn[1] \o a[vn[2]]]
<1>1. \A v \in Seq(V), n \in 1..m : h[<<v, n>>] = v \o a[n]
  OBVIOUS
<1>2. PICK g \in [0..m -> Seq(V)] : Steps(g, 0..m, z, h)
  <2> HIDE DEF h
  <2>1. ASSUME NEW v \in Seq(V), NEW n \in 1..m PROVE h[<<v, n>>] \in Seq(V)
    <3>1. h[<<v, n>>] = v \o a[n] /\ a[n] \in Seq(V)
      BY <1>1
    <3> QED
      BY <3>1
  <2> DEFINE D == 0..m
  <2>2. IsInitial(D) /\ \A n \in D : n # 0 => n \in 1..m
    BY DEF IsInitial
  <2> HIDE DEF D
  <2>3. \E g \in [D -> Seq(V)] : Steps(g, D, z, h)
    BY <2>1, <2>2, StepsExist
  <2> QED
    BY <2>3 DEF D
<1>3. ASSUME NEW n \in 0..m PROVE g[n] = IF n = 0 THEN z ELSE g[n - 1] \o a[n]
  <2>1. g[n] = IF n = 0 THEN z ELSE h[<<g[n - 1], n>>]
    BY <1>2 DEF Steps
  <2>2. n # 0 => n \in 1..m /\ g[n - 1] \in Seq(V)
    OBVIOUS
  <2> HIDE DEF h
  <2> QED
    BY <1>1, <2>1, <2>2
<1> QED
  BY <1>3 DEF Chained

\* Totals of sequences that agree up to k agree there.
LEMMA TotalsAgree ==
    ASSUME NEW m \in Nat, NEW n \in Nat, NEW z, NEW a, NEW b, NEW f, NEW g,
           Totals(f, m, z, a), Totals(g, n, z, b),
           NEW k \in Nat, k <= m, k <= n, \A i \in 1..k : a[i] = b[i]
    PROVE  f[k] = g[k]
<1> DEFINE S == {i \in Nat : i <= k => f[i] = g[i]}
<1>1. 0 \in S
  BY DEF Totals
<1>2. ASSUME NEW i \in Nat, i \in S PROVE i + 1 \in S
  <2>1. CASE i + 1 <= k
    <3>1. i + 1 \in 0..m /\ i + 1 \in 0..n /\ i + 1 # 0 /\ (i + 1) - 1 = i
      BY <2>1
    <3>2. f[i + 1] = f[i] + a[i + 1] /\ g[i + 1] = g[i] + b[i + 1]
      BY <3>1 DEF Totals
    <3>3. a[i + 1] = b[i + 1] /\ f[i] = g[i]
      BY <1>2, <2>1
    <3> QED
      BY <3>2, <3>3
  <2> QED
    BY <2>1
<1>3. Nat \subseteq S
  <2> HIDE DEF S
  <2> QED
    BY <1>1, <1>2, NatSetInduction
<1> QED
  BY <1>3

LEMMA ChainedAgree ==
    ASSUME NEW m \in Nat, NEW n \in Nat, NEW z, NEW a, NEW b, NEW f, NEW g,
           Chained(f, m, z, a), Chained(g, n, z, b),
           NEW k \in Nat, k <= m, k <= n, \A i \in 1..k : a[i] = b[i]
    PROVE  f[k] = g[k]
<1> DEFINE S == {i \in Nat : i <= k => f[i] = g[i]}
<1>1. 0 \in S
  BY DEF Chained
<1>2. ASSUME NEW i \in Nat, i \in S PROVE i + 1 \in S
  <2>1. CASE i + 1 <= k
    <3>1. i + 1 \in 0..m /\ i + 1 \in 0..n /\ i + 1 # 0 /\ (i + 1) - 1 = i
      BY <2>1
    <3>2. f[i + 1] = f[i] \o a[i + 1] /\ g[i + 1] = g[i] \o b[i + 1]
      BY <3>1 DEF Chained
    <3>3. a[i + 1] = b[i + 1] /\ f[i] = g[i]
      BY <1>2, <2>1
    <3>4. f[i + 1] = g[i + 1]
      <4> HIDE DEF S
      <4> QED
        BY <3>2, <3>3, Zenon
    <3> QED
      BY <3>4
  <2> QED
    BY <2>1
<1>3. Nat \subseteq S
  <2> HIDE DEF S
  <2> QED
    BY <1>1, <1>2, NatSetInduction
<1> QED
  BY <1>3

-----------------------------------------------------------------------------
(***************************************************************************)
(* Induction over the subsets of a finite set, and sums over them, each    *)
(* taking out what CHOOSE names.                                           *)
(***************************************************************************)
LEMMA SubsetInduction ==
    ASSUME NEW S, IsFiniteSet(S), NEW X,
           \A T \in SUBSET S : (\A U \in SUBSET T : U # T => U \in X) => T \in X
    PROVE  SUBSET S \subseteq X
<1> DEFINE N == {n \in Nat : \A T \in SUBSET S : Cardinality(T) = n => T \in X}
<1>1. ASSUME NEW n \in Nat, \A m \in Nat : m < n => m \in N,
             NEW T \in SUBSET S, Cardinality(T) = n
      PROVE  T \in X
  <2>1. ASSUME NEW U \in SUBSET T, U # T PROVE U \in X
    <3>1. IsFiniteSet(T) /\ Cardinality(T) \in Nat
      BY FS_Subset, FS_CardinalityType
    <3>2. IsFiniteSet(U) /\ Cardinality(U) \in Nat /\ Cardinality(U) < Cardinality(T)
      BY <2>1, <3>1, FS_Subset, FS_CardinalityType
    <3>3. Cardinality(U) \in N
      BY <1>1, <3>2
    <3> QED
      BY <3>3
  <2> QED
    BY <2>1
<1>2. Nat \subseteq N
  <2>1. \A n \in Nat : (\A m \in Nat : m < n => m \in N) => n \in N
    BY <1>1
  <2> HIDE DEF N
  <2> QED
    BY <2>1, NatStrongInduction
<1>3. ASSUME NEW T \in SUBSET S PROVE T \in X
  <2>1. Cardinality(T) \in Nat
    BY FS_Subset, FS_CardinalityType
  <2> QED
    BY <1>2, <2>1
<1> QED
  BY <1>3

SetSums(g, S, w) ==
    g = [T \in SUBSET S |->
           IF T = {} THEN 0
           ELSE LET d == CHOOSE d \in T : TRUE IN w[d] + g[T \ {d}]]

IsSum(g, S, w) ==
    /\ IsFiniteSet(S) /\ \A d \in S : w[d] \in Int
    /\ g \in [SUBSET S -> Int] /\ SetSums(g, S, w)

LEMMA SetSumsExist ==
    ASSUME NEW S, IsFiniteSet(S), NEW w, \A d \in S : w[d] \in Int
    PROVE  \E g : IsSum(g, S, w)
<1> DEFINE one(T) == CHOOSE d \in T : TRUE
           D == SUBSET S
           B == {{}}
           pred == [T \in D |-> T \ {one(T)}]
           rank == [T \in D |-> Cardinality(T)]
           h == [vT \in Int \X D |->
                   IF vT[2] = {} THEN 0 ELSE w[one(vT[2])] + vT[1]]
<1>1. ASSUME NEW T \in D \ B PROVE one(T) \in T
  OBVIOUS
<1>2. Descends(D, B, pred, rank)
  <2>1. ASSUME NEW T \in D PROVE rank[T] \in Nat
    BY FS_Subset, FS_CardinalityType
  <2>2. ASSUME NEW T \in D \ B PROVE pred[T] \in D /\ rank[pred[T]] < rank[T]
    <3>1. IsFiniteSet(T) /\ one(T) \in T
      BY <1>1, FS_Subset
    <3>2. Cardinality(T \ {one(T)}) = Cardinality(T) - 1 /\ Cardinality(T) \in Nat
      BY <3>1, FS_RemoveElement, FS_CardinalityType
    <3>3. T \ {one(T)} \in D
      OBVIOUS
    <3> QED
      BY <3>2, <3>3
  <2> HIDE DEF D, B, pred, rank
  <2> QED
    BY <2>1, <2>2 DEF Descends
<1>3. ASSUME NEW v \in Int, NEW T \in D \ B
      PROVE  h[<<v, T>>] = w[one(T)] + v /\ h[<<v, T>>] \in Int
  <2>1. h[<<v, T>>] = w[one(T)] + v
    BY <1>1
  <2>2. w[one(T)] \in Int
    BY <1>1
  <2> HIDE DEF h, one
  <2> QED
    BY <2>1, <2>2
<1>4. PICK g : Defines(g, D, B, pred, 0, h)
  <2> HIDE DEF D, B, pred, rank, h
  <2> QED
    BY <1>2, RecursionExists
<1>5. g \in [D -> Int]
  <2> HIDE DEF D, B, pred, rank, h
  <2>1. Keeps(h, Int, D, B)
    BY <1>3 DEF Keeps
  <2> QED
    BY <1>2, <1>4, <2>1, RecursionType
<1>6. ASSUME NEW T \in D
      PROVE  g[T] = IF T = {} THEN 0 ELSE w[one(T)] + g[T \ {one(T)}]
  <2>1. g[T] = IF T \in B THEN 0 ELSE h[<<g[pred[T]], T>>]
    <3> HIDE DEF D, B, pred, h
    <3> QED
      BY <1>4 DEF Defines
  <2>2. pred[T] = T \ {one(T)} /\ pred[T] \in D
    OBVIOUS
  <2>3. g[pred[T]] \in Int
    BY <1>5, <2>2
  <2>4. T \in B <=> T = {}
    OBVIOUS
  <2> HIDE DEF D, B, pred, h, one
  <2> QED
    BY <1>3, <2>1, <2>2, <2>3, <2>4
<1> QED
  BY <1>5, <1>6 DEF IsSum, SetSums

LEMMA SetSumsType ==
    ASSUME NEW S, IsFiniteSet(S), NEW w, \A d \in S : w[d] \in Int,
           NEW g, SetSums(g, S, w)
    PROVE  IsSum(g, S, w)
<1> DEFINE X == {T \in SUBSET S : g[T] \in Int}
           one(T) == CHOOSE d \in T : TRUE
<1>1. ASSUME NEW T \in SUBSET S, \A U \in SUBSET T : U # T => U \in X
      PROVE  g[T] \in Int
  <2>1. g[T] = IF T = {} THEN 0 ELSE w[one(T)] + g[T \ {one(T)}]
    BY DEF SetSums
  <2>2. T # {} => one(T) \in T
    OBVIOUS
  <2> HIDE DEF one
  <2>3. T # {} => w[one(T)] \in Int /\ g[T \ {one(T)}] \in Int
    BY <1>1, <2>2
  <2> QED
    BY <2>1, <2>3
<1>2. SUBSET S \subseteq X
  <2>1. \A T \in SUBSET S : (\A U \in SUBSET T : U # T => U \in X) => T \in X
    BY <1>1
  <2> HIDE DEF X
  <2> QED
    BY <2>1, SubsetInduction
<1>3. g = [T \in SUBSET S |-> g[T]]
  BY DEF SetSums
<1>4. g \in [SUBSET S -> Int]
  <2>1. \A T \in SUBSET S : g[T] \in Int
    BY <1>2
  <2> QED
    BY <1>3, <2>1
<1> QED
  BY <1>4 DEF IsSum

Additive(g, S, w) ==
    /\ g[{}] = 0
    /\ \A T \in SUBSET S : \A x \in S \ T : g[T \cup {x}] = g[T] + w[x]

LEMMA SetSumsAdd ==
    ASSUME NEW S, NEW w, NEW g, IsSum(g, S, w)
    PROVE  Additive(g, S, w)
<1> USE DEF IsSum
<1> DEFINE X == {T \in SUBSET S : \A x \in S \ T : g[T \cup {x}] = g[T] + w[x]}
           one(T) == CHOOSE d \in T : TRUE
<1>0. ASSUME NEW T \in SUBSET S, T # {}
      PROVE  one(T) \in T /\ g[T] = w[one(T)] + g[T \ {one(T)}]
  <2>1. one(T) \in T
    BY <1>0
  <2> QED
    BY <1>0, <2>1 DEF SetSums
<1>1. g[{}] = 0
  BY DEF SetSums
<1>2. ASSUME NEW T \in SUBSET S, \A U \in SUBSET T : U # T => U \in X,
             NEW x \in S \ T
      PROVE  g[T \cup {x}] = g[T] + w[x]
  <2>1. PICK d \in T \cup {x} : g[T \cup {x}] = w[d] + g[(T \cup {x}) \ {d}]
    BY <1>0
  <2>2. g[T] \in Int /\ w[x] \in Int /\ w[d] \in Int
    OBVIOUS
  <2>3. CASE d = x
    <3>1. (T \cup {x}) \ {d} = T
      BY <1>2, <2>3
    <3>2. g[T \cup {x}] = w[x] + g[T]
      BY <2>1, <2>3, <3>1
    <3> QED
      BY <2>2, <3>2
  <2>4. CASE d # x
    <3>1. PICK U \in SUBSET S : U = T \ {d}
      OBVIOUS
    <3>2. d \in T /\ U \in X /\ x \in S \ U /\ d \in S \ U
      BY <1>2, <2>1, <2>4, <3>1
    <3>3. (T \cup {x}) \ {d} = U \cup {x} /\ T = U \cup {d}
      BY <2>4, <3>1, <3>2
    <3>4. g[U \cup {x}] = g[U] + w[x] /\ g[U \cup {d}] = g[U] + w[d]
      BY <3>2
    <3>5. g[U] \in Int
      OBVIOUS
    <3> HIDE DEF X
    <3>6. g[T \cup {x}] = w[d] + (g[U] + w[x])
      BY <2>1, <3>3, <3>4
    <3>7. g[T] = g[U] + w[d]
      BY <3>3, <3>4
    <3> QED
      BY <2>2, <3>5, <3>6, <3>7
  <2> QED
    BY <2>3, <2>4
<1>3. SUBSET S \subseteq X
  <2>1. \A T \in SUBSET S : (\A U \in SUBSET T : U # T => U \in X) => T \in X
    BY <1>2
  <2> HIDE DEF X
  <2> QED
    BY <2>1, SubsetInduction
<1>4. \A T \in SUBSET S : \A x \in S \ T : g[T \cup {x}] = g[T] + w[x]
  BY <1>3
<1> QED
  BY <1>1, <1>4 DEF Additive

LEMMA SetSumsGrow ==
    ASSUME NEW S, NEW w, NEW g, IsSum(g, S, w), \A d \in S : w[d] \in Nat,
           NEW U \in SUBSET S, NEW T \in SUBSET U
    PROVE  g[T] <= g[U]
<1> DEFINE X == {E \in SUBSET S : T \subseteq E => g[T] <= g[E]}
<1>0. Additive(g, S, w)
  BY SetSumsAdd
<1>1. ASSUME NEW E \in SUBSET S, \A F \in SUBSET E : F # E => F \in X, T \subseteq E
      PROVE  g[T] <= g[E]
  <2>1. CASE E = T
    BY <2>1 DEF IsSum
  <2>2. CASE E # T
    <3>1. PICK x \in E : x \notin T
      BY <1>1, <2>2
    <3> DEFINE F == E \ {x}
    <3>2. F \in X /\ T \subseteq F /\ F \in SUBSET S /\ x \in S \ F /\ E = F \cup {x}
      BY <1>1, <3>1
    <3>3. g[E] = g[F] + w[x]
      <4> HIDE DEF F
      <4>2. \A G \in SUBSET S : \A y \in S \ G : g[G \cup {y}] = g[G] + w[y]
        BY <1>0 DEF Additive
      <4>3. g[F \cup {x}] = g[F] + w[x]
        BY <3>2, <4>2
      <4> QED
        BY <3>2, <4>3
    <3>4. g[T] <= g[F] /\ g[T] \in Int /\ g[F] \in Int /\ w[x] \in Nat
      BY <3>2 DEF IsSum
    <3> HIDE DEF F
    <3> QED
      BY <3>3, <3>4
  <2> QED
    BY <2>1, <2>2
<1>2. SUBSET S \subseteq X
  <2>0. IsFiniteSet(S)
    BY DEF IsSum
  <2>1. \A E \in SUBSET S : (\A F \in SUBSET E : F # E => F \in X) => E \in X
    BY <1>1
  <2> HIDE DEF X
  <2> QED
    BY <2>0, <2>1, SubsetInduction
<1> QED
  BY <1>2

-----------------------------------------------------------------------------
FirstValues(f, h) == {f[i] : i \in 1..h}

\* As many values as positions, when no value repeats.
LEMMA DistinctValues ==
    ASSUME NEW h \in Nat, NEW f, \A i, j \in 1..h : f[i] = f[j] => i = j
    PROVE  /\ IsFiniteSet(FirstValues(f, h))
           /\ Cardinality(FirstValues(f, h)) = h
<1> DEFINE T == FirstValues(f, h)
           b == [i \in 1..h |-> f[i]]
<1>1. b \in Bijection(1..h, T)
  <2>1. b \in [1..h -> T] /\ IsInjective(b)
    BY DEF IsInjective, FirstValues
  <2>2. \A t \in T : \E i \in 1..h : b[i] = t
    BY DEF FirstValues
  <2> QED
    BY <2>1, <2>2 DEF Bijection, Injection, Surjection
<1>2. IsFiniteSet(1..h) /\ Cardinality(1..h) = h
  BY FS_Interval
<1>3. ExistsBijection(1..h, T)
  BY <1>1 DEF ExistsBijection
<1> HIDE DEF T, b
<1>4. IsFiniteSet(T) /\ Cardinality(1..h) = Cardinality(T)
  BY <1>2, <1>3, FS_Bijection
<1> QED
  BY <1>2, <1>4 DEF T


-----------------------------------------------------------------------------
(***************************************************************************)
(* What FlattenSeq makes of a sequence of sequences, and of one more.      *)
(***************************************************************************)
LEMMA AppendIs ==
    ASSUME NEW W, NEW b \in Seq(W), NEW x \in W
    PROVE  Append(b, x) = [e \in 1..(Len(b) + 1) |-> IF e = Len(b) + 1 THEN x ELSE b[e]]
<1> DEFINE c == Append(b, x)
           n == Len(b)
<1>1. /\ c \in Seq(W) /\ Len(c) = n + 1 /\ n \in Nat
      /\ c[n + 1] = x /\ \A e \in 1..n : c[e] = b[e]
  OBVIOUS
<1> HIDE DEF c
<1>2. c = [e \in 1..Len(c) |-> c[e]]
  BY <1>1
<1> HIDE DEF n
<1>3. \A e \in 1..(n + 1) : c[e] = IF e = n + 1 THEN x ELSE b[e]
  BY <1>1
<1>4. c = [e \in 1..(n + 1) |-> IF e = n + 1 THEN x ELSE b[e]]
  BY <1>1, <1>2, <1>3, Zenon
<1> QED
  BY <1>4 DEF c, n

LEMMA ConcatIs ==
    ASSUME NEW W, NEW a \in Seq(W), NEW b \in Seq(W)
    PROVE  /\ a \o b \in Seq(W)
           /\ Len(a \o b) = Len(a) + Len(b)
           /\ \A i \in 1..Len(a) : (a \o b)[i] = a[i]
           /\ \A i \in 1..Len(b) : (a \o b)[Len(a) + i] = b[i]
           /\ \A i \in 1..(Len(a) + Len(b)) : i > Len(a) => (a \o b)[i] = b[i - Len(a)]
<1>1. a \o b \in Seq(W) /\ Len(a \o b) = Len(a) + Len(b) /\ Len(a) \in Nat /\ Len(b) \in Nat
  OBVIOUS
<1>2. \A i \in 1..(Len(a) + Len(b)) :
         (a \o b)[i] = IF i <= Len(a) THEN a[i] ELSE b[i - Len(a)]
  OBVIOUS
<1> DEFINE c == a \o b
<1> HIDE DEF c
<1>3. \A i \in 1..Len(a) : c[i] = a[i]
  BY <1>1, <1>2 DEF c
<1>4. \A i \in 1..(Len(a) + Len(b)) : i > Len(a) => c[i] = b[i - Len(a)]
  BY <1>1, <1>2 DEF c
<1>5. ASSUME NEW i \in 1..Len(b) PROVE c[Len(a) + i] = b[i]
  <2>1. Len(a) + i \in 1..(Len(a) + Len(b)) /\ Len(a) + i > Len(a) /\ (Len(a) + i) - Len(a) = i
    BY <1>1
  <2> QED
    BY <1>4, <2>1
<1> QED
  BY <1>1, <1>3, <1>4, <1>5 DEF c

\* Taking the first of t over to the end of s leaves the whole as it is.
LEMMA AppendFirst ==
    ASSUME NEW W, NEW s \in Seq(W), NEW x \in W, NEW t \in Seq(W), NEW u \in Seq(W),
           Len(t) = Len(u) + 1, t[1] = x, \A i \in 1..Len(u) : u[i] = t[i + 1]
    PROVE  Append(s, x) \o u = s \o t
<1> DEFINE a == Append(s, x)
           p == a \o u
           q == s \o t
           m == Len(s)
           n == Len(u)
<1>1. /\ a \in Seq(W) /\ Len(a) = m + 1 /\ a[m + 1] = x /\ \A i \in 1..m : a[i] = s[i]
      /\ m \in Nat /\ n \in Nat
  OBVIOUS
<1> HIDE DEF a
<1>2. /\ p \in Seq(W) /\ Len(p) = m + 1 + n
      /\ \A i \in 1..(m + 1) : p[i] = a[i]
      /\ \A i \in 1..(m + 1 + n) : i > m + 1 => p[i] = u[i - (m + 1)]
  <2>1. /\ a \o u \in Seq(W)
        /\ Len(a \o u) = Len(a) + Len(u)
        /\ \A i \in 1..Len(a) : (a \o u)[i] = a[i]
        /\ \A i \in 1..(Len(a) + Len(u)) : i > Len(a) => (a \o u)[i] = u[i - Len(a)]
    BY <1>1, ConcatIs, ZenonT(40)
  <2> HIDE DEF p, m, n
  <2> QED
    BY <1>1, <2>1, Zenon DEF p, n
<1>3. /\ q \in Seq(W) /\ Len(q) = m + 1 + n
      /\ \A i \in 1..m : q[i] = s[i]
      /\ \A i \in 1..(m + 1 + n) : i > m => q[i] = t[i - m]
  <2>1. m + Len(t) = m + 1 + n
    BY <1>1
  <2>2. /\ s \o t \in Seq(W)
        /\ Len(s \o t) = Len(s) + Len(t)
        /\ \A i \in 1..Len(s) : (s \o t)[i] = s[i]
        /\ \A i \in 1..(Len(s) + Len(t)) : i > Len(s) => (s \o t)[i] = t[i - Len(s)]
    BY ConcatIs, ZenonT(40)
  <2> HIDE DEF q, m, n
  <2> QED
    BY <2>1, <2>2, Zenon DEF q, m
<1>4. p = [i \in 1..Len(p) |-> p[i]] /\ q = [i \in 1..Len(q) |-> q[i]]
  <2> HIDE DEF p, q
  <2> QED
    BY <1>2, <1>3
<1> HIDE DEF p, q, m, n
<1>5. ASSUME NEW i \in 1..(m + 1 + n) PROVE p[i] = q[i]
  <2>1. CASE i <= m
    BY <1>1, <1>2, <1>3, <2>1
  <2>2. CASE i = m + 1
    <3>1. p[i] = x
      BY <1>1, <1>2, <2>2
    <3>2. q[i] = t[i - m] /\ i - m = 1
      BY <1>1, <1>3, <2>2
    <3> QED
      BY <3>1, <3>2
  <2>3. CASE i > m + 1
    <3>1. p[i] = u[i - (m + 1)] /\ q[i] = t[i - m]
      BY <1>1, <1>2, <1>3, <2>3
    <3>2. i - (m + 1) \in 1..n /\ (i - (m + 1)) + 1 = i - m
      BY <1>1, <2>3
    <3>3. u[i - (m + 1)] = t[(i - (m + 1)) + 1]
      BY <3>2 DEF n
    <3> QED
      BY <3>1, <3>2, <3>3
  <2> QED
    BY <1>1, <2>1, <2>2, <2>3
<1>6. p = q
  BY <1>2, <1>3, <1>4, <1>5, Zenon
<1> QED
  BY <1>6 DEF p, q, a

LEMMA SequenceIs ==
    ASSUME NEW W, NEW n \in Nat, NEW f, \A e \in 1..n : f[e] \in W
    PROVE  [e \in 1..n |-> f[e]] \in Seq(W) /\ Len([e \in 1..n |-> f[e]]) = n
OBVIOUS

\* FlattenSeq starts at its first sequence; starting with none is the same.
LEMMA FlattenIsChained ==
    ASSUME NEW V, NEW s \in Seq(Seq(V))
    PROVE  \E g \in [0..Len(s) -> Seq(V)] :
              Chained(g, Len(s), << >>, s) /\ FlattenSeq(s) = g[Len(s)]
<1> DEFINE m == Len(s)
           P(f) == f = [i \in 1..m |-> IF i = 1 THEN s[i] ELSE f[i - 1] \o s[i]]
<1>1. m \in Nat /\ \A n \in 1..m : s[n] \in Seq(V)
  OBVIOUS
<1>2. << >> \in Seq(V)
  OBVIOUS
<1>3. PICK g \in [0..m -> Seq(V)] : Chained(g, m, << >>, s)
  <2> HIDE DEF m
  <2> QED
    BY <1>1, <1>2, ChainedExist
<1>4. CASE m = 0
  <2>1. FlattenSeq(s) = s /\ s = << >>
    BY <1>4 DEF FlattenSeq
  <2>2. g[m] = << >>
    BY <1>3, <1>4 DEF Chained
  <2> QED
    BY <1>3, <2>1, <2>2
<1>5. CASE m # 0
  <2> DEFINE f == CHOOSE f : P(f)
             e == [i \in 1..m |-> g[i]]
  <2>1. \A i \in 1..m : g[i] = g[i - 1] \o s[i] /\ g[i - 1] \in Seq(V)
    <3>1. \A i \in 1..m : i \in 0..m /\ i # 0 /\ i - 1 \in 0..m
      BY <1>1
    <3> HIDE DEF m
    <3> QED
      BY <1>3, <3>1 DEF Chained
  <2>2. g[0] = << >>
    BY <1>1, <1>3 DEF Chained
  <2>3. \A t \in Seq(V) : << >> \o t = t
    OBVIOUS
  <2>4. ASSUME NEW i \in 1..m PROVE e[i] = IF i = 1 THEN s[i] ELSE e[i - 1] \o s[i]
    <3>1. CASE i = 1
      <4>1. i - 1 = 0 /\ s[i] \in Seq(V) /\ e[i] = g[i]
        BY <1>1, <3>1
      <4>2. g[i] = g[i - 1] \o s[i]
        BY <2>1
      <4> HIDE DEF m, e
      <4>3. g[i] = << >> \o s[i]
        BY <2>2, <4>1, <4>2, Zenon
      <4>4. g[i] = s[i]
        BY <2>3, <4>1, <4>3
      <4> QED
        BY <3>1, <4>1, <4>4
    <3>2. CASE i # 1
      <4>1. i - 1 \in 1..m
        BY <1>1, <3>2
      <4> HIDE DEF m
      <4> QED
        BY <2>1, <3>2, <4>1
    <3> QED
      BY <3>1, <3>2
  <2>5. P(e)
    BY <2>4
  <2>6. P(f)
    <3> HIDE DEF e, m
    <3> QED
      BY <2>5
  <2>7. FlattenSeq(s) = f[m]
    BY <1>5 DEF FlattenSeq
  <2> HIDE DEF f, P, m
  <2> DEFINE S == {n \in Nat : n \in 1..m => f[n] = g[n]}
  <2>8. ASSUME NEW n \in Nat, \A k \in Nat : k < n => k \in S, n \in 1..m
        PROVE  f[n] = g[n]
    <3>1. f[n] = IF n = 1 THEN s[n] ELSE f[n - 1] \o s[n]
      BY <2>6, <2>8 DEF P
    <3>2. g[n] = IF n = 1 THEN s[n] ELSE g[n - 1] \o s[n]
      <4>1. e[n] = IF n = 1 THEN s[n] ELSE e[n - 1] \o s[n]
        BY <2>4, <2>8
      <4>2. e[n] = g[n] /\ (n # 1 => e[n - 1] = g[n - 1])
        BY <1>1, <2>8
      <4> HIDE DEF e, S
      <4> QED
        BY <4>1, <4>2, Zenon
    <3>3. n # 1 => f[n - 1] = g[n - 1]
      BY <1>1, <2>8
    <3> HIDE DEF S, e
    <3> QED
      BY <3>1, <3>2, <3>3
  <2>9. Nat \subseteq S
    <3>1. \A n \in Nat : (\A k \in Nat : k < n => k \in S) => n \in S
      BY <2>8
    <3> HIDE DEF S
    <3> QED
      BY <3>1, NatStrongInduction
  <2>10. m \in 1..m
    BY <1>1, <1>5
  <2> QED
    BY <1>1, <1>3, <2>7, <2>9, <2>10 DEF m
<1> QED
  BY <1>4, <1>5

LEMMA FlattenType ==
    ASSUME NEW V, NEW s \in Seq(Seq(V))
    PROVE  FlattenSeq(s) \in Seq(V)
<1>1. Len(s) \in 0..Len(s)
  OBVIOUS
<1> QED
  BY <1>1, FlattenIsChained

LEMMA FlattenNone == FlattenSeq(<< >>) = << >>
BY DEF FlattenSeq

LEMMA FlattenAppend ==
    ASSUME NEW V, NEW s \in Seq(Seq(V)), NEW x \in Seq(V)
    PROVE  FlattenSeq(Append(s, x)) = FlattenSeq(s) \o x
<1> DEFINE t == Append(s, x)
           m == Len(s)
           n == Len(t)
           nil == << >>
<1>1. /\ t \in Seq(Seq(V)) /\ \A i \in 1..m : s[i] = t[i]
      /\ n = m + 1 /\ t[n] = x /\ m \in Nat
  OBVIOUS
<1>2. PICK f : Chained(f, m, nil, s) /\ FlattenSeq(s) = f[m]
  <2>1. \E g \in [0..Len(s) -> Seq(V)] :
           Chained(g, Len(s), << >>, s) /\ FlattenSeq(s) = g[Len(s)]
    BY FlattenIsChained, Zenon
  <2> QED
    BY <2>1, Zenon
<1>3. PICK g : Chained(g, n, nil, t) /\ FlattenSeq(t) = g[n]
  <2> HIDE DEF t
  <2>1. \E g \in [0..Len(t) -> Seq(V)] :
           Chained(g, Len(t), << >>, t) /\ FlattenSeq(t) = g[Len(t)]
    BY <1>1, FlattenIsChained, Zenon
  <2> QED
    BY <2>1, Zenon
<1> HIDE DEF m, n, nil, t
<1>4. f[m] = g[m]
  <2>1. n \in Nat /\ m <= n /\ m <= m
    BY <1>1
  <2>2. \A i \in 1..m : s[i] = t[i]
    BY <1>1
  <2>3. Chained(f, m, nil, s) /\ Chained(g, n, nil, t) /\ m \in Nat
    BY <1>1, <1>2, <1>3
  <2> QED
    BY <2>1, <2>2, <2>3, ChainedAgree
<1>5. n \in 0..n /\ n # 0 /\ n - 1 = m
  BY <1>1
<1>6. g[n] = g[n - 1] \o t[n]
  BY <1>3, <1>5, Zenon DEF Chained
<1>7. FlattenSeq(t) = FlattenSeq(s) \o x
  BY <1>1, <1>2, <1>3, <1>4, <1>5, <1>6, Zenon
<1> QED
  BY <1>7 DEF t

-----------------------------------------------------------------------------
(***************************************************************************)
(* A set of the first numbers is as long as it has elements.               *)
(***************************************************************************)
LEMMA FirstNumbers ==
    ASSUME NEW n \in Nat, NEW S \in SUBSET (1..n),
           \A j \in S : \A i \in 1..n : i < j => i \in S
    PROVE  Cardinality(S) \in 0..n /\ S = 1..Cardinality(S)
<1>1. CASE S = {}
  <2>1. Cardinality(S) = 0
    BY <1>1, FS_EmptySet
  <2> QED
    BY <1>1, <2>1
<1>2. CASE S # {}
  <2>1. PICK m \in S : m + 1 \notin S
    <3> SUFFICES ASSUME \A m \in S : m + 1 \in S PROVE FALSE
      OBVIOUS
    <3>1. PICK a \in S : TRUE
      BY <1>2
    <3> DEFINE X == {i \in Nat : a + i \in S}
    <3>2. 0 \in X /\ \A i \in Nat : i \in X => i + 1 \in X
      <4>1. a + 0 = a /\ \A i \in Nat : (a + i) + 1 = a + (i + 1)
        OBVIOUS
      <4> QED
        BY <3>1, <4>1
    <3>3. Nat \subseteq X
      <4> HIDE DEF X
      <4> QED
        BY <3>2, NatSetInduction
    <3>4. n \in X
      BY <3>3
    <3>5. a + n \in 1..n
      BY <3>4
    <3> QED
      BY <3>5
  <2>2. S = 1..m
    <3>1. ASSUME NEW i \in S, i > m PROVE FALSE
      <4>1. m + 1 \in 1..n /\ (m + 1 < i \/ m + 1 = i)
        BY <3>1
      <4> QED
        BY <2>1, <4>1
    <3>2. ASSUME NEW i \in 1..m PROVE i \in S
      <4>1. i \in 1..n /\ (i < m \/ i = m)
        BY <3>2
      <4> QED
        BY <4>1
    <3> QED
      <4>1. m \in Nat /\ S \subseteq Nat /\ \A i \in S : 1 <= i /\ ~(i > m)
        BY <3>1
      <4>2. \A i \in S : i \in 1..m
        BY <4>1
      <4> QED
        BY <3>2, <4>2
  <2>3. Cardinality(1..m) = m
    BY FS_Interval
  <2> QED
    BY <2>2, <2>3
<1> QED
  BY <1>1, <1>2

-----------------------------------------------------------------------------
Patches(V) == [start : Int, end : Int, text : Seq(V)]

\* Patches that lie in a text of n bytes, one behind the other.
LaidOut(q, n) ==
    /\ \A i \in DOMAIN q : Valid(q[i], n)
    /\ NeighboursDisjoint(q)

LEMMA DeltaSums ==
    ASSUME NEW V, NEW q \in Seq(Patches(V))
    PROVE  /\ PrefixDelta(q, 0) = 0
           /\ \A k \in 0..Len(q) : PrefixDelta(q, k) \in Int
           /\ \A k \in 1..Len(q) : PrefixDelta(q, k) = PrefixDelta(q, k - 1) + Delta(q[k])
<1> DEFINE m == Len(q)
           a == [i \in 1..m |-> Delta(q[i])]
           P(g) == g = [i \in 0..m |-> IF i = 0 THEN 0 ELSE g[i - 1] + Delta(q[i])]
           f == CHOOSE g : P(g)
<1>1. m \in Nat /\ \A i \in 1..m : q[i] \in Patches(V)
  OBVIOUS
<1>2. \A i \in 1..m : a[i] \in Int /\ a[i] = Delta(q[i])
  BY <1>1 DEF Patches, Delta
<1>3. PICK g : g \in [0..m -> Int] /\ Totals(g, m, 0, a)
  <2>1. m \in Nat /\ 0 \in Int /\ \A i \in 1..m : a[i] \in Int
    BY <1>1, <1>2
  <2> HIDE DEF a, m
  <2>2. \E g \in [0..m -> Int] : Totals(g, m, 0, a)
    BY <2>1, TotalsExist
  <2> QED
    BY <2>2, Zenon
<1>4. P(g)
  <2>1. \A i \in 0..m : i # 0 => a[i] = Delta(q[i])
    BY <1>1
  <2>2. g = [i \in 0..m |-> IF i = 0 THEN 0 ELSE g[i - 1] + a[i]]
    BY <1>3 DEF Totals
  <2> HIDE DEF a
  <2> QED
    BY <2>1, <2>2
<1>5. P(f)
  <2> HIDE DEF P
  <2> QED
    BY <1>4, Zenon
<1>6. Totals(f, m, 0, a)
  <2> HIDE DEF f
  <2> QED
    BY <1>2, <1>5 DEF Totals
<1>7. \A k \in 0..m : f[k] = g[k]
  <2> HIDE DEF f, a, m, P
  <2> SUFFICES ASSUME NEW k \in 0..m PROVE f[k] = g[k]
    OBVIOUS
  <2> QED
    BY <1>1, <1>3, <1>6, TotalsAgree
<1>8. \A k : PrefixDelta(q, k) = f[k]
  BY DEF PrefixDelta
<1>9. /\ g[0] = 0 /\ \A k \in 0..m : g[k] \in Int
      /\ \A k \in 1..m : g[k] = g[k - 1] + Delta(q[k])
  <2> HIDE DEF f, P
  <2>1. g \in [0..m -> Int]
    BY <1>3
  <2>2. g = [i \in 0..m |-> IF i = 0 THEN 0 ELSE g[i - 1] + Delta(q[i])]
    BY <1>4 DEF P
  <2>3. m \in Nat
    BY <1>1
  <2> HIDE DEF a, m
  <2>4. \A k \in 0..m : g[k] = IF k = 0 THEN 0 ELSE g[k - 1] + Delta(q[k])
    BY <2>2, Zenon
  <2>5. 0 \in 0..m /\ \A k \in 1..m : k \in 0..m /\ k # 0
    BY <2>3
  <2>6. g[0] = 0
    BY <2>4, <2>5
  <2>7. \A k \in 1..m : g[k] = g[k - 1] + Delta(q[k])
    BY <2>4, <2>5, Zenon
  <2>8. \A k \in 0..m : g[k] \in Int
    BY <2>1
  <2> QED
    BY <2>6, <2>7, <2>8
<1>10. 0 \in 0..m /\ \A k \in 1..m : k \in 0..m /\ k - 1 \in 0..m
  BY <1>1
<1> HIDE DEF f, P, a, m
<1>11. /\ PrefixDelta(q, 0) = 0
       /\ \A k \in 0..m : PrefixDelta(q, k) \in Int
       /\ \A k \in 1..m : PrefixDelta(q, k) = PrefixDelta(q, k - 1) + Delta(q[k])
  BY <1>7, <1>8, <1>9, <1>10
<1> QED
  BY <1>11 DEF m

\* The patches before a place are the first ones.
LEMMA Apart ==
    ASSUME NEW V, NEW q \in Seq(Patches(V)), NEW n \in Nat, LaidOut(q, n)
    PROVE  \A i, j \in 1..Len(q) : i < j => /\ q[i].end <= q[j].start
                                           /\ q[i].start < q[j].start
<1> DEFINE m == Len(q)
           X == {j \in Nat : j \in 1..m =>
                   \A i \in 1..m : i < j => q[i].end <= q[j].start /\ q[i].start < q[j].start}
<1>1. /\ m \in Nat
      /\ \A i \in 1..m : /\ q[i].start \in Int /\ q[i].end \in Int
                         /\ q[i].start <= q[i].end
  <2>1. \A i \in 1..m : q[i] \in Patches(V) /\ i \in DOMAIN q
    OBVIOUS
  <2> QED
    BY <2>1 DEF Patches, LaidOut, Valid
<1>2. \A j \in 2..m : q[j].start # q[j - 1].start /\ ~(q[j].start < q[j - 1].end)
  BY DEF LaidOut, NeighboursDisjoint, Conflicts
<1>3. \A j \in Nat : j \in X => j + 1 \in X
  <2> SUFFICES ASSUME NEW j \in Nat, j \in X, j + 1 \in 1..m, NEW i \in 1..m, i < j + 1
               PROVE  q[i].end <= q[j + 1].start /\ q[i].start < q[j + 1].start
    OBVIOUS
  <2>1. j \in 1..m /\ j + 1 \in 2..m /\ (j + 1) - 1 = j
    BY <1>1
  <2>2. q[j].end <= q[j + 1].start /\ q[j].start < q[j + 1].start
    BY <1>1, <1>2, <2>1
  <2>3. CASE i = j
    BY <2>2, <2>3
  <2>4. CASE i < j
    <3>1. q[i].end <= q[j].start /\ q[i].start < q[j].start
      BY <2>1, <2>4
    <3> QED
      BY <1>1, <2>1, <2>2, <3>1
  <2> QED
    BY <2>3, <2>4
<1>4. 0 \in X
  OBVIOUS
<1>5. Nat \subseteq X
  <2> HIDE DEF X
  <2> QED
    BY <1>3, <1>4, NatSetInduction
<1> QED
  BY <1>1, <1>5

\* How many patches start before x, or at x too.
LEMMA StartingBefore ==
    ASSUME NEW V, NEW q \in Seq(Patches(V)), NEW n \in Nat, LaidOut(q, n),
           NEW x \in Int, NEW h, h = Cardinality({i \in DOMAIN q : q[i].start < x})
    PROVE  h \in 0..Len(q) /\ \A i \in 1..Len(q) : i <= h <=> q[i].start < x
<1> DEFINE S == {i \in DOMAIN q : q[i].start < x}
<1>1. h = Cardinality(S)
  OBVIOUS
<1>2. /\ Len(q) \in Nat /\ DOMAIN q = 1..Len(q)
      /\ \A i \in 1..Len(q) : q[i].start \in Int
  <2>1. \A i \in 1..Len(q) : q[i] \in Patches(V)
    OBVIOUS
  <2> QED
    BY <2>1 DEF Patches
<1>3. S \subseteq 1..Len(q) /\ \A j \in S : \A i \in 1..Len(q) : i < j => i \in S
  BY <1>2, Apart
<1>4. h \in 0..Len(q) /\ S = 1..h
  <2> HIDE DEF S
  <2> QED
    BY <1>1, <1>2, <1>3, FirstNumbers
<1>5. \A i \in 1..Len(q) : i \in S <=> i <= h
  <2> HIDE DEF S
  <2> SUFFICES ASSUME NEW i \in 1..Len(q) PROVE i \in S <=> i <= h
    OBVIOUS
  <2>1. Len(q) \in Nat
    OBVIOUS
  <2>2. h \in Int /\ i \in Int /\ 1 <= i
    BY <1>4, <2>1
  <2>3. i \in 1..h <=> i <= h
    BY <2>2
  <2> QED
    BY <1>4, <2>3, Zenon
<1> QED
  BY <1>2, <1>4, <1>5

LEMMA StartingUpTo ==
    ASSUME NEW V, NEW q \in Seq(Patches(V)), NEW n \in Nat, LaidOut(q, n),
           NEW x \in Int, NEW h, h = Cardinality({i \in DOMAIN q : q[i].start <= x})
    PROVE  h \in 0..Len(q) /\ \A i \in 1..Len(q) : i <= h <=> q[i].start <= x
<1> DEFINE S == {i \in DOMAIN q : q[i].start <= x}
<1>1. h = Cardinality(S)
  OBVIOUS
<1>2. /\ Len(q) \in Nat /\ DOMAIN q = 1..Len(q)
      /\ \A i \in 1..Len(q) : q[i].start \in Int
  <2>1. \A i \in 1..Len(q) : q[i] \in Patches(V)
    OBVIOUS
  <2> QED
    BY <2>1 DEF Patches
<1>3. S \subseteq 1..Len(q) /\ \A j \in S : \A i \in 1..Len(q) : i < j => i \in S
  BY <1>2, Apart
<1>4. h \in 0..Len(q) /\ S = 1..h
  <2> HIDE DEF S
  <2> QED
    BY <1>1, <1>2, <1>3, FirstNumbers
<1>5. \A i \in 1..Len(q) : i \in S <=> i <= h
  <2> HIDE DEF S
  <2> SUFFICES ASSUME NEW i \in 1..Len(q) PROVE i \in S <=> i <= h
    OBVIOUS
  <2>1. Len(q) \in Nat
    OBVIOUS
  <2>2. h \in Int /\ i \in Int /\ 1 <= i
    BY <1>4, <2>1
  <2>3. i \in 1..h <=> i <= h
    BY <2>2
  <2> QED
    BY <1>4, <2>3, Zenon
<1> QED
  BY <1>2, <1>4, <1>5

-----------------------------------------------------------------------------
Grows(g, m, a) ==
    /\ \A k \in 1..m :
          /\ Len(g[k]) = Len(g[k - 1]) + Len(a[k])
          /\ \A i \in 1..Len(a[k]) : g[k][Len(g[k - 1]) + i] = a[k][i]
    /\ \A k \in 0..m :
          /\ Len(g[k]) <= Len(g[m])
          /\ \A i \in 1..Len(g[k]) : g[m][i] = g[k][i]

LEMMA ChainedPrefix ==
    ASSUME NEW V, NEW m \in Nat, NEW z, NEW a, NEW g,
           Chained(g, m, z, a),
           \A i \in 0..m : g[i] \in Seq(V), \A i \in 1..m : a[i] \in Seq(V)
    PROVE  Grows(g, m, a)
<1>1. \A k \in 1..m : k - 1 \in 0..m /\ k \in 0..m /\ k # 0
  OBVIOUS
<1>2. \A k \in 1..m : g[k] = g[k - 1] \o a[k]
  <2>1. \A k \in 0..m : k # 0 => g[k] = g[k - 1] \o a[k]
    BY DEF Chained
  <2> QED
    BY <1>1, <2>1, Zenon
<1>3. ASSUME NEW k \in 1..m, NEW h \in 0..m, h = k - 1
      PROVE  /\ Len(g[k]) = Len(g[h]) + Len(a[k])
             /\ \A i \in 1..Len(g[h]) : g[k][i] = g[h][i]
             /\ \A i \in 1..Len(a[k]) : g[k][Len(g[h]) + i] = a[k][i]
  <2> DEFINE b == g[h]
             d == a[k]
  <2>1. b \in Seq(V) /\ d \in Seq(V)
    BY <1>1
  <2>2. g[k] = b \o d
    BY <1>2, <1>3
  <2> HIDE DEF b, d
  <2>3. /\ Len(b \o d) = Len(b) + Len(d)
        /\ \A i \in 1..Len(b) : (b \o d)[i] = b[i]
        /\ \A i \in 1..Len(d) : (b \o d)[Len(b) + i] = d[i]
    BY <2>1, ConcatIs
  <2>4. /\ Len(g[k]) = Len(b) + Len(d)
        /\ \A i \in 1..Len(b) : g[k][i] = b[i]
        /\ \A i \in 1..Len(d) : g[k][Len(b) + i] = d[i]
    BY <2>2, <2>3, Zenon
  <2> QED
    BY <2>4 DEF b, d
<1>4. \A i \in 0..m : Len(g[i]) \in Nat
  OBVIOUS
<1>5. \A i \in 1..m : Len(a[i]) \in Nat
  OBVIOUS
<1>6. ASSUME NEW k \in 0..m
      PROVE  /\ Len(g[k]) <= Len(g[m])
             /\ \A i \in 1..Len(g[k]) : g[m][i] = g[k][i]
  <2> DEFINE X == {j \in Nat : k <= j /\ j <= m =>
                     /\ Len(g[k]) <= Len(g[j])
                     /\ \A i \in 1..Len(g[k]) : g[j][i] = g[k][i]}
  <2>1. 0 \in X
    <3>1. k <= 0 => k = 0
      OBVIOUS
    <3> QED
      BY <1>4, <3>1
  <2>2. ASSUME NEW j \in Nat, j \in X PROVE j + 1 \in X
    <3> SUFFICES ASSUME k <= j + 1, j + 1 <= m
                 PROVE  /\ Len(g[k]) <= Len(g[j + 1])
                        /\ \A i \in 1..Len(g[k]) : g[j + 1][i] = g[k][i]
      OBVIOUS
    <3>1. CASE k = j + 1
      BY <1>4, <3>1
    <3>2. CASE k # j + 1
      <4>1. k <= j /\ j <= m /\ j + 1 \in 1..m /\ j \in 0..m /\ j = (j + 1) - 1
        BY <3>2
      <4>2. Len(g[k]) <= Len(g[j]) /\ \A i \in 1..Len(g[k]) : g[j][i] = g[k][i]
        BY <2>2, <4>1
      <4>3. Len(g[j + 1]) = Len(g[j]) + Len(a[j + 1])
        BY <1>3, <4>1, Zenon
      <4>4. \A i \in 1..Len(g[j]) : g[j + 1][i] = g[j][i]
        BY <1>3, <4>1, Zenon
      <4>5. /\ Len(g[j]) \in Nat /\ Len(g[k]) \in Nat /\ Len(a[j + 1]) \in Nat
        BY <1>4, <1>5, <4>1
      <4>6. Len(g[k]) <= Len(g[j + 1])
        <5>1. Len(g[k]) <= Len(g[j])
          BY <4>2
        <5>2. \A x, y, w \in Nat : \A v : x <= y /\ v = y + w => x <= v
          OBVIOUS
        <5> QED
          BY <4>3, <4>5, <5>1, <5>2, Zenon
      <4>7. \A i \in 1..Len(g[k]) : i \in 1..Len(g[j])
        BY <4>2, <4>5
      <4>8. \A i \in 1..Len(g[k]) : g[j + 1][i] = g[k][i]
        BY <4>2, <4>4, <4>7, Zenon
      <4> QED
        BY <4>6, <4>8
    <3> QED
      BY <3>1, <3>2
  <2>3. Nat \subseteq X
    <3> HIDE DEF X
    <3> QED
      BY <2>1, <2>2, NatSetInduction
  <2>4. m \in X
    BY <2>3
  <2> QED
    BY <2>4
<1> QED
  BY <1>1, <1>3, <1>6 DEF Grows

\* The bytes of s from a to b, and one sequence behind another.
IsPart(V, x, s, a, b) ==
    /\ x \in Seq(V) /\ Len(x) = b - a
    /\ \A i \in 1..(b - a) : x[i] = s[a + i]

IsConcat(V, x, a, b) ==
    /\ x \in Seq(V) /\ Len(x) = Len(a) + Len(b)
    /\ \A i \in 1..Len(a) : x[i] = a[i]
    /\ \A i \in 1..Len(b) : x[Len(a) + i] = b[i]

LEMMA SubSeqIs ==
    ASSUME NEW V, NEW s \in Seq(V), NEW a \in Nat, NEW b \in Nat, a <= b, b <= Len(s),
           NEW x, x = SubSeq(s, a + 1, b)
    PROVE  IsPart(V, x, s, a, b)
BY DEF IsPart

LEMMA ConcatOf ==
    ASSUME NEW V, NEW a \in Seq(V), NEW b \in Seq(V), NEW x, x = a \o b
    PROVE  IsConcat(V, x, a, b)
<1>1. IsConcat(V, a \o b, a, b)
  BY ConcatIs DEF IsConcat
<1> QED
  BY <1>1, Zenon

\* What Apply copies and writes for one patch, its cursor at c.
IsPiece(V, x, s, p, c) ==
    /\ x \in Seq(V)
    /\ Len(x) = (p.start - c) + Len(p.text)
    /\ \A i \in 1..(p.start - c) : x[i] = s[c + i]
    /\ \A i \in 1..Len(p.text) : x[(p.start - c) + i] = p.text[i]

LEMMA PieceIs ==
    ASSUME NEW V, NEW s \in Seq(V), NEW p \in Patches(V), NEW c \in Nat,
           c <= p.start, p.start <= Len(s),
           NEW x, x = SubSeq(s, c + 1, p.start) \o p.text
    PROVE  IsPiece(V, x, s, p, c)
<1> DEFINE a == SubSeq(s, c + 1, p.start)
           t == p.text
           e == p.start
<1>1. e \in Nat /\ t \in Seq(V) /\ c <= e /\ e <= Len(s)
  BY DEF Patches
<1>2. IsPart(V, a, s, c, e)
  <2>1. a = SubSeq(s, c + 1, e)
    OBVIOUS
  <2> HIDE DEF a, e
  <2> QED
    BY <1>1, <2>1, SubSeqIs
<1>3. IsConcat(V, x, a, t)
  <2>1. a \in Seq(V) /\ x = a \o t
    BY <1>2 DEF IsPart
  <2> HIDE DEF a, t
  <2> QED
    BY <1>1, <2>1, ConcatOf
<1> HIDE DEF a
<1> QED
  BY <1>2, <1>3 DEF IsPart, IsConcat, IsPiece

-----------------------------------------------------------------------------
\* Where the text goes on behind the first k patches, up to the next one.
Limit(q, k, n) == IF k = Len(q) THEN n ELSE q[k + 1].start

Between(q, k, n, o) == Cursor(q, k) <= o /\ o < Limit(q, k, n)

LEMMA Cursors ==
    ASSUME NEW V, NEW q \in Seq(Patches(V)), NEW n \in Nat, LaidOut(q, n)
    PROVE  /\ \A k \in 0..Len(q) : /\ Cursor(q, k) \in 0..n
                                   /\ Limit(q, k, n) \in 0..n
                                   /\ Cursor(q, k) <= Limit(q, k, n)
           /\ \A k \in 1..Len(q) : /\ Cursor(q, k) = q[k].end
                                   /\ Cursor(q, k - 1) <= q[k].start
                                   /\ Limit(q, k - 1, n) = q[k].start
<1> DEFINE m == Len(q)
<1>1. m \in Nat
  OBVIOUS
<1>2. \A i \in 1..m : /\ q[i].start \in 0..n /\ q[i].end \in 0..n
                      /\ q[i].start <= q[i].end
  <2>1. \A i \in 1..m : q[i] \in Patches(V) /\ i \in DOMAIN q
    OBVIOUS
  <2> QED
    BY <2>1 DEF Patches, LaidOut, Valid
<1>3. \A k \in 1..m : k > 1 => q[k - 1].end <= q[k].start
  BY <1>1, Apart
<1> HIDE DEF m
<1>4. \A k \in 0..m : Cursor(q, k) \in 0..n /\ Limit(q, k, n) \in 0..n
  BY <1>1, <1>2 DEF Cursor, Limit, m
<1>5. \A k \in 1..m : Cursor(q, k) = q[k].end /\ Limit(q, k - 1, n) = q[k].start
  BY <1>1 DEF Cursor, Limit, m
<1>6. \A k \in 1..m : Cursor(q, k - 1) <= q[k].start
  BY <1>1, <1>2, <1>3 DEF Cursor
<1>7. ASSUME NEW k \in 0..m PROVE Cursor(q, k) <= Limit(q, k, n)
  <2>1. CASE k = m
    BY <1>4, <2>1 DEF Limit, m
  <2>2. CASE k # m
    <3>1. k + 1 \in 1..m /\ (k + 1) - 1 = k
      BY <1>1, <2>2
    <3>2. Limit(q, k, n) = q[k + 1].start
      BY <2>2 DEF Limit, m
    <3>3. Cursor(q, (k + 1) - 1) <= q[k + 1].start
      BY <1>6, <3>1, Zenon
    <3> QED
      BY <3>1, <3>2, <3>3
  <2> QED
    BY <2>1, <2>2
<1> QED
  BY <1>4, <1>5, <1>6, <1>7 DEF m

(***************************************************************************)
(* What the result a of Apply holds: between two patches the bytes of s,   *)
(* moved by what the patches in front of them add, at the place of each    *)
(* patch its text, and nothing else.                                       *)
(***************************************************************************)
Lengths(a, s, q) ==
    /\ Len(a) = Len(s) + PrefixDelta(q, Len(q))
    /\ \A k \in 0..Len(q) : /\ 0 <= Cursor(q, k) + PrefixDelta(q, k)
                            /\ Limit(q, k, Len(s)) + PrefixDelta(q, k) <= Len(a)

GapsKept(a, s, q) ==
    \A k \in 0..Len(q) : \A o \in Int :
        Between(q, k, Len(s), o) => a[o + PrefixDelta(q, k) + 1] = s[o + 1]

TextsWritten(a, q) ==
    \A k \in 1..Len(q) :
        /\ 0 <= q[k].start + PrefixDelta(q, k - 1)
        /\ q[k].start + PrefixDelta(q, k - 1) + Len(q[k].text) <= Len(a)
        /\ \A j \in 1..Len(q[k].text) :
              a[q[k].start + PrefixDelta(q, k - 1) + j] = q[k].text[j]

InGap(p, s, q)  == \E k \in 0..Len(q) : \E o \in Int :
                      Between(q, k, Len(s), o) /\ p = o + PrefixDelta(q, k) + 1
InText(p, q)    == \E k \in 1..Len(q) : \E j \in 1..Len(q[k].text) :
                      p = q[k].start + PrefixDelta(q, k - 1) + j

NothingElse(a, s, q) == \A p \in 1..Len(a) : InGap(p, s, q) \/ InText(p, q)

LEMMA SpliceIs ==
    ASSUME NEW V, NEW s \in Seq(V), NEW q \in Seq(Patches(V)), LaidOut(q, Len(s)),
           NEW a, a = Splice(s, q)
    PROVE  /\ a \in Seq(V)
           /\ Lengths(a, s, q) /\ GapsKept(a, s, q)
           /\ TextsWritten(a, q) /\ NothingElse(a, s, q)
<1> DEFINE n == Len(s)
           m == Len(q)
           c(k) == Cursor(q, k)
           l(k) == Limit(q, k, n)
           d(k) == PrefixDelta(q, k)
           w == [k \in 1..m |-> Piece(s, q, k)]
           t == SubSeq(s, Cursor(q, Len(q)) + 1, Len(s))
<1>1. /\ n \in Nat /\ m \in Nat /\ 0 \in 0..m /\ m \in 0..m
      /\ \A k \in 1..m : k \in 0..m /\ k - 1 \in 0..m
  OBVIOUS
<1>2. \A k \in 1..m : /\ q[k] \in Patches(V)
                      /\ q[k].start \in 0..n /\ q[k].end \in 0..n /\ q[k].start <= q[k].end
                      /\ q[k].text \in Seq(V) /\ Len(q[k].text) \in Nat
  <2>1. \A i \in 1..m : q[i] \in Patches(V) /\ i \in DOMAIN q
    OBVIOUS
  <2> QED
    BY <2>1 DEF Patches, LaidOut, Valid
<1>3. \A k \in 0..m : c(k) \in 0..n /\ l(k) \in 0..n /\ c(k) <= l(k) /\ d(k) \in Int
  BY <1>1, Cursors, DeltaSums
<1>4. \A k \in 1..m : /\ c(k) = q[k].end /\ c(k - 1) <= q[k].start /\ l(k - 1) = q[k].start
                      /\ d(k) = d(k - 1) + Len(q[k].text) - (q[k].end - q[k].start)
  <2>1. \A k \in 1..m : c(k) = q[k].end /\ c(k - 1) <= q[k].start /\ l(k - 1) = q[k].start
    BY <1>1, Cursors
  <2>2. \A k \in 1..m : d(k) = d(k - 1) + Delta(q[k])
    BY DeltaSums
  <2> HIDE DEF c, d, l, m
  <2>3. \A k \in 1..m : d(k - 1) \in Int
    BY <1>1, <1>3
  <2> QED
    BY <1>2, <2>1, <2>2, <2>3 DEF Delta
<1>5. c(0) = 0 /\ d(0) = 0 /\ l(m) = n
  BY DeltaSums DEF Cursor, Limit
<1>6. \A k \in 1..m : IsPiece(V, w[k], s, q[k], c(k - 1))
  <2> SUFFICES ASSUME NEW k \in 1..m PROVE IsPiece(V, w[k], s, q[k], c(k - 1))
    OBVIOUS
  <2> DEFINE p == q[k]
             b == c(k - 1)
             x == w[k]
  <2>1. x = SubSeq(s, b + 1, p.start) \o p.text
    BY DEF Piece
  <2>2. p \in Patches(V) /\ b \in Nat /\ b <= p.start /\ p.start <= Len(s)
    <3> HIDE DEF c
    <3> QED
      BY <1>1, <1>2, <1>3, <1>4
  <2> HIDE DEF x, b, p
  <2>3. IsPiece(V, x, s, p, b)
    BY <2>1, <2>2, PieceIs
  <2> QED
    BY <2>3 DEF x, p, b
<1> HIDE DEF c, l, d
<1>7. w \in Seq(Seq(V)) /\ Len(w) = m
  <2>1. \A k \in 1..m : w[k] \in Seq(V)
    BY <1>6 DEF IsPiece
  <2> HIDE DEF m
  <2> QED
    BY <1>1, <2>1
<1>8. PICK g : /\ \A k \in 0..m : g[k] \in Seq(V)
               /\ Chained(g, m, << >>, w) /\ FlattenSeq(w) = g[m]
  <2> HIDE DEF w
  <2>1. \E g \in [0..Len(w) -> Seq(V)] :
           Chained(g, Len(w), << >>, w) /\ FlattenSeq(w) = g[Len(w)]
    BY <1>7, FlattenIsChained
  <2> HIDE DEF m
  <2>2. PICK g \in [0..m -> Seq(V)] : Chained(g, m, << >>, w) /\ FlattenSeq(w) = g[m]
    BY <1>7, <2>1, Zenon
  <2> QED
    BY <2>2
<1> HIDE DEF w
<1>9. Grows(g, m, w)
  <2>1. \A i \in 1..m : w[i] \in Seq(V)
    BY <1>6 DEF IsPiece
  <2> HIDE DEF m
  <2> QED
    BY <1>1, <1>8, <2>1, ChainedPrefix
<1>10. \A k \in 0..m : Len(g[k]) = c(k) + d(k)
  <2> DEFINE X == {k \in Nat : k \in 0..m => Len(g[k]) = c(k) + d(k)}
  <2>1. 0 \in X
    <3>1. g[0] = << >>
      BY <1>1, <1>8 DEF Chained
    <3>2. Len(<< >>) = 0
      OBVIOUS
    <3> QED
      BY <1>5, <3>1, <3>2
  <2>2. ASSUME NEW k \in Nat, k \in X PROVE k + 1 \in X
    <3> SUFFICES ASSUME k + 1 \in 0..m PROVE Len(g[k + 1]) = c(k + 1) + d(k + 1)
      OBVIOUS
    <3> DEFINE h == k + 1
    <3>1. h \in 1..m /\ k \in 0..m /\ k = h - 1
      BY <1>1
    <3> HIDE DEF h
    <3>2. Len(g[h - 1]) = c(h - 1) + d(h - 1)
      BY <2>2, <3>1
    <3>3. Len(g[h]) = Len(g[h - 1]) + Len(w[h])
      BY <1>9, <3>1 DEF Grows
    <3>4. Len(w[h]) = (q[h].start - c(h - 1)) + Len(q[h].text)
      BY <1>6, <3>1 DEF IsPiece
    <3>5. /\ c(h) = q[h].end
          /\ d(h) = d(h - 1) + Len(q[h].text) - (q[h].end - q[h].start)
      BY <1>4, <3>1
    <3>6. /\ c(h - 1) \in Int /\ d(h - 1) \in Int /\ q[h].start \in Int /\ q[h].end \in Int
          /\ Len(q[h].text) \in Int
      BY <1>1, <1>2, <1>3, <3>1
    <3>7. Len(g[h]) = c(h) + d(h)
      BY SMTT(40), <3>2, <3>3, <3>4, <3>5, <3>6
    <3> QED
      BY <3>7 DEF h
  <2>3. Nat \subseteq X
    <3> HIDE DEF X
    <3> QED
      BY <2>1, <2>2, NatSetInduction
  <2> QED
    BY <1>1, <2>3
<1>11. IsPart(V, t, s, c(m), n)
  <2> DEFINE b == c(m)
  <2>1. b \in Nat /\ b <= n /\ n \in Nat /\ n <= Len(s)
    BY <1>1, <1>3
  <2>2. t = SubSeq(s, b + 1, n)
    BY DEF c
  <2> HIDE DEF t, b, n
  <2>3. IsPart(V, t, s, b, n)
    BY <2>1, <2>2, SubSeqIs
  <2> QED
    BY <2>3 DEF b
<1> HIDE DEF t
<1>12. a = g[m] \o t
  <2>1. w = [i \in DOMAIN q |-> Piece(s, q, i)]
    BY DEF w
  <2>2. a = FlattenSeq(w) \o t
    BY <2>1, Zenon DEF Splice, t
  <2> QED
    BY <1>8, <2>2, Zenon
<1>13. IsConcat(V, a, g[m], t)
  <2> DEFINE b == g[m]
  <2>1. b \in Seq(V) /\ t \in Seq(V) /\ a = b \o t
    BY <1>1, <1>8, <1>11, <1>12 DEF IsPart
  <2> HIDE DEF b
  <2>2. IsConcat(V, a, b, t)
    BY <2>1, ConcatOf
  <2> QED
    BY <2>2 DEF b
<1>14. \A k \in 0..m : Len(g[k]) \in Nat /\ Len(g[k]) <= Len(g[m]) /\ Len(g[m]) <= Len(a)
  <2>1. \A k \in 0..m : Len(g[k]) \in Nat
    BY <1>8
  <2>2. Len(t) \in Nat
    BY <1>11 DEF IsPart
  <2>3. \A k \in 0..m : Len(g[k]) <= Len(g[m])
    BY <1>9 DEF Grows
  <2>4. Len(g[m]) \in Nat /\ Len(a) = Len(g[m]) + Len(t)
    BY <1>1, <1>13, <2>1 DEF IsConcat
  <2>5. Len(g[m]) <= Len(a)
    BY <2>2, <2>4
  <2> QED
    BY <2>1, <2>3, <2>5
\* Each piece is found where the pieces before it end.
<1>15. \A k \in 1..m : \A i \in 1..Len(w[k]) : a[Len(g[k - 1]) + i] = w[k][i]
  <2> SUFFICES ASSUME NEW k \in 1..m, NEW i \in 1..Len(w[k])
               PROVE  a[Len(g[k - 1]) + i] = w[k][i]
    OBVIOUS
  <2> DEFINE p == Len(g[k - 1]) + i
  <2>1. Len(g[k]) = Len(g[k - 1]) + Len(w[k]) /\ g[k][p] = w[k][i]
    BY <1>9 DEF Grows
  <2>2. Len(g[k - 1]) \in Nat /\ Len(w[k]) \in Nat
    BY <1>1, <1>6, <1>14 DEF IsPiece
  <2>3. p \in 1..Len(g[k])
    <3>1. Len(g[k]) = Len(g[k - 1]) + Len(w[k])
      BY <2>1
    <3>2. \A x, y \in Nat : \A j \in 1..y : \A z : z = x + y => x + j \in 1..z
      OBVIOUS
    <3> QED
      BY <2>2, <3>1, <3>2, Zenon
  <2>4. Len(g[k]) \in Nat /\ Len(g[m]) \in Nat /\ Len(g[k]) <= Len(g[m])
    BY <1>1, <1>14
  <2> HIDE DEF p
  <2>5. p \in 1..Len(g[m])
    BY <2>3, <2>4
  <2>6. a[p] = g[m][p]
    BY <1>13, <2>5 DEF IsConcat
  <2>7. g[m][p] = g[k][p]
    BY <1>1, <1>9, <2>3 DEF Grows
  <2> QED
    BY <2>1, <2>6, <2>7 DEF p
<1>16. ASSUME NEW k \in 0..m, NEW o \in Int, c(k) <= o, o < l(k)
       PROVE  a[o + d(k) + 1] = s[o + 1]
  <2> DEFINE i == o - c(k) + 1
  <2>1. /\ c(k) \in Nat /\ l(k) \in Nat /\ d(k) \in Int /\ Len(g[k]) = c(k) + d(k)
    BY <1>3, <1>10
  <2>2. i \in 1..(l(k) - c(k)) /\ c(k) + i = o + 1 /\ Len(g[k]) + i = o + d(k) + 1
    BY <1>16, <2>1
  <2>3. CASE k = m
    <3>1. l(k) - c(k) = n - c(m)
      BY <1>5, <2>3
    <3> HIDE DEF i
    <3>2. i \in 1..(n - c(m)) /\ i \in 1..Len(t)
      BY <1>11, <2>2, <3>1 DEF IsPart
    <3>3. t[i] = s[c(m) + i]
      BY <1>11, <3>2 DEF IsPart
    <3>4. a[Len(g[m]) + i] = t[i]
      BY <1>13, <3>2 DEF IsConcat
    <3> QED
      BY <2>2, <2>3, <3>3, <3>4
  <2>4. CASE k # m
    <3> DEFINE h == k + 1
    <3>1. h \in 1..m /\ k = h - 1
      BY <1>1, <2>4
    <3> HIDE DEF h, i
    <3>2. l(k) = q[h].start
      BY <1>4, <3>1
    <3>3. /\ Len(w[h]) = (q[h].start - c(k)) + Len(q[h].text)
          /\ \A x \in 1..(q[h].start - c(k)) : w[h][x] = s[c(k) + x]
      BY <1>6, <3>1 DEF IsPiece
    <3>4. i \in 1..(q[h].start - c(k))
      BY <2>2, <3>2
    <3>5. w[h][i] = s[c(k) + i]
      BY <3>3, <3>4
    <3>6. i \in 1..Len(w[h])
      BY <1>2, <2>1, <3>1, <3>2, <3>3, <3>4
    <3>7. a[Len(g[k]) + i] = w[h][i]
      BY <1>15, <3>1, <3>6
    <3> QED
      BY <2>2, <3>5, <3>7
  <2> QED
    BY <2>3, <2>4
<1>17. ASSUME NEW k \in 1..m, NEW j \in 1..Len(q[k].text)
       PROVE  a[q[k].start + d(k - 1) + j] = q[k].text[j]
  <2> DEFINE b == q[k].start - c(k - 1)
             i == b + j
  <2>1. /\ c(k - 1) \in Nat /\ d(k - 1) \in Int /\ Len(g[k - 1]) = c(k - 1) + d(k - 1)
        /\ q[k].start \in Nat /\ c(k - 1) <= q[k].start /\ Len(q[k].text) \in Nat
    BY SMTT(40), <1>1, <1>2, <1>3, <1>4, <1>10
  <2>2. Len(w[k]) = b + Len(q[k].text) /\ w[k][i] = q[k].text[j]
    BY <1>6 DEF IsPiece
  <2>3. i \in 1..Len(w[k]) /\ Len(g[k - 1]) + i = q[k].start + d(k - 1) + j
    <3>1. Len(w[k]) = b + Len(q[k].text)
      BY <2>2
    <3> QED
      BY SMTT(40), <2>1, <3>1
  <2> HIDE DEF i
  <2>4. a[Len(g[k - 1]) + i] = w[k][i]
    BY <1>15, <2>3
  <2> QED
    BY <2>2, <2>3, <2>4
<1>18. Lengths(a, s, q)
  <2>1. Len(a) = n + d(m)
    <3>1. Len(a) = c(m) + d(m) + Len(t) /\ Len(t) = n - c(m)
      BY <1>1, <1>10, <1>11, <1>13 DEF IsPart, IsConcat
    <3>2. c(m) \in Int /\ d(m) \in Int
      BY <1>1, <1>3
    <3> QED
      BY <1>1, <3>1, <3>2
  <2>2. ASSUME NEW k \in 0..m PROVE 0 <= c(k) + d(k) /\ l(k) + d(k) <= Len(a)
    <3>1. 0 <= c(k) + d(k)
      BY <1>10, <1>14
    <3>2. CASE k = m
      <4>1. l(k) = n /\ d(k) = d(m)
        BY <1>5, <3>2
      <4>2. d(m) \in Int
        BY <1>1, <1>3
      <4> QED
        BY <1>1, <2>1, <3>1, <4>1, <4>2
    <3>3. CASE k # m
      <4> DEFINE h == k + 1
      <4>1. h \in 1..m /\ k = h - 1 /\ h \in 0..m
        BY <1>1, <3>3
      <4> HIDE DEF h
      <4>2. l(k) = q[h].start /\ c(h) = q[h].end
            /\ d(h) = d(k) + Len(q[h].text) - (q[h].end - q[h].start)
        BY <1>4, <4>1
      <4>3. q[h].start \in Int /\ q[h].end \in Int /\ Len(q[h].text) \in Nat /\ d(k) \in Int
        BY <1>2, <1>3, <4>1
      <4>4. Len(g[h]) = c(h) + d(h) /\ Len(g[h]) <= Len(g[m]) /\ Len(g[m]) <= Len(a)
            /\ Len(g[h]) \in Nat /\ Len(g[m]) \in Nat /\ Len(a) \in Nat
        BY <1>1, <1>10, <1>13, <1>14, <4>1 DEF IsConcat
      <4>5. l(k) + d(k) <= Len(g[h])
        <5>1. Len(g[h]) = q[h].end + (d(k) + Len(q[h].text) - (q[h].end - q[h].start))
          BY <4>2, <4>4
        <5>2. l(k) = q[h].start
          BY <4>2
        <5>3. \A u, v, x \in Int : \A y \in Nat : \A z :
                 z = v + (x + y - (v - u)) => u + x <= z
          OBVIOUS
        <5> QED
          BY <4>3, <5>1, <5>2, <5>3, Zenon
      <4> QED
        BY <3>1, <4>2, <4>3, <4>4, <4>5
    <3> QED
      BY <3>2, <3>3, <3>1
  <2> QED
    BY <2>1, <2>2 DEF Lengths, c, l, d
<1>19. GapsKept(a, s, q)
  BY <1>16 DEF GapsKept, Between, c, l, d
<1>20. TextsWritten(a, q)
  <2>1. ASSUME NEW k \in 1..m
        PROVE  /\ 0 <= q[k].start + d(k - 1)
               /\ q[k].start + d(k - 1) + Len(q[k].text) <= Len(a)
    <3>1. /\ c(k - 1) \in Nat /\ d(k - 1) \in Int /\ Len(g[k - 1]) = c(k - 1) + d(k - 1)
          /\ q[k].start \in Nat /\ c(k - 1) <= q[k].start /\ Len(q[k].text) \in Nat
          /\ Len(g[k - 1]) \in Nat
      BY SMTT(40), <1>1, <1>2, <1>3, <1>4, <1>10, <1>14
    <3>2. /\ Len(g[k]) = c(k) + d(k) /\ Len(g[k]) <= Len(g[m]) /\ Len(g[m]) <= Len(a)
          /\ Len(g[k]) \in Nat /\ Len(g[m]) \in Nat /\ Len(a) \in Nat
      BY <1>1, <1>10, <1>13, <1>14 DEF IsConcat
    <3>3. /\ c(k) = q[k].end /\ q[k].end \in Nat
          /\ d(k) = d(k - 1) + Len(q[k].text) - (q[k].end - q[k].start)
      BY <1>2, <1>4
    <3>4. Len(g[k]) = q[k].start + d(k - 1) + Len(q[k].text)
      BY SMTT(40), <3>1, <3>2, <3>3
    <3>5. Len(g[k]) <= Len(a)
      BY <3>2
    <3> QED
      BY <3>1, <3>4, <3>5
  <2> QED
    BY <1>17, <2>1 DEF TextsWritten, d
<1>21. NothingElse(a, s, q)
  <2> DEFINE Found(p) == InGap(p, s, q) \/ InText(p, q)
             X == {k \in Nat : k \in 0..m => \A p \in 1..Len(g[k]) : Found(p)}
  <2>1. 0 \in X
    <3>1. Len(g[0]) = 0
      BY <1>1, <1>5, <1>10
    <3> QED
      BY <3>1
  <2>2. ASSUME NEW x \in Nat, x \in X, x + 1 \in 0..m, NEW p \in 1..Len(g[x + 1])
        PROVE  Found(p)
    <3> DEFINE k == x + 1
    <3>1. k \in 1..m /\ x = k - 1 /\ x \in 0..m /\ p \in 1..Len(g[k])
      BY <1>1, <2>2
    <3> HIDE DEF k
    <3>2. CASE p <= Len(g[x])
      <4>1. p \in 1..Len(g[x])
        BY <3>2, <1>14, <3>1
      <4> QED
        BY <2>2, <3>1, <4>1
    <3>3. CASE p > Len(g[x])
      <4> DEFINE i == p - Len(g[x])
                 b == q[k].start - c(x)
      <4>1. Len(g[k]) = Len(g[x]) + Len(w[k]) /\ Len(w[k]) = b + Len(q[k].text)
        BY <1>6, <1>9, <3>1 DEF IsPiece, Grows
      <4>2. /\ c(x) \in Nat /\ d(x) \in Int /\ Len(g[x]) = c(x) + d(x) /\ Len(g[x]) \in Nat
            /\ q[k].start \in Nat /\ c(x) <= q[k].start /\ l(x) = q[k].start
            /\ Len(q[k].text) \in Nat
        BY SMTT(40), <1>1, <1>2, <1>3, <1>4, <1>10, <1>14, <3>1
      <4>3. CASE i <= b
        <5> DEFINE o == c(x) + i - 1
        <5>1. o \in Int /\ c(x) <= o /\ o < l(x) /\ p = o + d(x) + 1
          <6> DEFINE C == c(x)
                     D == d(x)
                     S == q[k].start
                     G == Len(g[x])
          <6>1. /\ G = C + D /\ p > G /\ p - G <= S - C /\ l(x) = S
                /\ C \in Int /\ D \in Int /\ S \in Int
            BY <3>3, <4>2, <4>3
          <6>2. p \in Int
            BY <3>1
          <6>3. o = C + (p - G) - 1
            OBVIOUS
          <6> HIDE DEF C, D, S, G, o
          <6>4. o \in Int /\ C <= o /\ o < S /\ p = o + D + 1
            BY <6>1, <6>2, <6>3
          <6> QED
            BY <6>1, <6>4 DEF C, D
        <5> HIDE DEF o
        <5>2. InGap(p, s, q)
          BY <3>1, <5>1 DEF InGap, Between, c, l, d
        <5> QED
          BY <5>2
      <4>4. CASE i > b
        <5> DEFINE j == i - b
        <5>1. j \in 1..Len(q[k].text) /\ p = q[k].start + d(k - 1) + j
          <6>1. i <= Len(w[k]) /\ p \in Int /\ Len(w[k]) = b + Len(q[k].text)
            <7>1. \A y \in Nat : \A v, z : \A u \in 1..z : z = y + v /\ v \in Int => u - y <= v
              OBVIOUS
            <7>2. b + Len(q[k].text) \in Int
              BY <4>2
            <7> QED
              BY <3>1, <4>1, <4>2, <7>1, <7>2
          <6>2. b \in Int /\ i \in Int
            BY SMTT(40), <4>2, <6>1
          <6>3. j \in 1..Len(q[k].text)
            <7>1. \A u, v \in Int : \A y \in Nat : u > v /\ u <= v + y => u - v \in 1..y
              OBVIOUS
            <7> HIDE DEF b, i
            <7>2. i <= b + Len(q[k].text)
              BY <6>1
            <7> QED
              BY <4>2, <4>4, <6>2, <7>1, <7>2
          <6>4. p = q[k].start + d(x) + j
            BY SMTT(40), <4>2, <6>1
          <6> QED
            BY <3>1, <6>3, <6>4
        <5> HIDE DEF j
        <5>2. InText(p, q)
          BY <3>1, <5>1 DEF InText, d
        <5> QED
          BY <5>2
      <4> QED
        BY <3>1, <4>2, <4>3, <4>4
    <3> QED
      BY <1>14, <3>1, <3>2, <3>3
  <2>3. Nat \subseteq X
    <3>1. \A x \in Nat : x \in X => x + 1 \in X
      BY <2>2
    <3> HIDE DEF X
    <3> QED
      BY <2>1, <3>1, NatSetInduction
  <2>4. ASSUME NEW p \in 1..Len(a) PROVE Found(p)
    <3>1. /\ Len(g[m]) = c(m) + d(m) /\ Len(g[m]) \in Nat /\ c(m) \in Nat /\ d(m) \in Int
          /\ Len(a) = Len(g[m]) + Len(t) /\ Len(t) = n - c(m) /\ l(m) = n
      <4>1. Len(a) = Len(g[m]) + Len(t) /\ Len(t) = n - c(m)
        BY <1>11, <1>13 DEF IsPart, IsConcat
      <4>2. c(m) \in Nat /\ d(m) \in Int
        BY <1>1, <1>3
      <4>3. Len(g[m]) = c(m) + d(m) /\ Len(g[m]) \in Nat
        BY <1>1, <1>10, <1>14
      <4> QED
        BY <1>5, <4>1, <4>2, <4>3
    <3>2. CASE p <= Len(g[m])
      <4>1. p \in 1..Len(g[m])
        BY <3>1, <3>2
      <4>2. m \in X
        BY <1>1, <2>3
      <4> QED
        BY <1>1, <4>1, <4>2
    <3>3. CASE p > Len(g[m])
      <4> DEFINE o == p - d(m) - 1
      <4>1. o \in Int /\ c(m) <= o /\ o < l(m) /\ p = o + d(m) + 1
        <5>1. \A u, v, y, z \in Int : \A e :
                 e = u + v /\ y > e /\ y <= e + (z - u) =>
                    LET r == y - v - 1 IN
                    r \in Int /\ u <= r /\ r < z /\ y = r + v + 1
          OBVIOUS
        <5>2. p \in Int /\ p <= Len(g[m]) + (n - c(m)) /\ c(m) \in Int /\ n \in Int
          BY <1>1, <3>1
        <5> QED
          BY <3>1, <3>3, <5>1, <5>2
      <4> HIDE DEF o
      <4>2. InGap(p, s, q)
        BY <1>1, <4>1 DEF InGap, Between, c, l, d
      <4> QED
        BY <4>2
    <3> QED
      BY <3>1, <3>2, <3>3
  <2> QED
    BY <2>4 DEF NothingElse
<1> QED
  BY <1>13, <1>18, <1>19, <1>20, <1>21 DEF IsConcat

-----------------------------------------------------------------------------
(***************************************************************************)
(* The sorted patches are the patches, in order.                           *)
(***************************************************************************)
Sorted(q) == \A i, j \in 1..Len(q) : i < j => ~Before(q[j], q[i])

\* u is v with p in it as number h + 1.
IsInserted(u, v, p, h) ==
    /\ h \in 0..Len(v) /\ Len(u) = Len(v) + 1
    /\ \A i \in 1..h : u[i] = v[i]
    /\ u[h + 1] = p
    /\ \A i \in (h + 1)..Len(v) : u[i + 1] = v[i]

LEMMA InsertAtIs ==
    ASSUME NEW W, NEW v \in Seq(W), NEW p \in W, NEW h \in 0..Len(v),
           NEW u, u = InsertAt(v, h + 1, p)
    PROVE  u \in Seq(W) /\ IsInserted(u, v, p, h)
<1> DEFINE n == Len(v)
           a == SubSeq(v, 0 + 1, h)
           b == <<p>>
           c == SubSeq(v, h + 1, n)
           x == a \o b
<1>1. n \in Nat /\ h \in Nat /\ h <= n /\ 0 \in Nat /\ 0 <= h
  OBVIOUS
<1>2. IsPart(W, a, v, 0, h) /\ IsPart(W, c, v, h, n)
  <2>1. a = SubSeq(v, 0 + 1, h) /\ c = SubSeq(v, h + 1, n) /\ n = Len(v)
    OBVIOUS
  <2> HIDE DEF a, c, n
  <2>2. n <= Len(v) /\ h <= Len(v)
    BY <1>1, <2>1
  <2>3. IsPart(W, a, v, 0, h)
    BY <1>1, <2>1, <2>2, SubSeqIs
  <2>4. IsPart(W, c, v, h, n)
    BY <1>1, <2>1, <2>2, SubSeqIs
  <2> QED
    BY <2>3, <2>4
<1>3. u = x \o c
  <2>1. (h + 1) - 1 = h /\ 0 + 1 = 1
    OBVIOUS
  <2>2. u = SubSeq(v, 1, (h + 1) - 1) \o <<p>> \o SubSeq(v, h + 1, Len(v))
    BY DEF InsertAt
  <2> QED
    BY <2>1, <2>2
<1>4. b \in Seq(W) /\ Len(b) = 1 /\ b[1] = p
  OBVIOUS
<1>5. a \in Seq(W) /\ c \in Seq(W)
  BY <1>2 DEF IsPart
<1>6. IsConcat(W, x, a, b)
  <2>1. x = a \o b
    OBVIOUS
  <2> HIDE DEF x, a, b
  <2> QED
    BY <1>4, <1>5, <2>1, ConcatOf
<1>7. IsConcat(W, u, x, c)
  <2>1. x \in Seq(W)
    BY <1>6 DEF IsConcat
  <2> HIDE DEF x, c
  <2> QED
    BY <1>3, <1>5, <2>1, ConcatOf
<1> HIDE DEF x, a, b, c, n
<1>8. Len(a) = h /\ Len(c) = n - h /\ Len(x) = h + 1 /\ Len(u) = (h + 1) + (n - h)
  <2>1. Len(a) = h - 0 /\ Len(c) = n - h
    BY <1>2 DEF IsPart
  <2>2. Len(x) = Len(a) + Len(b) /\ Len(u) = Len(x) + Len(c)
    BY <1>6, <1>7 DEF IsConcat
  <2> QED
    BY <1>1, <1>4, <2>1, <2>2
<1>9. ASSUME NEW i \in 1..h PROVE u[i] = v[i]
  <2>1. i \in 1..Len(a) /\ i \in 1..Len(x) /\ i \in 1..(h - 0) /\ 0 + i = i
    BY <1>1, <1>8
  <2>2. u[i] = x[i] /\ x[i] = a[i]
    BY <1>6, <1>7, <2>1 DEF IsConcat
  <2>3. a[i] = v[0 + i]
    BY <1>2, <2>1 DEF IsPart
  <2> QED
    BY <2>1, <2>2, <2>3
<1>10. u[h + 1] = p
  <2>1. h + 1 \in 1..Len(x) /\ 1 \in 1..Len(b) /\ Len(a) = h
    BY <1>1, <1>4, <1>8
  <2>2. u[h + 1] = x[h + 1]
    BY <1>7, <2>1 DEF IsConcat
  <2>3. x[Len(a) + 1] = b[1]
    BY <1>6, <2>1 DEF IsConcat
  <2> QED
    BY <1>4, <2>1, <2>2, <2>3
<1>11. ASSUME NEW i \in (h + 1)..n PROVE u[i + 1] = v[i]
  <2> DEFINE j == i - h
  <2>1. j \in 1..(n - h) /\ j \in 1..Len(c) /\ h + j = i /\ (h + 1) + j = i + 1
    BY <1>1, <1>8
  <2> HIDE DEF j
  <2>2. u[Len(x) + j] = c[j]
    BY <1>7, <2>1 DEF IsConcat
  <2>3. c[j] = v[h + j]
    BY <1>2, <2>1 DEF IsPart
  <2>4. Len(x) + j = i + 1
    BY <1>8, <2>1
  <2> QED
    BY <2>1, <2>2, <2>3, <2>4
<1>12. Len(u) = n + 1
  BY <1>1, <1>8
<1>13. u \in Seq(W)
  BY <1>7 DEF IsConcat
<1> QED
  BY <1>1, <1>9, <1>10, <1>11, <1>12, <1>13 DEF IsInserted, n

LEMMA InsertedIs ==
    ASSUME NEW V, NEW v \in Seq(Patches(V)), Sorted(v), NEW p \in Patches(V),
           NEW u, u = Inserted(v, p)
    PROVE  u \in Seq(Patches(V)) /\ Sorted(u) /\ \E h : IsInserted(u, v, p, h)
<1> DEFINE S == {i \in DOMAIN v : ~Before(p, v[i])}
           n == Len(v)
           h == Cardinality(S)
<1>1. n \in Nat /\ DOMAIN v = 1..n
  OBVIOUS
<1>2. \A i \in 1..n : v[i] \in Patches(V) /\ v[i].start \in Int /\ v[i].end \in Int
  <2>1. \A i \in 1..n : v[i] \in Patches(V)
    OBVIOUS
  <2> QED
    BY <2>1 DEF Patches
<1>3. p.start \in Int /\ p.end \in Int
  BY DEF Patches
<1>4. \A i, j \in 1..n : i < j => ~Before(v[j], v[i])
  BY DEF Sorted
<1>5. \A j \in S : \A i \in 1..n : i < j => i \in S
  BY <1>1, <1>2, <1>3, <1>4 DEF Before
<1>6. h \in 0..n /\ S = 1..h
  <2>1. S \in SUBSET (1..n)
    BY <1>1
  <2> HIDE DEF S, n
  <2> QED
    BY <1>1, <1>5, <2>1, FirstNumbers
<1>7. u = InsertAt(v, h + 1, p)
  BY DEF Inserted, HowMany
<1> HIDE DEF h
<1>8. u \in Seq(Patches(V)) /\ IsInserted(u, v, p, h)
  BY <1>6, <1>7, InsertAtIs
<1>9. \A i \in 1..n : i <= h <=> ~Before(p, v[i])
  <2>1. h \in Nat
    BY <1>1, <1>6
  <2>2. \A i \in 1..n : i \in 1..h <=> i <= h
    BY <1>1, <2>1
  <2>3. \A i \in 1..n : i \in S <=> ~Before(p, v[i])
    BY <1>1
  <2> HIDE DEF S
  <2> QED
    BY <1>6, <2>2, <2>3, Zenon
<1>10. Sorted(u)
  <2> DEFINE from(i) == IF i <= h THEN i ELSE i - 1
  <2>1. h \in Nat /\ h <= n /\ Len(u) = n + 1
    BY <1>1, <1>6, <1>8 DEF IsInserted
  <2>2. \A i \in 1..Len(u) : i # h + 1 => from(i) \in 1..n /\ u[i] = v[from(i)]
    <3> SUFFICES ASSUME NEW i \in 1..Len(u), i # h + 1 PROVE from(i) \in 1..n /\ u[i] = v[from(i)]
      OBVIOUS
    <3>1. CASE i <= h
      <4>1. i \in 1..h /\ i \in 1..n
        BY <2>1, <3>1
      <4> QED
        BY <1>8, <3>1, <4>1 DEF IsInserted
    <3>2. CASE i > h
      <4> DEFINE j == i - 1
      <4>1. j \in (h + 1)..n /\ j \in 1..n /\ j + 1 = i /\ ~(i <= h)
        BY <1>1, <2>1, <3>2
      <4> HIDE DEF j
      <4>2. u[j + 1] = v[j]
        BY <1>8, <4>1 DEF IsInserted
      <4>3. j = i - 1
        BY DEF j
      <4> QED
        BY <4>1, <4>2, <4>3
    <3> QED
      BY <2>1, <3>1, <3>2
  <2>3. u[h + 1] = p
    BY <1>8 DEF IsInserted
  <2>4. ASSUME NEW i \in 1..Len(u), NEW j \in 1..Len(u), i < j PROVE ~Before(u[j], u[i])
    <3>1. CASE i = h + 1
      <4>1. from(j) \in 1..n /\ u[j] = v[from(j)] /\ ~(from(j) <= h)
        BY <1>1, <2>1, <2>2, <2>4, <3>1
      <4> HIDE DEF from
      <4>2. Before(p, v[from(j)])
        BY <1>9, <4>1
      <4>3. v[from(j)].start \in Int /\ v[from(j)].end \in Int
        BY <1>2, <4>1
      <4> QED
        BY <1>3, <2>3, <3>1, <4>1, <4>2, <4>3 DEF Before
    <3>2. CASE j = h + 1
      <4>1. from(i) \in 1..n /\ u[i] = v[from(i)] /\ from(i) <= h
        BY <1>1, <2>1, <2>2, <2>4, <3>2
      <4> HIDE DEF from
      <4>2. ~Before(p, v[from(i)])
        BY <1>9, <4>1
      <4> QED
        BY <2>3, <3>2, <4>1, <4>2
    <3>3. CASE i # h + 1 /\ j # h + 1
      <4>1. from(i) \in 1..n /\ u[i] = v[from(i)] /\ from(j) \in 1..n /\ u[j] = v[from(j)]
        BY <2>2, <3>3
      <4>2. from(i) < from(j)
        BY <1>1, <2>1, <2>4, <3>3
      <4> HIDE DEF from
      <4> QED
        BY <1>4, <4>1, <4>2
    <3> QED
      BY <3>1, <3>2, <3>3
  <2> QED
    BY <2>4 DEF Sorted
<1> QED
  BY <1>8, <1>10

\* The elements of u are the first k of patches.
HoldsFirst(u, patches, k) ==
    /\ \A j \in 1..Len(u) : \E i \in 1..k : patches[i] = u[j]
    /\ \A i \in 1..k : \E j \in 1..Len(u) : u[j] = patches[i]

LEMMA InsertedHolds ==
    ASSUME NEW u, NEW v, NEW h, NEW patches, NEW k \in Nat,
           Len(v) \in Nat, IsInserted(u, v, patches[k + 1], h), HoldsFirst(v, patches, k)
    PROVE  HoldsFirst(u, patches, k + 1)
<1>1. h \in Nat /\ h <= Len(v) /\ Len(u) = Len(v) + 1
  BY DEF IsInserted
<1>2. \A i \in 1..h : u[i] = v[i]
  BY DEF IsInserted
<1>3. u[h + 1] = patches[k + 1]
  BY DEF IsInserted
<1>4. \A i \in (h + 1)..Len(v) : u[i + 1] = v[i]
  BY DEF IsInserted
<1>5. \A j \in 1..Len(v) : \E i \in 1..k : patches[i] = v[j]
  BY DEF HoldsFirst
<1>6. \A i \in 1..k : \E j \in 1..Len(v) : v[j] = patches[i]
  BY DEF HoldsFirst
<1>7. k + 1 \in 1..(k + 1) /\ \A i \in 1..k : i \in 1..(k + 1)
  OBVIOUS
<1>8. ASSUME NEW j \in 1..Len(u) PROVE \E i \in 1..(k + 1) : patches[i] = u[j]
  <2>1. CASE j = h + 1
    BY <1>3, <1>7, <2>1
  <2>2. CASE j <= h
    <3>1. j \in 1..h /\ j \in 1..Len(v)
      BY <1>1, <2>2
    <3>2. PICK i \in 1..k : patches[i] = v[j]
      BY <1>5, <3>1
    <3> QED
      BY <1>2, <1>7, <3>1, <3>2
  <2>3. CASE j > h + 1
    <3> DEFINE x == j - 1
    <3>1. x \in (h + 1)..Len(v) /\ x \in 1..Len(v) /\ x + 1 = j
      BY <1>1, <2>3
    <3> HIDE DEF x
    <3>2. PICK i \in 1..k : patches[i] = v[x]
      BY <1>5, <3>1
    <3>3. u[x + 1] = v[x]
      BY <1>4, <3>1
    <3> QED
      BY <1>7, <3>1, <3>2, <3>3
  <2> QED
    BY <1>1, <2>1, <2>2, <2>3
<1>9. ASSUME NEW i \in 1..(k + 1) PROVE \E j \in 1..Len(u) : u[j] = patches[i]
  <2>1. CASE i = k + 1
    <3>1. h + 1 \in 1..Len(u)
      BY <1>1
    <3> QED
      BY <1>3, <2>1, <3>1
  <2>2. CASE i # k + 1
    <3>1. i \in 1..k
      BY <2>2
    <3>2. PICK x \in 1..Len(v) : v[x] = patches[i]
      BY <1>6, <3>1
    <3>3. CASE x <= h
      <4>1. x \in 1..h /\ x \in 1..Len(u)
        BY <1>1, <3>3
      <4> QED
        BY <1>2, <3>2, <4>1
    <3>4. CASE x > h
      <4>1. x \in (h + 1)..Len(v) /\ x + 1 \in 1..Len(u)
        BY <1>1, <3>4
      <4>2. u[x + 1] = v[x]
        BY <1>4, <4>1
      <4> QED
        BY <3>2, <4>1, <4>2
    <3> QED
      BY <1>1, <3>3, <3>4
  <2> QED
    BY <2>1, <2>2
<1> QED
  BY <1>8, <1>9 DEF HoldsFirst

IsInOrder(V, q, patches) ==
    /\ q \in Seq(Patches(V)) /\ Sorted(q)
    /\ Len(q) = Len(patches) /\ HoldsFirst(q, patches, Len(patches))

LEMMA InOrderIs ==
    ASSUME NEW V, NEW patches \in Seq(Patches(V)), NEW q, q = InOrder(patches)
    PROVE  IsInOrder(V, q, patches)
<1> DEFINE m == Len(patches)
           D == 0..m
           W == {v \in Seq(Patches(V)) : Sorted(v)}
           h == [x \in W \X D |-> IF x[2] = 0 THEN << >> ELSE Inserted(x[1], patches[x[2]])]
           P(g) == g = [i \in 0..m |->
                          IF i = 0 THEN << >> ELSE Inserted(g[i - 1], patches[i])]
           f == CHOOSE g : P(g)
<1>1. m \in Nat /\ IsInitial(D) /\ \A i \in 1..m : patches[i] \in Patches(V)
  BY DEF IsInitial
<1>2. << >> \in W
  BY DEF Sorted
<1>3. \A v \in W : \A i \in D : i # 0 => /\ h[<<v, i>>] = Inserted(v, patches[i])
                                       /\ Inserted(v, patches[i]) \in W
  <2> SUFFICES ASSUME NEW v \in W, NEW i \in D, i # 0
               PROVE  /\ h[<<v, i>>] = Inserted(v, patches[i])
                      /\ Inserted(v, patches[i]) \in W
    OBVIOUS
  <2>1. <<v, i>> \in W \X D /\ <<v, i>>[1] = v /\ <<v, i>>[2] = i
    OBVIOUS
  <2>2. h[<<v, i>>] = Inserted(v, patches[i])
    <3> HIDE DEF W, D
    <3> QED
      BY <2>1
  <2>3. v \in Seq(Patches(V)) /\ Sorted(v) /\ patches[i] \in Patches(V)
    BY <1>1
  <2> DEFINE p == patches[i]
             u == Inserted(v, p)
  <2>4. u = Inserted(v, p) /\ p \in Patches(V)
    BY <2>3
  <2> HIDE DEF p, u
  <2>5. u \in Seq(Patches(V)) /\ Sorted(u)
    BY <2>3, <2>4, InsertedIs
  <2> QED
    BY <2>2, <2>5 DEF p, u
<1>4. PICK g : g \in [D -> W] /\ Steps(g, D, << >>, h)
  <2>1. \A v \in W : \A i \in D : i # 0 => h[<<v, i>>] \in W
    BY <1>3
  <2> HIDE DEF W, D, h
  <2>2. \E g \in [D -> W] : Steps(g, D, << >>, h)
    BY <1>1, <1>2, <2>1, StepsExist
  <2> QED
    BY <2>2, Zenon
<1>5. P(g)
  <2>1. \A i \in D : i # 0 => i - 1 \in D
    BY <1>1
  <2>2. \A i \in D : i # 0 => g[i - 1] \in W
    BY <1>4, <2>1
  <2>3. \A i \in D : i # 0 => h[<<g[i - 1], i>>] = Inserted(g[i - 1], patches[i])
    BY <1>3, <2>2, Zenon
  <2>4. g = [i \in D |-> IF i = 0 THEN << >> ELSE h[<<g[i - 1], i>>]]
    BY <1>4 DEF Steps
  <2> HIDE DEF h, W
  <2> QED
    BY <2>3, <2>4
<1>6. P(f)
  <2> HIDE DEF P
  <2> QED
    BY <1>5, Zenon
<1>7. q = f[m]
  BY DEF InOrder
<1> HIDE DEF f, W, h
<1>8. f[0] = << >> /\ \A i \in 1..m : f[i] = Inserted(f[i - 1], patches[i])
  <2>1. \A i \in 0..m : f[i] = IF i = 0 THEN << >> ELSE Inserted(f[i - 1], patches[i])
    BY <1>6, Zenon DEF P
  <2>2. 0 \in 0..m /\ \A i \in 1..m : i \in 0..m /\ i # 0
    BY <1>1
  <2> QED
    BY <2>1, <2>2, Zenon
<1> HIDE DEF P
<1> DEFINE X == {k \in Nat : k \in 0..m =>
                   /\ f[k] \in Seq(Patches(V)) /\ Sorted(f[k]) /\ Len(f[k]) = k
                   /\ HoldsFirst(f[k], patches, k)}
<1>9. 0 \in X
  <2> DEFINE e == << >>
  <2>1. e \in Seq(Patches(V)) /\ Len(e) = 0 /\ 1..0 = {}
    OBVIOUS
  <2> HIDE DEF e
  <2>2. Sorted(e) /\ HoldsFirst(e, patches, 0)
    BY <2>1 DEF Sorted, HoldsFirst
  <2>3. f[0] = e
    BY <1>8 DEF e
  <2> QED
    BY <2>1, <2>2, <2>3
<1>10. ASSUME NEW k \in Nat, k \in X, k + 1 \in 0..m
       PROVE  /\ f[k + 1] \in Seq(Patches(V)) /\ Sorted(f[k + 1]) /\ Len(f[k + 1]) = k + 1
              /\ HoldsFirst(f[k + 1], patches, k + 1)
  <2> DEFINE v == f[k]
             u == f[k + 1]
             p == patches[k + 1]
  <2>1. k \in 0..m /\ k + 1 \in 1..m /\ (k + 1) - 1 = k
    BY <1>1, <1>10
  <2>2. v \in Seq(Patches(V)) /\ Sorted(v) /\ Len(v) = k /\ HoldsFirst(v, patches, k)
    BY <1>10, <2>1
  <2>3. u = Inserted(v, p) /\ p \in Patches(V)
    <3>1. f[k + 1] = Inserted(f[(k + 1) - 1], patches[k + 1])
      BY <1>8, <2>1, Zenon
    <3> QED
      BY <1>1, <2>1, <3>1
  <2>4. p = patches[k + 1]
    OBVIOUS
  <2> HIDE DEF u, v, p
  <2>5. u \in Seq(Patches(V)) /\ Sorted(u) /\ \E x : IsInserted(u, v, p, x)
    BY <2>2, <2>3, InsertedIs
  <2>6. PICK x : IsInserted(u, v, patches[k + 1], x)
    BY <2>4, <2>5, Zenon
  <2>7. Len(u) = k + 1
    BY <2>2, <2>6 DEF IsInserted
  <2>8. HoldsFirst(u, patches, k + 1)
    BY <2>2, <2>6, InsertedHolds
  <2> QED
    BY <2>5, <2>7, <2>8 DEF u
<1>11. Nat \subseteq X
  <2>1. \A k \in Nat : k \in X => k + 1 \in X
    BY <1>10
  <2> HIDE DEF X
  <2> QED
    BY <1>9, <2>1, NatSetInduction
<1>12. m \in X
  BY <1>1, <1>11
<1> QED
  BY <1>1, <1>7, <1>12 DEF IsInOrder

-----------------------------------------------------------------------------
LEMMA NoPatch ==
    ASSUME NEW n
    PROVE  LaidOut(<< >>, n) /\ InOrder(<< >>) = << >>
<1> DEFINE e == << >>
           q == InOrder(e)
<1>1. e \in Seq(Patches({})) /\ Len(e) = 0 /\ q = InOrder(e)
  OBVIOUS
<1>2. IsInOrder({}, q, e)
  <2> HIDE DEF e, q
  <2> QED
    BY <1>1, InOrderIs
<1>3. q \in Seq(Patches({})) /\ Len(q) = 0
  BY <1>1, <1>2 DEF IsInOrder
<1>4. q = << >>
  BY <1>3
<1>5. LaidOut(<< >>, n)
  BY DEF LaidOut, NeighboursDisjoint
<1> QED
  BY <1>4, <1>5

LEMMA OnePatch ==
    ASSUME NEW n \in Nat, NEW V, NEW p \in Patches(V), Valid(p, n)
    PROVE  Accepted(n, <<p>>)
<1> DEFINE e == <<p>>
           q == InOrder(e)
<1>1. e \in Seq(Patches(V)) /\ Len(e) = 1 /\ q = InOrder(e)
  OBVIOUS
<1>2. IsInOrder(V, q, e)
  <2> HIDE DEF e, q
  <2> QED
    BY <1>1, InOrderIs
<1>3. Len(q) = 1
  BY <1>1, <1>2 DEF IsInOrder
<1>4. NeighboursDisjoint(q)
  <2> HIDE DEF q
  <2> QED
    BY <1>3 DEF NeighboursDisjoint
<1> QED
  BY <1>4 DEF Accepted

\* What is taken away and what is put in elsewhere do not touch.
LEMMA MovePatches ==
    ASSUME NEW n \in Nat, NEW V, NEW o \in Patches(V), NEW p \in Patches(V),
           Valid(o, n), Valid(p, n), o.start < o.end, p.start = p.end,
           p.start < o.start \/ p.start > o.end
    PROVE  Accepted(n, <<o, p>>)
<1> DEFINE e == <<o, p>>
           q == InOrder(e)
<1>1. e \in Seq(Patches(V)) /\ Len(e) = 2 /\ e[1] = o /\ e[2] = p /\ q = InOrder(e)
  OBVIOUS
<1>2. IsInOrder(V, q, e)
  <2> HIDE DEF e, q
  <2> QED
    BY <1>1, InOrderIs
<1>3. Len(q) = 2 /\ ~Before(q[2], q[1])
  BY <1>1, <1>2 DEF IsInOrder, Sorted
<1>4. /\ q[1] \in {o, p} /\ q[2] \in {o, p}
      /\ o \in {q[1], q[2]} /\ p \in {q[1], q[2]}
  <2>1. HoldsFirst(q, e, 2)
    BY <1>1, <1>2 DEF IsInOrder
  <2>2. \A j \in 1..2 : \E i \in 1..2 : e[i] = q[j]
    BY <1>3, <2>1 DEF HoldsFirst
  <2>3. \A i \in 1..2 : \E j \in 1..2 : q[j] = e[i]
    BY <1>3, <2>1 DEF HoldsFirst
  <2> HIDE DEF e, q
  <2>4. \A j \in 1..2 : q[j] = e[1] \/ q[j] = e[2]
    BY <2>2
  <2>5. \A i \in 1..2 : q[1] = e[i] \/ q[2] = e[i]
    BY <2>3
  <2> QED
    BY <1>1, <2>4, <2>5
<1>5. /\ o.start \in Int /\ o.end \in Int /\ p.start \in Int /\ p.end \in Int
  BY DEF Patches
<1> HIDE DEF e, q
<1>6. ~Conflicts(q[1], q[2])
  <2>1. o # p
    BY <1>5
  <2>2. CASE q[1] = o /\ q[2] = p
    BY <1>3, <1>5, <2>2 DEF Before, Conflicts, Valid
  <2>3. CASE q[1] = p /\ q[2] = o
    BY <1>3, <1>5, <2>3 DEF Before, Conflicts, Valid
  <2> QED
    BY <1>4, <2>1, <2>2, <2>3
<1>7. NeighboursDisjoint(q)
  <2> SUFFICES ASSUME NEW i \in 2..2 PROVE ~Conflicts(q[i - 1], q[i])
    BY <1>3 DEF NeighboursDisjoint
  <2>1. i = 2 /\ i - 1 = 1
    OBVIOUS
  <2> QED
    BY <1>6, <2>1
<1>8. DOMAIN e = 1..2 /\ \A i \in 1..2 : Valid(e[i], n)
  BY <1>1
<1> QED
  BY <1>7, <1>8 DEF Accepted, q, e

\* Sequences with the same elements.
LEMMA SameSequences ==
    ASSUME NEW V, NEW x \in Seq(V), NEW y \in Seq(V), Len(x) = Len(y),
           \A i \in 1..Len(x) : x[i] = y[i]
    PROVE  x = y
OBVIOUS

-----------------------------------------------------------------------------
(***************************************************************************)
(* As many places as different values: no value comes twice.               *)
(***************************************************************************)
DistinctUpTo(f, m)  == \A i, j \in 1..m : f[i] = f[j] => i = j
Covers(f, g, m) == \A i \in 1..m : \E j \in 1..m : f[j] = g[i]

LEMMA NoRepetition ==
    ASSUME NEW m \in Nat, NEW f, NEW g, DistinctUpTo(g, m), Covers(f, g, m)
    PROVE  DistinctUpTo(f, m)
<1> SUFFICES ASSUME NEW x \in 1..m, NEW y \in 1..m, f[x] = f[y], x # y
             PROVE  FALSE
  BY DEF DistinctUpTo
<1> DEFINE S == 1..m
           T == S \ {y}
           h == [i \in S |-> CHOOSE j \in T : f[j] = g[i]]
<1>1. \A i \in S : h[i] \in T /\ f[h[i]] = g[i]
  <2> SUFFICES ASSUME NEW i \in S PROVE \E j \in T : f[j] = g[i]
    OBVIOUS
  <2>1. PICK j \in S : f[j] = g[i]
    BY DEF Covers
  <2>2. CASE j = y
    BY <2>1, <2>2
  <2> QED
    BY <2>1, <2>2
<1>2. IsFiniteSet(S) /\ Cardinality(S) = m
  <2>1. IsFiniteSet(1..m) /\ Cardinality(1..m) = IF 1 > m THEN 0 ELSE m - 1 + 1
    BY FS_Interval
  <2> QED
    BY <2>1
<1>3. IsFiniteSet(T) /\ Cardinality(T) < Cardinality(S)
  <2>1. y \in S
    OBVIOUS
  <2> HIDE DEF S
  <2>2. IsFiniteSet(T) /\ Cardinality(T) = Cardinality(S) - 1
    BY <1>2, <2>1, FS_RemoveElement
  <2> QED
    BY <1>2, <2>2
<1>4. h \in [S -> T]
  BY <1>1
<1> HIDE DEF h, T
<1>5. \E a, b \in S : a # b /\ h[a] = h[b]
  <2> HIDE DEF S
  <2> QED
    BY <1>2, <1>3, <1>4, FS_PigeonHole
<1> QED
  BY <1>1, <1>5 DEF DistinctUpTo

(***************************************************************************)
(* Patches that start one behind the other are in order already.           *)
(***************************************************************************)
LEMMA InOrderAlready ==
    ASSUME NEW V, NEW q \in Seq(Patches(V)), NEW n \in Nat, LaidOut(q, n)
    PROVE  InOrder(q) = q
<1> DEFINE r == InOrder(q)
           m == Len(q)
<1>1. IsInOrder(V, r, q)
  <2>1. r = InOrder(q)
    OBVIOUS
  <2> HIDE DEF r
  <2> QED
    BY <2>1, InOrderIs
<1>2. m \in Nat /\ r \in Seq(Patches(V)) /\ Len(r) = m
  BY <1>1 DEF IsInOrder
<1>3. /\ \A i \in 1..m : \E j \in 1..m : r[j] = q[i]
      /\ \A i \in 1..m : \E j \in 1..m : q[j] = r[i]
      /\ \A i, j \in 1..m : i < j => ~Before(r[j], r[i])
  BY <1>1 DEF IsInOrder, HoldsFirst, Sorted
<1>4. \A i, j \in 1..m : i < j => q[i].start < q[j].start
  BY Apart
<1>5. \A i \in 1..m : q[i].start \in Int
  <2>1. \A i \in 1..m : q[i] \in Patches(V)
    OBVIOUS
  <2> QED
    BY <2>1 DEF Patches
<1> HIDE DEF r, m
<1>6. \A i, j \in 1..m : q[i] = q[j] => i = j
  <2> SUFFICES ASSUME NEW i \in 1..m, NEW j \in 1..m, q[i] = q[j] PROVE i = j
    OBVIOUS
  <2>1. i < j \/ i = j \/ j < i
    BY <1>2
  <2>2. q[i].start = q[j].start
    OBVIOUS
  <2> QED
    BY <1>4, <1>5, <2>1, <2>2
<1>7. \A i, j \in 1..m : r[i] = r[j] => i = j
  <2>1. DistinctUpTo(q, m) /\ Covers(r, q, m)
    BY <1>3, <1>6 DEF DistinctUpTo, Covers
  <2>2. DistinctUpTo(r, m)
    BY <1>2, <2>1, NoRepetition
  <2> QED
    BY <2>2 DEF DistinctUpTo
<1> DEFINE X == {k \in Nat : \A i \in 1..m : i <= k => r[i] = q[i]}
<1>8. 0 \in X
  BY <1>2
<1>9. ASSUME NEW k \in Nat, k \in X PROVE k + 1 \in X
  <2> SUFFICES ASSUME k + 1 \in 1..m PROVE r[k + 1] = q[k + 1]
    <3>1. \A i \in 1..m : i <= k + 1 => i <= k \/ i = k + 1
      BY <1>2
    <3> QED
      BY <1>9, <3>1
  <2> DEFINE h == k + 1
  <2>1. h \in 1..m /\ \A i \in 1..m : i < h => r[i] = q[i]
    BY <1>2, <1>9
  <2> HIDE DEF h
  <2>2. PICK j \in 1..m : q[j] = r[h]
    BY <1>3, <2>1
  <2>3. PICK l \in 1..m : r[l] = q[h]
    BY <1>3, <2>1
  <2>4. ~(j < h)
    <3> SUFFICES ASSUME j < h PROVE FALSE
      OBVIOUS
    <3>1. r[j] = r[h] /\ j # h
      BY <1>2, <2>1, <2>2
    <3> QED
      BY <1>7, <2>1, <3>1
  <2>5. ~(l < h)
    <3> SUFFICES ASSUME l < h PROVE FALSE
      OBVIOUS
    <3>1. q[l] = q[h] /\ l # h
      BY <1>2, <2>1, <2>3
    <3> QED
      BY <1>6, <2>1, <3>1
  <2>6. j = h
    <3> SUFFICES ASSUME j # h PROVE FALSE
      OBVIOUS
    <3>1. h < j
      BY <1>2, <2>1, <2>4
    <3>2. q[h].start < q[j].start
      BY <1>4, <2>1, <3>1
    <3>3. l # h
      BY <1>5, <2>1, <2>2, <2>3, <3>2
    <3>4. h < l
      BY <1>2, <2>1, <2>5, <3>3
    <3>5. ~Before(r[l], r[h])
      BY <1>3, <2>1, <3>4
    <3> QED
      BY <2>2, <2>3, <3>2, <3>5 DEF Before
  <2> QED
    BY <2>1, <2>2, <2>6 DEF h
<1>10. Nat \subseteq X
  <2> HIDE DEF X
  <2> QED
    BY <1>8, <1>9, NatSetInduction
<1>11. \A i \in 1..m : r[i] = q[i]
  BY <1>2, <1>10
<1>12. r = q
  BY <1>2, <1>11, SameSequences DEF m
<1> QED
  BY <1>12 DEF r

\* Patches that validatedPatchCopies accepts.
LEMMA AcceptedIs ==
    ASSUME NEW V, NEW patches \in Seq(Patches(V)), NEW n, NEW q, q = InOrder(patches),
           Accepted(n, patches)
    PROVE  /\ q \in Seq(Patches(V)) /\ LaidOut(q, n)
           /\ \A i \in 1..Len(patches) : \E j \in 1..Len(q) : q[j] = patches[i]
<1>1. IsInOrder(V, q, patches)
  BY InOrderIs
<1>2. \A j \in 1..Len(q) : \E i \in 1..Len(patches) : patches[i] = q[j]
  BY <1>1 DEF IsInOrder, HoldsFirst
<1>3. \A i \in 1..Len(patches) : Valid(patches[i], n)
  BY DEF Accepted
<1>4. \A j \in 1..Len(q) : Valid(q[j], n)
  BY <1>2, <1>3
<1>5. NeighboursDisjoint(q)
  BY DEF Accepted
<1>6. q \in Seq(Patches(V)) /\ DOMAIN q = 1..Len(q)
  BY <1>1 DEF IsInOrder
<1>7. LaidOut(q, n)
  BY <1>4, <1>5, <1>6 DEF LaidOut
<1> QED
  BY <1>1, <1>6, <1>7 DEF IsInOrder, HoldsFirst
=============================================================================
