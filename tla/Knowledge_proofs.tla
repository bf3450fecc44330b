-------------------------- MODULE Knowledge_proofs --------------------------
(***************************************************************************)
(* What the calls that run code of the caller return: the searches of a    *)
(* DocumentGraph, for every graph; graphs, reports and indexes, for every  *)
(* workspace and whatever the resolver answers; and the nodes of a parse,  *)
(* for all recognizers.  The lemmas about workspaces speak of the          *)
(* documents and of the answers so far as of constants: docs and ans.      *)
(***************************************************************************)
EXTENDS Knowledge, Extensions, Foundations

Lists(D) == [D -> Seq(D)]

-----------------------------------------------------------------------------
(***************************************************************************)
(* The documents within a distance.                                        *)
(***************************************************************************)
IsWithin(w, N, next, R) ==
    /\ w[0] = R
    /\ \A n \in 1..N : w[n] = w[n - 1] \cup UNION {Members(next[k]) : k \in w[n - 1]}

LEMMA WithinIs ==
    ASSUME NEW D, IsFiniteSet(D), NEW next \in Lists(D), NEW R \in SUBSET D,
           NEW N, N = Cardinality(D), NEW w, w = Within(next, R)
    PROVE  /\ N \in Nat
           /\ w \in [0..N -> SUBSET D]
           /\ IsWithin(w, N, next, R)
<1> DEFINE F(s) == s \cup UNION {Members(next[k]) : k \in s}
           h == [x \in (SUBSET D) \X (0..N) |-> F(x[1])]
           P(g) == g = [n \in 0..Cardinality(DOMAIN next) |->
                          IF n = 0 THEN R
                          ELSE g[n - 1] \cup UNION {Members(next[k]) : k \in g[n - 1]}]
           f == CHOOSE g : P(g)
<1>1. N \in Nat /\ DOMAIN next = D
  BY FS_CardinalityType DEF Lists
<1>2. ASSUME NEW s \in SUBSET D PROVE F(s) \in SUBSET D
  BY DEF Members, Lists
<1>3. \A s \in SUBSET D, n \in 0..N : h[<<s, n>>] = F(s)
  OBVIOUS
<1>4. \A s \in SUBSET D, n \in 0..N : n # 0 => h[<<s, n>>] \in SUBSET D
  BY <1>2, <1>3
<1> DEFINE I == 0..N
<1>5. IsInitial(I)
  BY <1>1 DEF IsInitial
<1>6. PICK g \in [I -> SUBSET D] : Steps(g, I, R, h)
  <2> DEFINE V == SUBSET D
  <2>1. R \in V /\ \A v \in V, n \in I : n # 0 => h[<<v, n>>] \in V
    BY <1>4
  <2>2. \E g \in [I -> V] : Steps(g, I, R, h)
    <3> HIDE DEF V, h, I
    <3> QED
      BY <1>5, <2>1, StepsExist
  <2> QED
    BY <2>2
<1>7. ASSUME NEW n \in I
      PROVE  g[n] = IF n = 0 THEN R ELSE F(g[n - 1])
  <2>1. g[n] = IF n = 0 THEN R ELSE h[<<g[n - 1], n>>]
    BY <1>6 DEF Steps
  <2>2. n # 0 => n - 1 \in I
    BY <1>1
  <2>3. n # 0 => g[n - 1] \in SUBSET D
    BY <1>6, <2>2
  <2> HIDE DEF h
  <2> QED
    BY <1>3, <2>1, <2>3
<1>8. P(g)
  <2>1. g = [n \in I |-> IF n = 0 THEN R ELSE F(g[n - 1])]
    BY <1>6, <1>7
  <2> QED
    BY <1>1, <2>1
<1>9. P(f)
  <2> HIDE DEF P
  <2> QED
    BY <1>8, Zenon
<1>10. w = f
  BY DEF Within
<1> HIDE DEF f
<1>11. \A n \in I : w[n] = IF n = 0 THEN R ELSE F(w[n - 1])
  BY <1>1, <1>9, <1>10
<1>12. w \in [I -> SUBSET D]
  <2> DEFINE S == {n \in Nat : n \in I => w[n] \in SUBSET D}
  <2>1. 0 \in S
    BY <1>11
  <2>2. ASSUME NEW n \in Nat, n \in S PROVE n + 1 \in S
    <3>1. CASE n + 1 \in I
      <4>1. n \in I /\ n + 1 # 0 /\ (n + 1) - 1 = n
        BY <1>1, <3>1
      <4>2. w[n + 1] = F(w[n])
        BY <1>11, <3>1, <4>1
      <4>3. F(w[n]) \in SUBSET D
        BY <1>2, <2>2, <4>1
      <4> QED
        BY <4>2, <4>3
    <3> QED
      BY <3>1
  <2>3. Nat \subseteq S
    <3> HIDE DEF S
    <3> QED
      BY <2>1, <2>2, NatSetInduction
  <2>4. \A n \in I : w[n] \in SUBSET D
    BY <1>1, <2>3
  <2>5. w = [n \in I |-> w[n]]
    BY <1>1, <1>9, <1>10
  <2> QED
    BY <2>4, <2>5
<1>13. IsWithin(w, N, next, R)
  <2>1. 0 \in I /\ \A n \in 1..N : n \in I /\ n # 0
    BY <1>1
  <2>2. w[0] = R /\ \A n \in 1..N : w[n] = F(w[n - 1])
    <3> HIDE DEF F, I
    <3> QED
      BY <1>11, <2>1
  <2> QED
    BY <2>2, Zenon DEF IsWithin
<1> QED
  BY <1>1, <1>12, <1>13

LEMMA WithinGrows ==
    ASSUME NEW N \in Nat, NEW next, NEW R, NEW w, IsWithin(w, N, next, R)
    PROVE  \A m \in 0..N, n \in 0..N : m <= n => w[m] \subseteq w[n]
<1> DEFINE S == {d \in Nat : \A m \in 0..N : m + d <= N => w[m] \subseteq w[m + d]}
<1>1. 0 \in S
  OBVIOUS
<1>2. ASSUME NEW d \in Nat, d \in S PROVE d + 1 \in S
  <2> SUFFICES ASSUME NEW m \in 0..N, m + (d + 1) <= N
               PROVE  w[m] \subseteq w[m + (d + 1)]
    OBVIOUS
  <2>1. m + (d + 1) \in 1..N /\ (m + (d + 1)) - 1 = m + d /\ m + d <= N
    OBVIOUS
  <2>2. w[m + d] \subseteq w[m + (d + 1)]
    BY <2>1 DEF IsWithin
  <2> QED
    BY <1>2, <2>1, <2>2
<1>3. Nat \subseteq S
  <2> HIDE DEF S
  <2> QED
    BY <1>1, <1>2, NatSetInduction
<1>4. ASSUME NEW m \in 0..N, NEW n \in 0..N, m <= n PROVE w[m] \subseteq w[n]
  <2>1. PICK d \in Nat : m + d = n
    <3>1. n - m \in Nat /\ m + (n - m) = n
      BY <1>4
    <3> QED
      BY <3>1
  <2>2. d \in S
    BY <1>3
  <2>3. m + d <= N
    BY <2>1
  <2> QED
    BY <2>1, <2>2, <2>3
<1> QED
  BY <1>4

-----------------------------------------------------------------------------
(***************************************************************************)
(* What a queue without repetitions can hold.                              *)
(***************************************************************************)
LEMMA DistinctIsShort ==
    ASSUME NEW D, IsFiniteSet(D), NEW q \in Seq(D), Distinct(q)
    PROVE  Len(q) <= Cardinality(D)
<1>1. Len(q) \in Nat /\ \A i, j \in 1..Len(q) : q[i] = q[j] => i = j
  BY DEF Distinct
<1>2. FirstValues(q, Len(q)) \subseteq D
  BY DEF FirstValues
<1>3. Cardinality(FirstValues(q, Len(q))) = Len(q)
  BY <1>1, DistinctValues
<1>4. Cardinality(FirstValues(q, Len(q))) <= Cardinality(D)
  BY <1>2, FS_Subset
<1> QED
  BY <1>3, <1>4

LEMMA MembersIn ==
    ASSUME NEW D, NEW q \in Seq(D)
    PROVE  Members(q) \in SUBSET D
BY DEF Members

LEMMA MembersOfAppend ==
    ASSUME NEW D, NEW q \in Seq(D), NEW t \in D
    PROVE  Members(Append(q, t)) = Members(q) \cup {t}
<1> DEFINE b == Append(q, t)
           n == Len(q)
<1>1. /\ DOMAIN q = 1..n /\ DOMAIN b = 1..(n + 1) /\ n \in Nat
      /\ b[n + 1] = t /\ \A i \in 1..n : b[i] = q[i]
  OBVIOUS
<1> HIDE DEF b, n
<1>2. Members(b) = Members(q) \cup {t}
  <2>1. \A i \in 1..(n + 1) : i \in 1..n \/ i = n + 1
    BY <1>1
  <2>2. n + 1 \in 1..(n + 1) /\ \A i \in 1..n : i \in 1..(n + 1)
    BY <1>1
  <2> QED
    BY <1>1, <2>1, <2>2 DEF Members
<1> QED
  BY <1>2 DEF b

LEMMA AppendIsDistinct ==
    ASSUME NEW D, NEW q \in Seq(D), Distinct(q), NEW t \in D, t \notin Members(q)
    PROVE  Distinct(Append(q, t))
<1> DEFINE b == Append(q, t)
           n == Len(q)
<1>1. /\ DOMAIN q = 1..n /\ DOMAIN b = 1..(n + 1) /\ n \in Nat
      /\ b[n + 1] = t /\ \A i \in 1..n : b[i] = q[i]
  OBVIOUS
<1> HIDE DEF b, n
<1>2. Distinct(b)
  BY <1>1 DEF Distinct, Members
<1> QED
  BY <1>2 DEF b

(***************************************************************************)
(* appendUnvisited appends one target after the other: what appending a    *)
(* target that is not there keeps is kept, and every target is there.      *)
(***************************************************************************)
LEMMA AppendUnvisitedKeeps ==
    ASSUME NEW D, NEW queue \in Seq(D), NEW targets \in Seq(D),
           NEW X \in SUBSET Seq(D), queue \in X,
           \A v \in X, t \in Members(targets) : t \notin Members(v) => Append(v, t) \in X,
           NEW q, q = appendUnvisited(queue, targets)
    PROVE  q \in X /\ Members(targets) \subseteq Members(q)
<1> DEFINE m == Len(targets)
           I == 0..m
           F(v, t) == IF t \in Members(v) THEN v ELSE Append(v, t)
           h == [x \in X \X I |-> IF x[2] = 0 THEN x[1] ELSE F(x[1], targets[x[2]])]
           P(g) == g = [i \in 0..Len(targets) |->
                          IF i = 0 THEN queue
                          ELSE IF targets[i] \in Members(g[i - 1]) THEN g[i - 1]
                          ELSE Append(g[i - 1], targets[i])]
           f == CHOOSE g : P(g)
<1>1. /\ m \in Nat /\ IsInitial(I) /\ m \in I /\ 0 \in I
      /\ \A i \in I : i # 0 => i - 1 \in I /\ i \in 1..m
  BY DEF IsInitial
<1>2. \A i \in 1..m : targets[i] \in D /\ targets[i] \in Members(targets)
  BY DEF Members
<1>3. \A v \in X, i \in 1..m : F(v, targets[i]) \in X
  BY <1>2
<1>4. \A v \in X, i \in I : i # 0 => h[<<v, i>>] = F(v, targets[i])
  OBVIOUS
<1>5. \A v \in X, i \in I : i # 0 => h[<<v, i>>] \in X
  <2> HIDE DEF h, I, m, F
  <2> QED
    BY <1>1, <1>3, <1>4
<1>6. PICK g \in [I -> X] : Steps(g, I, queue, h)
  <2> HIDE DEF h, I, m, F
  <2> QED
    BY <1>1, <1>5, StepsExist
<1>7. ASSUME NEW i \in I PROVE g[i] = IF i = 0 THEN queue ELSE F(g[i - 1], targets[i])
  <2>1. g[i] = IF i = 0 THEN queue ELSE h[<<g[i - 1], i>>]
    BY <1>6 DEF Steps
  <2>2. i # 0 => g[i - 1] \in X
    BY <1>1, <1>6
  <2> HIDE DEF h, I, m, F
  <2> QED
    BY <1>4, <2>1, <2>2
<1>8. P(g)
  <2>1. g = [i \in I |-> IF i = 0 THEN queue ELSE F(g[i - 1], targets[i])]
    <3> HIDE DEF F, I
    <3> QED
      BY <1>6, <1>7
  <2> QED
    BY <2>1
<1>9. P(f)
  <2> HIDE DEF P
  <2> QED
    BY <1>8, Zenon
<1>10. q = f[m]
  BY DEF appendUnvisited
<1> HIDE DEF f
<1>11. \A i \in I : f[i] = IF i = 0 THEN queue ELSE F(f[i - 1], targets[i])
  BY <1>9
<1> HIDE DEF P, h, I, F
<1> DEFINE S == {i \in Nat : i \in I => /\ f[i] \in X
                                        /\ \A j \in 1..m : j <= i => targets[j] \in Members(f[i])}
<1>12. 0 \in S
  BY <1>1, <1>11
<1>13. ASSUME NEW i \in Nat, i \in S PROVE i + 1 \in S
  <2> SUFFICES ASSUME i + 1 \in I
               PROVE  /\ f[i + 1] \in X
                      /\ \A j \in 1..m : j <= i + 1 => targets[j] \in Members(f[i + 1])
    OBVIOUS
  <2>1. i \in I /\ i + 1 # 0 /\ (i + 1) - 1 = i /\ i + 1 \in 1..m
    BY <1>1 DEF I
  <2>2. f[i + 1] = F(f[i], targets[i + 1])
    BY <1>11, <2>1
  <2>3. f[i] \in X /\ \A j \in 1..m : j <= i => targets[j] \in Members(f[i])
    BY <1>13, <2>1
  <2>4. f[i + 1] \in X
    BY <1>3, <2>1, <2>2, <2>3
  <2>5. targets[i + 1] \in D /\ f[i] \in Seq(D)
    BY <1>2, <2>1, <2>3
  <2>6. Members(f[i + 1]) = Members(f[i]) \cup {targets[i + 1]}
    <3>1. CASE targets[i + 1] \in Members(f[i])
      BY <2>2, <3>1 DEF F
    <3>2. CASE targets[i + 1] \notin Members(f[i])
      BY <2>2, <2>5, <3>2, MembersOfAppend DEF F
    <3> QED
      BY <3>1, <3>2
  <2>7. \A j \in 1..m : j <= i + 1 => j <= i \/ j = i + 1
    OBVIOUS
  <2> QED
    BY <2>3, <2>4, <2>6, <2>7
<1>14. Nat \subseteq S
  <2> HIDE DEF S
  <2> QED
    BY <1>12, <1>13, NatSetInduction
<1>15. f[m] \in X /\ \A j \in 1..m : targets[j] \in Members(f[m])
  BY <1>1, <1>14
<1>16. Members(targets) \subseteq Members(f[m])
  BY <1>15 DEF Members
<1> QED
  BY <1>10, <1>15, <1>16

-----------------------------------------------------------------------------
(***************************************************************************)
(* A search whose queue is q and that has expanded the first h of it; w is *)
(* what is within each distance of the roots.  Nearer documents are before *)
(* farther ones, nothing is farther than one hop from what is still to be  *)
(* expanded, and the place of a document bounds its distance.              *)
(***************************************************************************)
NearestFirst(q, w, N) ==
    \A a, b \in 1..Len(q), n \in 0..N : b <= a /\ q[a] \in w[n] => q[b] \in w[n]

OneHopAhead(q, h, w, N) ==
    \A i, j \in 1..Len(q), n \in 1..N : i > h /\ q[i] \in w[n - 1] => q[j] \in w[n]

Placed(q, w) == \A i \in 1..Len(q) : q[i] \in w[i - 1]

Expanded(q, h, next) ==
    \A i \in 1..Len(q) : i <= h => Members(next[q[i]]) \subseteq Members(q)

Searched(q, h, w, N, next, R) ==
    /\ Distinct(q) /\ R \subseteq Members(q)
    /\ NearestFirst(q, w, N) /\ OneHopAhead(q, h, w, N) /\ Placed(q, w)
    /\ Expanded(q, h, next)

\* What is one hop from documents that are all expanded is in the queue.
LEMMA NextOfExpanded ==
    ASSUME NEW N \in Nat, NEW next, NEW R, NEW w, IsWithin(w, N, next, R),
           NEW q, NEW h, Expanded(q, h, next), R \subseteq Members(q), DOMAIN q = 1..Len(q),
           \A m \in 0..N, n \in 0..N : m <= n => w[m] \subseteq w[n],
           NEW n \in 1..N, \A i \in 1..Len(q) : q[i] \in w[n - 1] => i <= h
    PROVE  w[n] \subseteq Members(q)
<1> DEFINE S == {m \in Nat : m <= n => w[m] \subseteq Members(q)}
<1>1. 0 \in S
  BY DEF IsWithin
<1>2. ASSUME NEW m \in Nat, m \in S PROVE m + 1 \in S
  <2> SUFFICES ASSUME m + 1 <= n PROVE w[m + 1] \subseteq Members(q)
    OBVIOUS
  <2>1. m + 1 \in 1..N /\ (m + 1) - 1 = m /\ m \in 0..N /\ n - 1 \in 0..N /\ m <= n - 1
    OBVIOUS
  <2>2. w[m + 1] = w[m] \cup UNION {Members(next[k]) : k \in w[m]}
    <3>1. w[m + 1] = w[(m + 1) - 1] \cup UNION {Members(next[k]) : k \in w[(m + 1) - 1]}
      BY <2>1, Zenon DEF IsWithin
    <3> QED
      BY <2>1, <3>1, Zenon
  <2>3. w[m] \subseteq Members(q) /\ w[m] \subseteq w[n - 1]
    BY <1>2, <2>1
  <2>4. ASSUME NEW k \in w[m] PROVE Members(next[k]) \subseteq Members(q)
    <3>1. PICK i \in 1..Len(q) : q[i] = k
      BY <2>3 DEF Members
    <3>2. q[i] \in w[n - 1]
      BY <2>3, <3>1
    <3>3. i <= h
      BY <3>2
    <3> QED
      BY <3>1, <3>3 DEF Expanded
  <2> QED
    BY <2>2, <2>3, <2>4
<1>3. Nat \subseteq S
  <2> HIDE DEF S
  <2> QED
    BY <1>1, <1>2, NatSetInduction
<1> QED
  BY <1>3

\* Appending an unvisited target of the document that is expanded.
LEMMA SearchGrows ==
    ASSUME NEW D, IsFiniteSet(D), NEW N, N = Cardinality(D), NEW next \in Lists(D),
           NEW R \in SUBSET D, NEW w, IsWithin(w, N, next, R),
           NEW q \in Seq(D), NEW h \in Nat, h + 1 <= Len(q),
           Searched(q, h, w, N, next, R),
           NEW t \in Members(next[q[h + 1]]), t \notin Members(q)
    PROVE  /\ Append(q, t) \in Seq(D)
           /\ Searched(Append(q, t), h, w, N, next, R)
<1> DEFINE b == Append(q, t)
           L == Len(q)
<1>1. N \in Nat /\ L \in Nat /\ h + 1 \in 1..L /\ q[h + 1] \in D
  BY FS_CardinalityType
<1>2. t \in D
  <2>1. next[q[h + 1]] \in Seq(D)
    BY <1>1 DEF Lists
  <2> QED
    BY <2>1, MembersIn
<1>3. /\ DOMAIN q = 1..L /\ DOMAIN b = 1..(L + 1) /\ b \in Seq(D) /\ Len(b) = L + 1
      /\ b[L + 1] = t /\ \A i \in 1..L : b[i] = q[i]
  BY <1>2
<1>4. Distinct(b) /\ Members(b) = Members(q) \cup {t}
  BY <1>2, AppendIsDistinct, MembersOfAppend DEF Searched
<1>5. L + 1 <= N
  BY <1>3, <1>4, DistinctIsShort
<1>6. \A m \in 0..N, n \in 0..N : m <= n => w[m] \subseteq w[n]
  BY <1>1, WithinGrows
<1>7. ASSUME NEW n \in 1..N, q[h + 1] \in w[n - 1] PROVE t \in w[n]
  BY <1>7 DEF IsWithin
<1>8. /\ NearestFirst(q, w, N) /\ OneHopAhead(q, h, w, N) /\ Placed(q, w)
      /\ Expanded(q, h, next) /\ R \subseteq Members(q)
  BY DEF Searched
<1> HIDE DEF b, L
<1>9. ASSUME NEW n \in 0..N, t \in w[n], NEW i \in 1..L PROVE q[i] \in w[n]
  <2>1. n # 0
    BY <1>8, <1>9 DEF IsWithin
  <2>2. n \in 1..N /\ n - 1 \in 0..N
    BY <1>1, <2>1
  <2>3. CASE q[h + 1] \in w[n - 1]
    <3>1. h + 1 > h
      OBVIOUS
    <3> QED
      BY <1>1, <1>8, <2>2, <2>3, <3>1 DEF OneHopAhead, L
  <2>4. CASE q[h + 1] \notin w[n - 1]
    <3>1. ASSUME NEW j \in 1..Len(q), q[j] \in w[n - 1] PROVE j <= h
      <4>1. CASE j >= h + 1
        BY <1>1, <1>8, <2>2, <2>4, <3>1, <4>1 DEF NearestFirst, L
      <4> QED
        BY <1>1, <4>1 DEF L
    <3>2. w[n] \subseteq Members(q)
      <4>1. DOMAIN q = 1..Len(q)
        OBVIOUS
      <4> QED
        BY <1>1, <1>6, <1>8, <2>2, <3>1, <4>1, NextOfExpanded
    <3> QED
      BY <1>9, <3>2
  <2> QED
    BY <2>3, <2>4
<1>10. NearestFirst(b, w, N)
  <2> SUFFICES ASSUME NEW a \in 1..(L + 1), NEW c \in 1..(L + 1), NEW n \in 0..N,
                      c <= a, b[a] \in w[n]
               PROVE  b[c] \in w[n]
    BY <1>3 DEF NearestFirst
  <2>1. CASE a \in 1..L
    <3>1. c \in 1..L
      BY <1>1, <2>1
    <3>2. b[a] = q[a] /\ b[c] = q[c]
      BY <1>3, <2>1, <3>1
    <3> QED
      BY <1>8, <2>1, <3>1, <3>2 DEF NearestFirst, L
  <2>2. CASE a = L + 1
    <3>1. CASE c = L + 1
      BY <2>2, <3>1
    <3>2. CASE c \in 1..L
      BY <1>3, <1>9, <2>2, <3>2
    <3> QED
      BY <1>1, <3>1, <3>2
  <2> QED
    BY <1>1, <2>1, <2>2
<1>11. OneHopAhead(b, h, w, N)
  <2> SUFFICES ASSUME NEW i \in 1..(L + 1), NEW j \in 1..(L + 1), NEW n \in 1..N,
                      i > h, b[i] \in w[n - 1]
               PROVE  b[j] \in w[n]
    BY <1>3 DEF OneHopAhead
  <2>0. n - 1 \in 0..N /\ n \in 0..N /\ n - 1 <= n
    BY <1>1
  <2>1. CASE i = L + 1
    <3>1. b[j] \in w[n - 1]
      <4>1. j <= i /\ i \in 1..Len(b) /\ j \in 1..Len(b)
        BY <1>1, <1>3, <2>1
      <4> QED
        BY <1>10, <2>0, <4>1 DEF NearestFirst
    <3> QED
      BY <1>6, <2>0, <3>1
  <2>2. CASE i \in 1..L /\ j \in 1..L
    <3>1. b[i] = q[i] /\ b[j] = q[j]
      BY <1>3, <2>2
    <3> QED
      BY <1>8, <2>2, <3>1 DEF OneHopAhead, L
  <2>3. CASE i \in 1..L /\ j = L + 1
    <3>1. q[i] \in w[n - 1] /\ h + 1 <= i
      BY <1>1, <1>3, <2>3
    <3>2. q[h + 1] \in w[n - 1]
      BY <1>1, <1>8, <2>0, <2>3, <3>1 DEF NearestFirst, L
    <3> QED
      BY <1>3, <1>7, <2>3, <3>2
  <2> QED
    BY <1>1, <2>1, <2>2, <2>3
<1>12. Placed(b, w)
  <2> SUFFICES ASSUME NEW i \in 1..(L + 1) PROVE b[i] \in w[i - 1]
    BY <1>3 DEF Placed
  <2>1. CASE i \in 1..L
    BY <1>3, <1>8, <2>1 DEF Placed, L
  <2>2. CASE i = L + 1
    <3>1. q[h + 1] \in w[(h + 1) - 1]
      BY <1>1, <1>8 DEF Placed, L
    <3>2. h + 1 \in 1..N /\ L \in 0..N /\ h + 1 \in 0..N /\ h + 1 <= L
      BY <1>1, <1>5
    <3>3. t \in w[h + 1]
      BY <1>7, <3>1, <3>2
    <3>4. t \in w[L]
      BY <1>6, <3>2, <3>3
    <3>5. i - 1 = L
      BY <1>1, <2>2
    <3> QED
      BY <1>3, <2>2, <3>4, <3>5
  <2> QED
    BY <1>1, <2>1, <2>2
<1>13. Expanded(b, h, next)
  <2> SUFFICES ASSUME NEW i \in 1..(L + 1), i <= h
               PROVE  Members(next[b[i]]) \subseteq Members(b)
    BY <1>3 DEF Expanded
  <2>1. i \in 1..L
    BY <1>1
  <2>2. Members(next[q[i]]) \subseteq Members(q) /\ b[i] = q[i]
    BY <1>3, <1>8, <2>1 DEF Expanded, L
  <2> QED
    BY <1>4, <2>2
<1>14. R \subseteq Members(b)
  BY <1>4, <1>8
<1>15. Searched(b, h, w, N, next, R)
  BY <1>4, <1>10, <1>11, <1>12, <1>13, <1>14 DEF Searched
<1> QED
  BY <1>3, <1>15 DEF b

\* The document that is expanded next.
LEMMA SearchAdvances ==
    ASSUME NEW D, IsFiniteSet(D), NEW N, N = Cardinality(D), NEW next \in Lists(D),
           NEW R \in SUBSET D, NEW w, IsWithin(w, N, next, R),
           NEW q \in Seq(D), NEW h \in Nat, h + 1 <= Len(q),
           Searched(q, h, w, N, next, R),
           NEW p, p = appendUnvisited(q, next[q[h + 1]])
    PROVE  p \in Seq(D) /\ Searched(p, h + 1, w, N, next, R)
<1> DEFINE k == q[h + 1]
           X == {v \in Seq(D) : /\ h + 1 <= Len(v) /\ v[h + 1] = k
                                /\ Searched(v, h, w, N, next, R)}
<1>1. k \in D /\ next[k] \in Seq(D)
  BY DEF Lists
<1>2. X \in SUBSET Seq(D) /\ q \in X
  OBVIOUS
<1>3. ASSUME NEW v \in X, NEW t \in Members(next[k]), t \notin Members(v)
      PROVE  Append(v, t) \in X
  <2>1. Append(v, t) \in Seq(D) /\ Searched(Append(v, t), h, w, N, next, R)
    BY <1>3, SearchGrows
  <2>2. t \in D
    BY <1>1, MembersIn
  <2>3. h + 1 <= Len(Append(v, t)) /\ Append(v, t)[h + 1] = v[h + 1]
    BY <2>2
  <2> QED
    BY <2>1, <2>3
<1>4. p \in X /\ Members(next[k]) \subseteq Members(p)
  <2> HIDE DEF X, k
  <2>1. p = appendUnvisited(q, next[k])
    BY DEF k
  <2> QED
    BY <1>1, <1>2, <1>3, <2>1, AppendUnvisitedKeeps
<1>5. /\ p \in Seq(D) /\ h + 1 <= Len(p) /\ p[h + 1] = k
      /\ Searched(p, h, w, N, next, R)
  BY <1>4
<1> HIDE DEF X, k
<1>6. Expanded(p, h + 1, next)
  <2>1. ASSUME NEW i \in 1..Len(p), i <= h + 1
        PROVE  Members(next[p[i]]) \subseteq Members(p)
    <3>1. CASE i = h + 1
      BY <1>4, <1>5, <3>1
    <3>2. CASE i <= h
      BY <1>5, <3>2 DEF Searched, Expanded
    <3> QED
      BY <2>1, <3>1, <3>2
  <2> QED
    BY <2>1 DEF Expanded
<1>7. OneHopAhead(p, h + 1, w, N)
  <2>1. \A i \in 1..Len(p) : i > h + 1 => i > h
    OBVIOUS
  <2>2. OneHopAhead(p, h, w, N)
    BY <1>5 DEF Searched
  <2> QED
    BY <2>1, <2>2 DEF OneHopAhead
<1> QED
  BY <1>5, <1>6, <1>7 DEF Searched

LEMMA SearchStarts ==
    ASSUME NEW D, IsFiniteSet(D), NEW N, N = Cardinality(D), NEW next \in Lists(D),
           NEW roots \in Seq(D), NEW R, R = Members(roots), NEW w, IsWithin(w, N, next, R),
           NEW q, q = appendUnvisited(<< >>, roots)
    PROVE  q \in Seq(D) /\ Searched(q, 0, w, N, next, R)
<1> DEFINE X == {v \in Seq(D) : Distinct(v) /\ Members(v) \subseteq R}
           nil == << >>
<1>1. R \in SUBSET D /\ N \in Nat
  BY MembersIn, FS_CardinalityType
<1>2. nil \in Seq(D) /\ nil \in X
  BY DEF Distinct, Members
<1>3. ASSUME NEW v \in X, NEW t \in Members(roots), t \notin Members(v)
      PROVE  Append(v, t) \in X
  <2>1. t \in D /\ t \in R /\ v \in Seq(D) /\ Distinct(v) /\ Members(v) \subseteq R
    BY <1>1
  <2>2. Append(v, t) \in Seq(D) /\ Distinct(Append(v, t))
    BY <1>3, <2>1, AppendIsDistinct
  <2>3. Members(Append(v, t)) \subseteq R
    BY <2>1, MembersOfAppend
  <2> QED
    BY <2>2, <2>3
<1>4. q \in X /\ R \subseteq Members(q)
  <2>1. X \in SUBSET Seq(D) /\ q = appendUnvisited(nil, roots)
    OBVIOUS
  <2> HIDE DEF X, nil
  <2> QED
    BY <1>2, <1>3, <2>1, AppendUnvisitedKeeps
<1>5. q \in Seq(D) /\ Distinct(q) /\ Members(q) \subseteq R
  BY <1>4
<1> HIDE DEF X, nil
<1>6. \A n \in 0..N : R \subseteq w[n]
  <2>1. w[0] = R /\ \A n \in 0..N : w[0] \subseteq w[n]
    <3>1. \A m \in 0..N, n \in 0..N : m <= n => w[m] \subseteq w[n]
      BY <1>1, WithinGrows
    <3>2. 0 \in 0..N /\ \A n \in 0..N : 0 <= n
      BY <1>1
    <3>3. w[0] = R
      BY DEF IsWithin
    <3> QED
      BY <3>1, <3>2, <3>3
  <2> QED
    BY <2>1
<1>7. \A i \in 1..Len(q), n \in 0..N : q[i] \in w[n]
  BY SMTT(40), <1>5, <1>6 DEF Members
<1>8. Len(q) <= N
  BY <1>5, DistinctIsShort
<1>9. NearestFirst(q, w, N)
  BY <1>7 DEF NearestFirst
<1>10. OneHopAhead(q, 0, w, N)
  <2>1. \A n \in 1..N : n \in 0..N
    OBVIOUS
  <2> QED
    BY <1>7, <2>1 DEF OneHopAhead
<1>11. Placed(q, w)
  <2>1. \A i \in 1..Len(q) : i - 1 \in 0..N
    BY <1>1, <1>5, <1>8
  <2> QED
    BY <1>7, <2>1 DEF Placed
<1>12. Expanded(q, 0, next)
  BY DEF Expanded
<1> QED
  BY <1>4, <1>5, <1>9, <1>10, <1>11, <1>12 DEF Searched

LEMMA SearchIs ==
    ASSUME NEW D, IsFiniteSet(D), NEW N, N = Cardinality(D), NEW next \in Lists(D),
           NEW roots \in Seq(D), NEW R, R = Members(roots), NEW w, w = Within(next, R),
           NEW q, q = Search(next, roots)
    PROVE  q \in Seq(D) /\ Searched(q, N, w, N, next, R)
<1> DEFINE I == 0..N
           opening == appendUnvisited(<< >>, roots)
           E(v, i) == IF i > Len(v) THEN v ELSE appendUnvisited(v, next[v[i]])
           P(g) == g = [head \in 0..Cardinality(DOMAIN next) |->
                          IF head = 0 THEN appendUnvisited(<< >>, roots)
                          ELSE LET queue == g[head - 1] IN
                               IF head > Len(queue) THEN queue
                               ELSE appendUnvisited(queue, next[queue[head]])]
           f == CHOOSE g : P(g)
           h == [x \in Seq(D) \X I |-> IF x[2] = 0 THEN x[1] ELSE E(x[1], x[2])]
<1>1. /\ N \in Nat /\ DOMAIN next = D /\ IsInitial(I) /\ R \in SUBSET D
      /\ \A i \in I : i # 0 => i - 1 \in I
  BY MembersIn, FS_CardinalityType DEF Lists, IsInitial
<1>2. IsWithin(w, N, next, R)
  BY <1>1, WithinIs
<1>3. opening \in Seq(D) /\ Searched(opening, 0, w, N, next, R)
  BY <1>2, SearchStarts
<1>4. ASSUME NEW v \in Seq(D), NEW i \in I, i # 0 PROVE E(v, i) \in Seq(D)
  <2>1. CASE i > Len(v)
    BY <2>1
  <2>2. CASE ~(i > Len(v))
    <3>1. v[i] \in D /\ next[v[i]] \in Seq(D)
      BY <1>1, <1>4, <2>2 DEF Lists
    <3> DEFINE X == Seq(D)
    <3>2. \A u \in X, t \in Members(next[v[i]]) : Append(u, t) \in X
      BY <3>1, MembersIn
    <3>3. appendUnvisited(v, next[v[i]]) \in X
      <4>1. X \in SUBSET Seq(D) /\ v \in X
        OBVIOUS
      <4> HIDE DEF X
      <4> QED
        BY <3>1, <3>2, <4>1, AppendUnvisitedKeeps
    <3> QED
      BY <2>2, <3>3
  <2> QED
    BY <2>1, <2>2
<1>5. \A v \in Seq(D), i \in I : i # 0 => h[<<v, i>>] = E(v, i)
  OBVIOUS
<1>6. PICK g \in [I -> Seq(D)] : Steps(g, I, opening, h)
  <2> DEFINE V == Seq(D)
  <2>1. opening \in V /\ \A v \in V, i \in I : i # 0 => h[<<v, i>>] \in V
    <3> HIDE DEF h, I, E, opening
    <3> QED
      BY <1>3, <1>4, <1>5
  <2>2. \E g \in [I -> V] : Steps(g, I, opening, h)
    <3> HIDE DEF h, I, E, opening, V
    <3> QED
      BY <1>1, <2>1, StepsExist
  <2> QED
    BY <2>2
<1>7. ASSUME NEW i \in I PROVE g[i] = IF i = 0 THEN opening ELSE E(g[i - 1], i)
  <2>1. g[i] = IF i = 0 THEN opening ELSE h[<<g[i - 1], i>>]
    BY <1>6 DEF Steps
  <2>2. i # 0 => g[i - 1] \in Seq(D)
    BY <1>1, <1>6
  <2> HIDE DEF h, I, E, opening
  <2> QED
    BY <1>5, <2>1, <2>2
<1>8. P(g)
  <2>1. g = [i \in I |-> IF i = 0 THEN opening ELSE E(g[i - 1], i)]
    <3> HIDE DEF E, I, opening
    <3> QED
      BY <1>6, <1>7
  <2> QED
    BY <1>1, <2>1
<1>9. P(f)
  <2> HIDE DEF P
  <2> QED
    BY <1>8, Zenon
<1>10. q = f[N]
  BY <1>1 DEF Search
<1> HIDE DEF f
<1>11. \A i \in I : f[i] = IF i = 0 THEN opening ELSE E(f[i - 1], i)
  BY <1>1, <1>9
<1> HIDE DEF P, h, I, E, opening
<1> DEFINE S == {i \in Nat : i \in I => f[i] \in Seq(D) /\ Searched(f[i], i, w, N, next, R)}
<1>12. 0 \in S
  <2>1. 0 \in I => f[0] = opening
    BY <1>11
  <2> QED
    BY <1>3, <2>1
<1>13. ASSUME NEW i \in Nat, i \in S PROVE i + 1 \in S
  <2> SUFFICES ASSUME i + 1 \in I
               PROVE  f[i + 1] \in Seq(D) /\ Searched(f[i + 1], i + 1, w, N, next, R)
    OBVIOUS
  <2>1. i \in I /\ i + 1 # 0 /\ (i + 1) - 1 = i
    BY <1>1 DEF I
  <2> DEFINE v == f[i]
             u == f[i + 1]
  <2>2. v \in Seq(D) /\ Searched(v, i, w, N, next, R)
    BY <1>13, <2>1
  <2>3. u = IF i + 1 > Len(v) THEN v ELSE appendUnvisited(v, next[v[i + 1]])
    BY <1>11, <2>1 DEF E
  <2> HIDE DEF v, u
  <2>4. CASE i + 1 > Len(v)
    <3>1. \A k \in 1..Len(v) : k <= i /\ ~(k > i + 1)
      BY <2>2, <2>4
    <3>2. Expanded(v, i + 1, next)
      BY <2>2, <3>1 DEF Searched, Expanded
    <3>3. OneHopAhead(v, i + 1, w, N)
      BY <3>1 DEF OneHopAhead
    <3>4. Searched(v, i + 1, w, N, next, R)
      BY <2>2, <3>2, <3>3 DEF Searched
    <3>5. u = v
      BY <2>3, <2>4
    <3> QED
      BY <2>2, <3>4, <3>5 DEF u
  <2>5. CASE ~(i + 1 > Len(v))
    <3>1. i + 1 <= Len(v) /\ u = appendUnvisited(v, next[v[i + 1]])
      BY <2>2, <2>3, <2>5
    <3>2. u \in Seq(D) /\ Searched(u, i + 1, w, N, next, R)
      BY <1>1, <1>2, <2>2, <3>1, SearchAdvances
    <3> QED
      BY <3>2 DEF u
  <2> QED
    BY <2>4, <2>5
<1>14. Nat \subseteq S
  <2> HIDE DEF S
  <2> QED
    BY <1>12, <1>13, NatSetInduction
<1>15. N \in I
  BY <1>1 DEF I
<1> QED
  BY <1>1, <1>10, <1>14, <1>15

\* A search visits each document that edges lead to from its roots, once, and
\* the nearer ones first: over any finite graph, with any cycles and any edges
\* more than once.
THEOREM SearchIsBreadthFirst ==
    ASSUME NEW D, IsFiniteSet(D), NEW next \in Lists(D), NEW roots \in Seq(D)
    PROVE  IsBreadthFirst(Search(next, roots), next, Members(roots))
<1> DEFINE N == Cardinality(D)
           R == Members(roots)
           w == Within(next, R)
           q == Search(next, roots)
<1>1. N \in Nat /\ DOMAIN next = D /\ R \in SUBSET D
  BY MembersIn, FS_CardinalityType DEF Lists
<1>2. IsWithin(w, N, next, R) /\ w \in [0..N -> SUBSET D]
  <2> HIDE DEF w, R, N
  <2> QED
    BY <1>1, WithinIs DEF w, N
<1>3. q \in Seq(D) /\ Searched(q, N, w, N, next, R)
  <2>1. w = Within(next, R) /\ q = Search(next, roots) /\ R = Members(roots) /\ N = Cardinality(D)
    OBVIOUS
  <2> HIDE DEF w, R, N, q
  <2> QED
    BY <2>1, SearchIs
<1> HIDE DEF w, R, N, q
<1>4. \A m \in 0..N, n \in 0..N : m <= n => w[m] \subseteq w[n]
  BY <1>1, <1>2, WithinGrows
<1>5. /\ Distinct(q) /\ R \subseteq Members(q) /\ NearestFirst(q, w, N) /\ Placed(q, w)
      /\ Expanded(q, N, next) /\ Len(q) \in Nat /\ DOMAIN q = 1..Len(q)
  BY <1>3 DEF Searched
<1>6. Len(q) <= N
  BY <1>3, <1>5, DistinctIsShort DEF N
<1>7. Members(q) \subseteq w[N]
  <2>1. ASSUME NEW i \in 1..Len(q) PROVE q[i] \in w[N]
    <3>1. i - 1 \in 0..N /\ N \in 0..N /\ i - 1 <= N
      BY <1>1, <1>5, <1>6
    <3> QED
      BY <1>4, <1>5, <3>1 DEF Placed
  <2> QED
    BY <1>5, <2>1 DEF Members
<1>8. w[N] \subseteq Members(q)
  <2>1. CASE N = 0
    BY <1>2, <1>5, <2>1 DEF IsWithin
  <2>2. CASE N # 0
    <3>1. N \in 1..N
      BY <1>1, <2>2
    <3>2. \A i \in 1..Len(q) : q[i] \in w[N - 1] => i <= N
      BY <1>1, <1>5, <1>6
    <3> QED
      BY <1>1, <1>2, <1>4, <1>5, <3>1, <3>2, NextOfExpanded
  <2> QED
    BY <2>1, <2>2
<1>9. ASSUME NEW a \in DOMAIN q, NEW b \in DOMAIN q, Nearer(next, R, q[a], q[b])
      PROVE  a < b
  <2>1. PICK n \in DOMAIN w : q[a] \in w[n] /\ q[b] \notin w[n]
    BY <1>9 DEF Nearer, w
  <2>2. n \in 0..N
    BY <1>2
  <2>3. ~(b <= a)
    BY <1>5, <2>1, <2>2 DEF NearestFirst
  <2> QED
    BY <1>5, <2>3
<1>10. Members(q) = Within(next, R)[Cardinality(DOMAIN next)]
  BY <1>1, <1>7, <1>8 DEF w, N
<1> QED
  BY <1>5, <1>9, <1>10 DEF IsBreadthFirst, q, R

\* From one document the search starts with it; behind it is what it found.
THEOREM SearchFromOne ==
    ASSUME NEW D, IsFiniteSet(D), NEW next \in Lists(D), NEW key \in D
    PROVE  IsBreadthFirst(<<key>> \o Tail(Search(next, <<key>>)), next, {key})
<1> DEFINE roots == <<key>>
           q == Search(next, roots)
           N == Cardinality(D)
           w == Within(next, {key})
<1>1. roots \in Seq(D) /\ Members(roots) = {key}
  BY DEF Members
<1>2. IsBreadthFirst(q, next, {key})
  <2> HIDE DEF roots
  <2> QED
    BY <1>1, SearchIsBreadthFirst
<1>3. q \in Seq(D) /\ Searched(q, N, w, N, next, {key})
  <2>1. w = Within(next, {key}) /\ q = Search(next, roots) /\ N = Cardinality(D)
    OBVIOUS
  <2> HIDE DEF roots, w, N, q
  <2> QED
    BY <1>1, <2>1, SearchIs
<1>4. w[0] = {key}
  <2>1. IsWithin(w, N, next, {key})
    <3>1. {key} \in SUBSET D
      OBVIOUS
    <3> QED
      BY <3>1, WithinIs
  <2> QED
    BY <2>1 DEF IsWithin
<1> HIDE DEF q, w, N, roots
<1>5. q # << >>
  <2>1. key \in Members(q)
    BY <1>3 DEF Searched
  <2> QED
    BY <2>1 DEF Members
<1>6. q[1] = key
  <2>1. 1 \in 1..Len(q) /\ 1 - 1 = 0
    BY <1>3, <1>5
  <2>2. q[1] \in w[1 - 1]
    BY <1>3, <2>1 DEF Searched, Placed
  <2> QED
    BY <1>4, <2>1, <2>2
<1>7. <<key>> \o Tail(q) = q
  BY <1>3, <1>5, <1>6
<1> QED
  BY <1>2, <1>7 DEF q, roots

-----------------------------------------------------------------------------
(***************************************************************************)
(* What Kept keeps.                                                        *)
(***************************************************************************)
LEMMA SequenceInduction ==
    ASSUME NEW V, NEW X, << >> \in X,
           \A s \in Seq(V) : s \in X => \A x \in V : Append(s, x) \in X
    PROVE  Seq(V) \subseteq X
<1> DEFINE S == {n \in Nat : \A s \in Seq(V) : Len(s) = n => s \in X}
<1>1. 0 \in S
  <2>1. \A s \in Seq(V) : Len(s) = 0 => s = << >>
    OBVIOUS
  <2> QED
    BY <2>1
<1>2. ASSUME NEW n \in Nat, n \in S PROVE n + 1 \in S
  <2> SUFFICES ASSUME NEW s \in Seq(V), Len(s) = n + 1 PROVE s \in X
    OBVIOUS
  <2> DEFINE t == SubSeq(s, 1, n)
             x == s[n + 1]
  <2>1. t \in Seq(V) /\ Len(t) = n /\ x \in V
    OBVIOUS
  <2>2. s = Append(t, x)
    OBVIOUS
  <2> HIDE DEF t, x
  <2>3. t \in X
    BY <1>2, <2>1
  <2> QED
    BY <2>1, <2>2, <2>3
<1>3. Nat \subseteq S
  <2> HIDE DEF S
  <2> QED
    BY <1>1, <1>2, NatSetInduction
<1> QED
  BY <1>3

LEMMA KeptNone == \A A : Kept(<< >>, A) = << >>
<1> SUFFICES ASSUME NEW A PROVE Kept(<< >>, A) = << >>
  OBVIOUS
<1>1. [i \in DOMAIN << >> |-> IF << >>[i] \in A THEN <<(<< >>)[i]>> ELSE << >>] = << >>
  OBVIOUS
<1> QED
  BY <1>1, FlattenNone DEF Kept

LEMMA KeptAppend ==
    ASSUME NEW V, NEW s \in Seq(V), NEW x \in V, NEW A
    PROVE  Kept(Append(s, x), A) = IF x \in A THEN Append(Kept(s, A), x) ELSE Kept(s, A)
<1> DEFINE n == Len(s)
           b == Append(s, x)
           c(v) == IF v \in A THEN <<v>> ELSE << >>
           p == [i \in DOMAIN s |-> c(s[i])]
           q == [i \in DOMAIN b |-> c(b[i])]
<1>1. /\ n \in Nat /\ DOMAIN s = 1..n /\ DOMAIN b = 1..(n + 1) /\ b[n + 1] = x
      /\ \A i \in 1..n : b[i] = s[i] /\ s[i] \in V
  OBVIOUS
<1> HIDE DEF b, n
<1>2. \A v \in V : c(v) \in Seq(V)
  OBVIOUS
<1>3. p \in Seq(Seq(V)) /\ Len(p) = n
  <2> HIDE DEF c
  <2>1. p = [i \in 1..n |-> c(s[i])]
    BY <1>1
  <2>2. \A i \in 1..n : c(s[i]) \in Seq(V)
    BY <1>1, <1>2
  <2> HIDE DEF p
  <2> QED
    BY <1>1, <2>1, <2>2
<1>4. q = Append(p, c(x))
  <2> DEFINE y == c(x)
  <2>1. y \in Seq(V)
    BY <1>2
  <2>2. Append(p, y) = [i \in 1..(n + 1) |-> IF i = n + 1 THEN y ELSE p[i]]
    <3> HIDE DEF p, y
    <3> QED
      BY <1>3, <2>1, AppendIs
  <2>3. \A i \in 1..(n + 1) : i # n + 1 => i \in 1..n
    BY <1>1
  <2>4. \A i \in 1..n : p[i] = c(s[i])
    BY <1>1
  <2>5. \A i \in 1..(n + 1) : c(b[i]) = IF i = n + 1 THEN y ELSE p[i]
    <3> HIDE DEF p, c
    <3> QED
      BY <1>1, <2>3, <2>4
  <2>6. q = [i \in 1..(n + 1) |-> c(b[i])]
    BY <1>1
  <2> HIDE DEF p, q, c, y
  <2>7. q = [i \in 1..(n + 1) |-> IF i = n + 1 THEN y ELSE p[i]]
    BY <2>5, <2>6, Zenon
  <2> QED
    BY <2>2, <2>7 DEF y
<1>5. FlattenSeq(q) = FlattenSeq(p) \o c(x)
  <2>1. c(x) \in Seq(V)
    BY <1>2
  <2> DEFINE y == c(x)
  <2>2. q = Append(p, y) /\ y \in Seq(V)
    BY <1>4, <2>1
  <2> HIDE DEF p, q, c, y
  <2>3. FlattenSeq(q) = FlattenSeq(p) \o y
    BY <1>3, <2>2, FlattenAppend
  <2> QED
    BY <2>3 DEF y
<1>6. FlattenSeq(p) \in Seq(V)
  <2> HIDE DEF p
  <2> QED
    BY <1>3, FlattenType
<1>7. Kept(b, A) = FlattenSeq(q) /\ Kept(s, A) = FlattenSeq(p)
  BY DEF Kept
<1> HIDE DEF p, q
<1>8. CASE x \in A
  BY <1>5, <1>6, <1>7, <1>8 DEF b
<1>9. CASE x \notin A
  BY <1>5, <1>6, <1>7, <1>9 DEF b
<1> QED
  BY <1>8, <1>9

LEMMA KeptIs ==
    ASSUME NEW V, NEW A
    PROVE  \A s \in Seq(V) : Kept(s, A) \in Seq(V) /\ Members(Kept(s, A)) = Members(s) \cap A
<1> DEFINE X == {s \in Seq(V) : Kept(s, A) \in Seq(V)
                                  /\ Members(Kept(s, A)) = Members(s) \cap A}
<1>1. << >> \in X
  <2> DEFINE nil == << >>
  <2>1. nil \in Seq(V) /\ Members(nil) = {}
    BY DEF Members
  <2>2. Kept(nil, A) = nil
    BY KeptNone
  <2> HIDE DEF nil
  <2>3. nil \in X
    BY <2>1, <2>2
  <2> QED
    BY <2>3 DEF nil
<1>2. ASSUME NEW s \in Seq(V), s \in X, NEW x \in V PROVE Append(s, x) \in X
  <2> DEFINE k == Kept(s, A)
             b == Append(s, x)
  <2>1. k \in Seq(V) /\ Members(k) = Members(s) \cap A
    BY <1>2
  <2>2. b \in Seq(V) /\ Members(b) = Members(s) \cup {x}
    BY MembersOfAppend
  <2>3. Kept(b, A) = IF x \in A THEN Append(k, x) ELSE k
    BY KeptAppend
  <2> HIDE DEF k, b
  <2>4. CASE x \in A
    <3>1. Append(k, x) \in Seq(V) /\ Members(Append(k, x)) = Members(k) \cup {x}
      BY <2>1, MembersOfAppend
    <3>2. Kept(b, A) \in Seq(V) /\ Members(Kept(b, A)) = Members(b) \cap A
      BY <2>1, <2>2, <2>3, <2>4, <3>1
    <3> QED
      BY <2>2, <3>2 DEF b
  <2>5. CASE x \notin A
    <3>2. Kept(b, A) \in Seq(V) /\ Members(Kept(b, A)) = Members(b) \cap A
      BY <2>1, <2>2, <2>3, <2>5
    <3> QED
      BY <2>2, <3>2 DEF b
  <2> QED
    BY <2>4, <2>5
<1>3. Seq(V) \subseteq X
  <2> HIDE DEF X
  <2> QED
    BY <1>1, <1>2, SequenceInduction
<1> QED
  BY <1>3

LEMMA KeptAgree ==
    ASSUME NEW s, NEW A, NEW B, \A i \in DOMAIN s : s[i] \in A <=> s[i] \in B
    PROVE  Kept(s, A) = Kept(s, B)
<1>1. [i \in DOMAIN s |-> IF s[i] \in A THEN <<s[i]>> ELSE << >>]
        = [i \in DOMAIN s |-> IF s[i] \in B THEN <<s[i]>> ELSE << >>]
  OBVIOUS
<1> QED
  BY <1>1 DEF Kept

LEMMA KeptAll ==
    ASSUME NEW V, NEW A, V \subseteq A
    PROVE  \A s \in Seq(V) : Kept(s, A) = s
<1> DEFINE X == {s \in Seq(V) : Kept(s, A) = s}
<1>1. << >> \in X
  BY KeptNone
<1>2. ASSUME NEW s \in Seq(V), s \in X, NEW x \in V PROVE Append(s, x) \in X
  <2>1. Kept(Append(s, x), A) = Append(Kept(s, A), x)
    BY KeptAppend
  <2> QED
    BY <1>2, <2>1
<1>3. Seq(V) \subseteq X
  <2> HIDE DEF X
  <2> QED
    BY <1>1, <1>2, SequenceInduction
<1> QED
  BY <1>3

LEMMA KeptNothing ==
    ASSUME NEW V, NEW A, V \cap A = {}
    PROVE  \A s \in Seq(V) : Kept(s, A) = << >>
<1> DEFINE X == {s \in Seq(V) : Kept(s, A) = << >>}
<1>1. << >> \in X
  BY KeptNone
<1>2. ASSUME NEW s \in Seq(V), s \in X, NEW x \in V PROVE Append(s, x) \in X
  <2>1. Kept(Append(s, x), A) = Kept(s, A)
    <3>1. x \notin A
      OBVIOUS
    <3> QED
      BY <3>1, KeptAppend
  <2> QED
    BY <1>2, <2>1
<1>3. Seq(V) \subseteq X
  <2> HIDE DEF X
  <2> QED
    BY <1>1, <1>2, SequenceInduction
<1> QED
  BY <1>3

Joined(u, s, t)  == u = s \o t
Appended(y, t, x) == y = Append(t, x)

LEMMA AppendedIsJoined ==
    ASSUME NEW V, NEW s \in Seq(V), NEW t \in Seq(V), NEW x \in V,
           NEW u, Joined(u, s, t), NEW y, Appended(y, t, x), NEW z, Appended(z, u, x)
    PROVE  Joined(z, s, y)
<1>1. Append(s \o t, x) = s \o Append(t, x)
  OBVIOUS
<1> QED
  BY <1>1, Zenon DEF Joined, Appended

LEMMA KeptConcat ==
    ASSUME NEW V, NEW A, NEW s \in Seq(V)
    PROVE  \A t \in Seq(V) : Kept(s \o t, A) = Kept(s, A) \o Kept(t, A)
<1> DEFINE X == {t \in Seq(V) : Kept(s \o t, A) = Kept(s, A) \o Kept(t, A)}
           k == Kept(s, A)
<1>0. k \in Seq(V)
  BY KeptIs
<1>1. << >> \in X
  <2> DEFINE nil == << >>
  <2>1. nil \in Seq(V) /\ s \o nil = s
    OBVIOUS
  <2>2. k \o nil = k
    <3> HIDE DEF k
    <3> QED
      BY <1>0
  <2>3. Kept(nil, A) = nil
    BY KeptNone
  <2> HIDE DEF nil, k
  <2>4. Kept(s \o nil, A) = k \o Kept(nil, A)
    BY <2>1, <2>2, <2>3, Zenon DEF k
  <2>5. nil \in X
    BY <2>1, <2>4 DEF k
  <2> QED
    BY <2>5 DEF nil
<1>2. ASSUME NEW t \in Seq(V), t \in X, NEW x \in V PROVE Append(t, x) \in X
  <2> DEFINE m == Kept(t, A)
             u == s \o t
  <2>1. m \in Seq(V) /\ u \in Seq(V) /\ Kept(u, A) = k \o m
    BY <1>2, KeptIs
  <2>2. s \o Append(t, x) = Append(u, x) /\ Append(t, x) \in Seq(V)
    OBVIOUS
  <2>3. Kept(Append(u, x), A) = IF x \in A THEN Append(Kept(u, A), x) ELSE Kept(u, A)
    <3> HIDE DEF u
    <3> QED
      BY <2>1, KeptAppend
  <2>4. Kept(Append(t, x), A) = IF x \in A THEN Append(m, x) ELSE m
    BY KeptAppend
  <2> HIDE DEF m, u, k
  <2>5. Append(k \o m, x) = k \o Append(m, x)
    <3>1. k \in Seq(V) /\ m \in Seq(V)
      BY <1>0, <2>1
    <3> DEFINE p == k \o m
               y == Append(m, x)
               z == Append(p, x)
    <3>2. Joined(p, k, m) /\ Appended(y, m, x) /\ Appended(z, p, x)
      BY DEF Joined, Appended
    <3> HIDE DEF p, y, z, X
    <3>3. Joined(z, k, y)
      BY <3>1, <3>2, AppendedIsJoined
    <3> QED
      BY <3>3, Zenon DEF Joined, z, p, y
  <2>6. Kept(Append(u, x), A) = k \o Kept(Append(t, x), A)
    <3>1. CASE x \in A
      <4>1. Kept(Append(u, x), A) = Append(k \o m, x) /\ Kept(Append(t, x), A) = Append(m, x)
        BY <2>1, <2>3, <2>4, <3>1
      <4> QED
        BY <2>5, <4>1, Zenon
    <3>2. CASE x \notin A
      BY <2>1, <2>3, <2>4, <3>2, Zenon
    <3> QED
      BY <3>1, <3>2
  <2> QED
    BY <2>2, <2>6 DEF k
<1>3. Seq(V) \subseteq X
  <2> HIDE DEF X
  <2> QED
    BY <1>1, <1>2, SequenceInduction
<1> QED
  BY <1>3

(***************************************************************************)
(* How many of a sequence are in a set.                                    *)
(***************************************************************************)
HowManyIn(s, B) == Cardinality({i \in DOMAIN s : s[i] \in B})

LEMMA HowManyAppend ==
    ASSUME NEW V, NEW s \in Seq(V), NEW x \in V, NEW B
    PROVE  /\ HowManyIn(s, B) \in Nat
           /\ HowManyIn(Append(s, x), B) = HowManyIn(s, B) + (IF x \in B THEN 1 ELSE 0)
<1> DEFINE n == Len(s)
           b == Append(s, x)
           S == {i \in DOMAIN s : s[i] \in B}
           T == {i \in DOMAIN b : b[i] \in B}
<1>1. /\ n \in Nat /\ DOMAIN s = 1..n /\ DOMAIN b = 1..(n + 1) /\ b[n + 1] = x
      /\ \A i \in 1..n : b[i] = s[i]
  OBVIOUS
<1>2. S \subseteq 1..n /\ IsFiniteSet(1..n)
  BY <1>1, FS_Interval
<1>3. IsFiniteSet(S) /\ Cardinality(S) \in Nat
  <2> HIDE DEF S, n
  <2> QED
    BY <1>2, FS_Subset, FS_CardinalityType
<1>4. T = IF x \in B THEN S \cup {n + 1} ELSE S
  <2>1. \A i \in 1..(n + 1) : i \in 1..n \/ i = n + 1
    BY <1>1
  <2>2. n + 1 \in 1..(n + 1) /\ n + 1 \notin 1..n /\ \A i \in 1..n : i \in 1..(n + 1)
    BY <1>1
  <2> HIDE DEF b, n
  <2> QED
    BY <1>1, <2>1, <2>2
<1>5. n + 1 \notin S
  BY <1>1, <1>2
<1>6. Cardinality(S \cup {n + 1}) = Cardinality(S) + 1
  <2> HIDE DEF S, n
  <2> QED
    BY <1>3, <1>5, FS_AddElement
<1>7. HowManyIn(s, B) = Cardinality(S) /\ HowManyIn(b, B) = Cardinality(T)
  BY DEF HowManyIn
<1> HIDE DEF S, T, b, n
<1>8. HowManyIn(b, B) = HowManyIn(s, B) + (IF x \in B THEN 1 ELSE 0)
  BY <1>3, <1>4, <1>6, <1>7
<1> QED
  BY <1>3, <1>7, <1>8 DEF b

LEMMA HowManyOfNone == \A B : HowManyIn(<< >>, B) = 0
<1> SUFFICES ASSUME NEW B PROVE HowManyIn(<< >>, B) = 0
  OBVIOUS
<1>1. {i \in DOMAIN << >> : << >>[i] \in B} = {}
  OBVIOUS
<1> QED
  BY <1>1, FS_EmptySet DEF HowManyIn

\* Of what is kept, as many are in B as are in both.
LEMMA HowManyKept ==
    ASSUME NEW V, NEW A, NEW B
    PROVE  \A s \in Seq(V) : HowManyIn(Kept(s, A), B) = HowManyIn(s, A \cap B)
<1> DEFINE X == {s \in Seq(V) : HowManyIn(Kept(s, A), B) = HowManyIn(s, A \cap B)}
<1>1. << >> \in X
  <2> DEFINE nil == << >>
  <2>1. nil \in Seq(V)
    OBVIOUS
  <2>2. Kept(nil, A) = nil /\ HowManyIn(nil, B) = 0 /\ HowManyIn(nil, A \cap B) = 0
    BY KeptNone, HowManyOfNone
  <2> HIDE DEF nil
  <2>3. nil \in X
    BY <2>1, <2>2
  <2> QED
    BY <2>3 DEF nil
<1>2. ASSUME NEW s \in Seq(V), s \in X, NEW x \in V PROVE Append(s, x) \in X
  <2> DEFINE k == Kept(s, A)
             C == A \cap B
             b == Append(s, x)
             c == Append(k, x)
  <2>1. k \in Seq(V) /\ b \in Seq(V)
    BY KeptIs
  <2>2. HowManyIn(k, B) = HowManyIn(s, C)
    BY <1>2
  <2>3. /\ HowManyIn(s, C) \in Nat
        /\ HowManyIn(b, C) = HowManyIn(s, C) + (IF x \in C THEN 1 ELSE 0)
    <3> HIDE DEF C
    <3> QED
      BY HowManyAppend
  <2>4. HowManyIn(c, B) = HowManyIn(k, B) + (IF x \in B THEN 1 ELSE 0)
    <3> HIDE DEF k
    <3> QED
      BY <2>1, HowManyAppend
  <2>5. Kept(b, A) = IF x \in A THEN c ELSE k
    BY KeptAppend
  <2>6. x \in C <=> x \in A /\ x \in B
    OBVIOUS
  <2> HIDE DEF k, b, C, c
  <2>7. HowManyIn(Kept(b, A), B) = HowManyIn(b, C)
    <3>1. CASE x \in A
      BY <2>2, <2>3, <2>4, <2>5, <2>6, <3>1
    <3>2. CASE x \notin A
      BY <2>2, <2>3, <2>5, <2>6, <3>2
    <3> QED
      BY <3>1, <3>2
  <2> QED
    BY <2>1, <2>7 DEF b, C
<1>3. Seq(V) \subseteq X
  <2> HIDE DEF X
  <2> QED
    BY <1>1, <1>2, SequenceInduction
<1> QED
  BY <1>3

-----------------------------------------------------------------------------
(***************************************************************************)
(* Graphs over the documents K with edges of a set that lead from one of   *)
(* them to another, and what their indexes have to say.                    *)
(***************************************************************************)
Graphs(K, Edge) ==
    [keys : Seq(K), edges : Seq(Edge), outgoing : [K -> [start : Nat, end : Nat]],
     backlinks : [K -> Seq(Nat)]]

AreEdges(Edge, K) == \A e \in Edge : e.source \in K /\ e.target \in K

From(Edge, k) == {e \in Edge : e.source = k}
To(Edge, k)   == {e \in Edge : e.target = k}

BacklinksExact(g, K, Edge) ==
    \A k \in K :
        /\ \A i \in DOMAIN g.backlinks[k] : g.backlinks[k][i] \in 1..Len(g.edges)
        /\ Backlinks(g, k) = Kept(g.edges, To(Edge, k))

LEMMA AddEdgeIs ==
    ASSUME NEW K, NEW Edge, AreEdges(Edge, K), NEW g \in Graphs(K, Edge),
           BacklinksExact(g, K, Edge), NEW e \in Edge, NEW f, f = addEdge(g, e)
    PROVE  /\ f \in Graphs(K, Edge) /\ BacklinksExact(f, K, Edge)
           /\ f.edges = Append(g.edges, e)
           /\ f.keys = g.keys /\ f.outgoing = g.outgoing
<1> DEFINE s == g.edges
           n == Len(s)
           t == Append(s, e)
           back == g.backlinks
           new == [back EXCEPT ![e.target] = Append(@, n + 1)]
<1>1. /\ g.keys \in Seq(K) /\ s \in Seq(Edge) /\ g.outgoing \in [K -> [start : Nat, end : Nat]]
      /\ back \in [K -> Seq(Nat)] /\ n \in Nat /\ e.target \in K
  BY DEF Graphs, AreEdges
<1>2. /\ f.keys = g.keys /\ f.edges = t /\ f.outgoing = g.outgoing /\ f.backlinks = new
      /\ f = [keys |-> g.keys, edges |-> t, outgoing |-> g.outgoing, backlinks |-> new]
  BY DEF addEdge
<1>3. new \in [K -> Seq(Nat)] /\ t \in Seq(Edge)
  <2> HIDE DEF back, n, s
  <2> QED
    BY <1>1
<1>4. f \in Graphs(K, Edge)
  <2> HIDE DEF new, t
  <2> QED
    BY <1>1, <1>2, <1>3 DEF Graphs
<1>5. /\ \A k \in K \ {e.target} : new[k] = back[k]
      /\ new[e.target] = Append(back[e.target], n + 1)
  <2> HIDE DEF back, n
  <2> QED
    BY <1>1
<1>6. Len(t) = n + 1 /\ t[n + 1] = e /\ \A i \in 1..n : t[i] = s[i]
  BY <1>1
<1> HIDE DEF back, new, t, n, s
<1>7. ASSUME NEW k \in K
      PROVE  /\ \A i \in DOMAIN new[k] : new[k][i] \in 1..(n + 1)
             /\ [i \in DOMAIN new[k] |-> t[new[k][i]]] = Kept(t, To(Edge, k))
  <2> DEFINE p == back[k]
             m == Len(p)
             old == [i \in DOMAIN p |-> s[p[i]]]
  <2>1. p \in Seq(Nat) /\ m \in Nat /\ DOMAIN p = 1..m
    BY <1>1
  <2>2. (\A i \in 1..m : p[i] \in 1..n) /\ old = Kept(s, To(Edge, k))
    <3>1. /\ \A i \in DOMAIN g.backlinks[k] : g.backlinks[k][i] \in 1..Len(g.edges)
          /\ Backlinks(g, k) = Kept(g.edges, To(Edge, k))
      BY DEF BacklinksExact
    <3> QED
      BY <2>1, <3>1 DEF Backlinks, back, s, n
  <2>3. Kept(t, To(Edge, k)) = IF e \in To(Edge, k) THEN Append(Kept(s, To(Edge, k)), e)
                               ELSE Kept(s, To(Edge, k))
    BY <1>1, KeptAppend DEF t
  <2>4. e \in To(Edge, k) <=> k = e.target
    BY DEF To
  <2>5. old \in Seq(Edge) /\ Len(old) = m
    <3>1. \A i \in 1..m : s[p[i]] \in Edge
      BY <1>1, <2>2 DEF n
    <3> HIDE DEF p, m
    <3> QED
      BY <2>1, <3>1
  <2> HIDE DEF p, m
  <2>6. CASE k = e.target
    <3> DEFINE q == Append(p, n + 1)
    <3>1. new[k] = q
      BY <1>5, <2>6 DEF p
    <3>2. /\ DOMAIN q = 1..(m + 1) /\ q[m + 1] = n + 1 /\ \A i \in 1..m : q[i] = p[i]
      BY <1>1, <2>1 DEF m
    <3> HIDE DEF q, old
    <3>3. \A i \in 1..(m + 1) : i \in 1..m \/ i = m + 1
      BY <2>1
    <3>4. \A i \in DOMAIN q : q[i] \in 1..(n + 1)
      <4>1. n + 1 \in 1..(n + 1) /\ \A i \in 1..n : i \in 1..(n + 1)
        BY <1>1
      <4> QED
        BY <2>2, <3>2, <3>3, <4>1, Zenon
    <3>5. \A i \in 1..(m + 1) : t[q[i]] = IF i = m + 1 THEN e ELSE old[i]
      <4>1. \A i \in 1..m : t[q[i]] = old[i]
        BY <1>6, <2>1, <2>2, <3>2 DEF old
      <4>2. t[q[m + 1]] = e
        BY <1>6, <3>2
      <4>3. \A i \in 1..m : i # m + 1
        BY <2>1
      <4> QED
        BY <3>3, <4>1, <4>2, <4>3
    <3>6. [i \in DOMAIN q |-> t[q[i]]] = [i \in 1..(m + 1) |-> IF i = m + 1 THEN e ELSE old[i]]
      BY <3>2, <3>5
    <3>7. Append(old, e) = [i \in 1..(m + 1) |-> IF i = m + 1 THEN e ELSE old[i]]
      BY <2>5, AppendIs
    <3>8. Kept(t, To(Edge, k)) = Append(old, e)
      BY <2>2, <2>3, <2>4, <2>6
    <3>9. [i \in DOMAIN q |-> t[q[i]]] = Kept(t, To(Edge, k))
      BY <3>6, <3>7, <3>8, Zenon
    <3> QED
      BY <3>1, <3>4, <3>9
  <2>7. CASE k # e.target
    <3>1. new[k] = p
      BY <1>5, <2>7 DEF p
    <3>2. \A i \in 1..m : p[i] \in 1..(n + 1) /\ t[p[i]] = s[p[i]]
      BY <1>1, <1>6, <2>2
    <3>3. [i \in DOMAIN p |-> t[p[i]]] = old
      BY <2>1, <3>2
    <3> HIDE DEF old
    <3> QED
      BY <2>1, <2>2, <2>3, <2>4, <2>7, <3>1, <3>2, <3>3
  <2> QED
    BY <2>6, <2>7
<1>8. BacklinksExact(f, K, Edge)
  <2>1. ASSUME NEW k \in K
        PROVE  /\ \A i \in DOMAIN f.backlinks[k] : f.backlinks[k][i] \in 1..Len(f.edges)
               /\ Backlinks(f, k) = Kept(f.edges, To(Edge, k))
    BY <1>2, <1>6, <1>7 DEF Backlinks
  <2> QED
    BY <2>1 DEF BacklinksExact
<1> QED
  BY <1>2, <1>4, <1>8 DEF t, s

LEMMA FirstAndNext ==
    ASSUME NEW V, NEW s \in Seq(V), NEW i \in Nat, i + 1 <= Len(s)
    PROVE  /\ SubSeq(s, 1, i) \in Seq(V) /\ s[i + 1] \in V
           /\ Appended(SubSeq(s, 1, i + 1), SubSeq(s, 1, i), s[i + 1])
<1>1. SubSeq(s, 1, i) \in Seq(V) /\ s[i + 1] \in V
  OBVIOUS
<1>2. SubSeq(s, 1, i + 1) = Append(SubSeq(s, 1, i), s[i + 1])
  OBVIOUS
<1> QED
  BY <1>1, <1>2 DEF Appended

LEMMA AddEdgesIs ==
    ASSUME NEW K, NEW Edge, AreEdges(Edge, K), NEW g \in Graphs(K, Edge),
           BacklinksExact(g, K, Edge), NEW es \in Seq(Edge), NEW f, f = addEdges(g, es)
    PROVE  /\ f \in Graphs(K, Edge) /\ BacklinksExact(f, K, Edge)
           /\ f.edges = g.edges \o es
           /\ f.keys = g.keys /\ f.outgoing = g.outgoing
<1> DEFINE m == Len(es)
           I == 0..m
           V == {v \in Graphs(K, Edge) : /\ BacklinksExact(v, K, Edge)
                                         /\ v.keys = g.keys /\ v.outgoing = g.outgoing}
           h == [x \in V \X I |-> IF x[2] = 0 THEN x[1] ELSE addEdge(x[1], es[x[2]])]
           P(a) == a = [i \in 0..Len(es) |->
                          IF i = 0 THEN g ELSE addEdge(a[i - 1], es[i])]
           add == CHOOSE a : P(a)
<1>1. /\ m \in Nat /\ IsInitial(I) /\ m \in I /\ 0 \in I
      /\ \A i \in I : i # 0 => i - 1 \in I /\ i \in 1..m
      /\ \A i \in 1..m : es[i] \in Edge
  BY DEF IsInitial
<1>2. ASSUME NEW v \in V, NEW i \in 1..m
      PROVE  addEdge(v, es[i]) \in V /\ addEdge(v, es[i]).edges = Append(v.edges, es[i])
  <2> DEFINE u == addEdge(v, es[i])
  <2>1. /\ v \in Graphs(K, Edge) /\ BacklinksExact(v, K, Edge) /\ es[i] \in Edge
        /\ v.keys = g.keys /\ v.outgoing = g.outgoing
    BY <1>1
  <2>2. /\ u \in Graphs(K, Edge) /\ BacklinksExact(u, K, Edge)
        /\ u.edges = Append(v.edges, es[i]) /\ u.keys = v.keys /\ u.outgoing = v.outgoing
    BY <2>1, AddEdgeIs
  <2> HIDE DEF u
  <2>3. u \in V
    BY <2>1, <2>2
  <2> QED
    BY <2>2, <2>3 DEF u
<1>3. \A v \in V, i \in I : i # 0 => h[<<v, i>>] = addEdge(v, es[i])
  OBVIOUS
<1>4. g \in V
  OBVIOUS
<1>5. PICK a \in [I -> V] : Steps(a, I, g, h)
  <2>1. \A v \in V, i \in I : i # 0 => h[<<v, i>>] \in V
    <3> HIDE DEF h, I, m, V
    <3> QED
      BY <1>1, <1>2, <1>3
  <2> HIDE DEF h, I, m, V
  <2> QED
    BY <1>1, <1>4, <2>1, StepsExist
<1>6. ASSUME NEW i \in I PROVE a[i] = IF i = 0 THEN g ELSE addEdge(a[i - 1], es[i])
  <2>1. a[i] = IF i = 0 THEN g ELSE h[<<a[i - 1], i>>]
    BY <1>5 DEF Steps
  <2>2. i # 0 => a[i - 1] \in V
    BY <1>1, <1>5
  <2> HIDE DEF h, I, m, V
  <2> QED
    BY <1>3, <2>1, <2>2
<1>7. P(a)
  <2>1. a = [i \in I |-> IF i = 0 THEN g ELSE addEdge(a[i - 1], es[i])]
    <3> HIDE DEF I, V
    <3> QED
      BY <1>5, <1>6
  <2> QED
    BY <2>1
<1>8. P(add)
  <2> HIDE DEF P
  <2> QED
    BY <1>7, Zenon
<1>9. f = add[m]
  BY DEF addEdges
<1> HIDE DEF add
<1>10. \A i \in I : add[i] = IF i = 0 THEN g ELSE addEdge(add[i - 1], es[i])
  BY <1>8
<1> HIDE DEF P, h, I, V, m
<1> DEFINE S == {i \in Nat : i \in I => add[i] \in V /\ Joined(add[i].edges, g.edges, SubSeq(es, 1, i))}
<1>11. 0 \in S
  <2>1. add[0] = g
    BY <1>1, <1>10
  <2>2. g.edges \in Seq(Edge)
    BY DEF Graphs
  <2>3. SubSeq(es, 1, 0) = << >>
    OBVIOUS
  <2>4. g.edges = g.edges \o << >>
    BY <2>2
  <2>5. Joined(add[0].edges, g.edges, SubSeq(es, 1, 0))
    BY <2>1, <2>3, <2>4, Zenon DEF Joined
  <2> QED
    BY <1>4, <2>1, <2>5
<1>12. ASSUME NEW i \in Nat, i \in S PROVE i + 1 \in S
  <2> SUFFICES ASSUME i + 1 \in I
               PROVE  /\ add[i + 1] \in V
                      /\ Joined(add[i + 1].edges, g.edges, SubSeq(es, 1, i + 1))
    OBVIOUS
  <2>1. i \in I /\ i + 1 # 0 /\ (i + 1) - 1 = i /\ i + 1 \in 1..m /\ i + 1 <= m
    BY <1>1 DEF I
  <2> DEFINE v == add[i]
             u == add[i + 1]
             x == es[i + 1]
             t == SubSeq(es, 1, i)
             y == SubSeq(es, 1, i + 1)
  <2>2. v \in V /\ Joined(v.edges, g.edges, t)
    BY <1>12, <2>1
  <2>3. u = addEdge(v, x)
    BY <1>10, <2>1
  <2>4. u \in V /\ u.edges = Append(v.edges, x)
    BY <1>2, <2>1, <2>2, <2>3
  <2>5. t \in Seq(Edge) /\ x \in Edge /\ Appended(y, t, x)
    BY <2>1, FirstAndNext DEF m
  <2>6. g.edges \in Seq(Edge) /\ Appended(u.edges, v.edges, x)
    BY <2>4 DEF Graphs, Appended
  <2> HIDE DEF u, v, x, t, y
  <2>7. Joined(u.edges, g.edges, y)
    BY <2>2, <2>5, <2>6, AppendedIsJoined
  <2> QED
    BY <2>4, <2>7 DEF u, y
<1>13. Nat \subseteq S
  <2> HIDE DEF S
  <2> QED
    BY <1>11, <1>12, NatSetInduction
<1>14. f \in V /\ Joined(f.edges, g.edges, SubSeq(es, 1, m))
  BY <1>1, <1>9, <1>13
<1>15. SubSeq(es, 1, m) = es
  BY DEF m
<1>16. f.edges = g.edges \o es
  BY <1>14, <1>15, Zenon DEF Joined
<1> QED
  BY <1>14, <1>16 DEF V

(***************************************************************************)
(* The ranges of the documents that are closed; past is the edges that     *)
(* leave them, and the edges from there on leave the next document.        *)
(***************************************************************************)
OutgoingExact(out, past, closed, K, Edge) ==
    \A k \in K : IF k \in closed
                 THEN /\ out[k].end <= Len(past)
                      /\ SubSeq(past, out[k].start + 1, out[k].end) = Kept(past, From(Edge, k))
                 ELSE out[k] = NoEdges

LEMMA PartOfJoined ==
    ASSUME NEW V, NEW s \in Seq(V), NEW t \in Seq(V), NEW a \in Nat, NEW b \in Nat, b <= Len(s)
    PROVE  SubSeq(s \o t, a + 1, b) = SubSeq(s, a + 1, b)
OBVIOUS

LEMMA RestOfJoined ==
    ASSUME NEW V, NEW s \in Seq(V), NEW t \in Seq(V)
    PROVE  SubSeq(s \o t, Len(s) + 1, Len(s \o t)) = t /\ Len(s \o t) = Len(s) + Len(t)
OBVIOUS

LEMMA CloseSourceIs ==
    ASSUME NEW K, NEW Edge, AreEdges(Edge, K), NEW g \in Graphs(K, Edge),
           NEW closed \in SUBSET K, NEW c \in K, c \notin closed,
           NEW past \in Seq(Edge), \A i \in 1..Len(past) : past[i].source \in closed,
           NEW own \in Seq(From(Edge, c)),
           g.edges = past \o own, OutgoingExact(g.outgoing, past, closed, K, Edge),
           NEW f, f = closeSource(g, c, Len(past))
    PROVE  /\ f \in Graphs(K, Edge)
           /\ f.edges = g.edges /\ f.keys = g.keys /\ f.backlinks = g.backlinks
           /\ OutgoingExact(f.outgoing, g.edges, closed \cup {c}, K, Edge)
<1> DEFINE all == g.edges
           out == g.outgoing
           n == Len(past)
           new == [out EXCEPT ![c] = [start |-> n, end |-> Len(all)]]
<1>1. /\ all \in Seq(Edge) /\ out \in [K -> [start : Nat, end : Nat]] /\ n \in Nat
      /\ Len(all) \in Nat
  <2>1. g.edges \in Seq(Edge) /\ g.outgoing \in [K -> [start : Nat, end : Nat]]
    BY DEF Graphs
  <2>2. Len(past) \in Nat
    OBVIOUS
  <2>3. Len(g.edges) \in Nat
    <3> DEFINE es == g.edges
    <3>1. es \in Seq(Edge)
      BY <2>1
    <3> HIDE DEF es
    <3>2. Len(es) \in Nat
      BY <3>1
    <3> QED
      BY <3>2 DEF es
  <2> QED
    BY <2>1, <2>2, <2>3, Zenon
<1>2. own \in Seq(Edge)
  BY DEF From
<1>3. /\ Len(all) = n + Len(own) /\ Len(own) \in Nat /\ SubSeq(all, n + 1, Len(all)) = own
      /\ \A a \in Nat, b \in Nat : b <= n => SubSeq(all, a + 1, b) = SubSeq(past, a + 1, b)
  <2>1. \A a \in Nat, b \in Nat : b <= n =>
           SubSeq(past \o own, a + 1, b) = SubSeq(past, a + 1, b)
    BY <1>2, PartOfJoined
  <2>2. SubSeq(past \o own, n + 1, Len(past \o own)) = own /\ Len(past \o own) = n + Len(own)
    BY <1>2, RestOfJoined
  <2> QED
    BY <2>1, <2>2
<1>4. /\ f.edges = all /\ f.keys = g.keys /\ f.backlinks = g.backlinks
      /\ f.outgoing = IF Len(all) = n THEN out ELSE new
      /\ f \in Graphs(K, Edge)
  <2>1. CASE Len(all) = n
    BY <2>1 DEF closeSource
  <2>2. CASE Len(all) # n
    <3>1. f = [g EXCEPT !.outgoing = new]
      BY <2>2 DEF closeSource, Graphs
    <3>2. new \in [K -> [start : Nat, end : Nat]]
      <4> HIDE DEF all, out, n
      <4> QED
        BY <1>1
    <3> HIDE DEF new
    <3> QED
      BY <2>2, <3>1, <3>2 DEF Graphs
  <2> QED
    BY <2>1, <2>2
<1>5. ASSUME NEW k \in K
      PROVE  Kept(all, From(Edge, k)) = Kept(past, From(Edge, k)) \o Kept(own, From(Edge, k))
  BY <1>2, KeptConcat
<1>6. ASSUME NEW k \in K, k # c PROVE Kept(own, From(Edge, k)) = << >>
  <2>1. From(Edge, c) \cap From(Edge, k) = {}
    BY <1>6 DEF From
  <2> QED
    BY <2>1, KeptNothing
<1>7. Kept(own, From(Edge, c)) = own
  BY KeptAll
<1>8. Kept(past, From(Edge, c)) = << >>
  <2> DEFINE V == {e \in Edge : e.source \in closed}
  <2>1. past \in Seq(V)
    <3>1. \A i \in 1..n : past[i] \in Edge /\ past[i].source \in closed
      OBVIOUS
    <3>2. \A i \in 1..n : past[i] \in V
      BY <3>1
    <3> HIDE DEF V
    <3> QED
      BY <3>2
  <2>2. V \cap From(Edge, c) = {}
    BY DEF From
  <2> HIDE DEF V
  <2> QED
    BY <2>1, <2>2, KeptNothing
<1>9. ASSUME NEW k \in K PROVE Kept(past, From(Edge, k)) \in Seq(Edge)
  BY KeptIs
<1>10. ASSUME NEW k \in K
       PROVE  IF k \in closed \cup {c}
              THEN /\ f.outgoing[k].end <= Len(all)
                   /\ SubSeq(all, f.outgoing[k].start + 1, f.outgoing[k].end)
                        = Kept(all, From(Edge, k))
              ELSE f.outgoing[k] = NoEdges
  <2>1. k # c => new[k] = out[k]
    <3> HIDE DEF out, all, n
    <3> QED
      BY <1>1
  <2>2. new[c] = [start |-> n, end |-> Len(all)]
    <3> HIDE DEF out, all, n
    <3> QED
      BY <1>1
  <2>3. k # c => f.outgoing[k] = out[k]
    <3> HIDE DEF new, out, all, n
    <3> QED
      BY <1>4, <2>1
  <2>4. CASE k \in closed
    <3>1. /\ out[k].end <= n /\ out[k].end \in Nat /\ out[k].start \in Nat
          /\ SubSeq(past, out[k].start + 1, out[k].end) = Kept(past, From(Edge, k))
      <4>1. out[k] \in [start : Nat, end : Nat]
        BY <1>1
      <4> QED
        BY <2>4, <4>1 DEF OutgoingExact
    <3>2. f.outgoing[k] = out[k] /\ k # c
      BY <2>3, <2>4
    <3>3. Kept(all, From(Edge, k)) = Kept(past, From(Edge, k))
      <4> DEFINE p == Kept(past, From(Edge, k))
      <4>1. p \in Seq(Edge) /\ Kept(own, From(Edge, k)) = << >>
        BY <1>6, <1>9, <3>2
      <4>2. Kept(all, From(Edge, k)) = p \o << >>
        BY <1>5, <4>1, Zenon
      <4> HIDE DEF p
      <4>3. p \o << >> = p
        BY <4>1
      <4> QED
        BY <4>2, <4>3 DEF p
    <3>4. SubSeq(all, out[k].start + 1, out[k].end) = SubSeq(past, out[k].start + 1, out[k].end)
      <4> HIDE DEF all, out, n
      <4> QED
        BY <1>3, <3>1
    <3>5. out[k].end <= Len(all)
      <4> HIDE DEF all, out, n
      <4> QED
        BY <1>3, <1>1, <3>1
    <3> HIDE DEF all, out, n
    <3> QED
      BY <2>4, <3>1, <3>2, <3>3, <3>4, <3>5
  <2>5. CASE k = c
    <3>1. Kept(all, From(Edge, k)) = own
      <4>1. Kept(all, From(Edge, k)) = << >> \o own
        BY <1>5, <1>7, <1>8, <2>5, Zenon
      <4>2. << >> \o own = own
        BY <1>2
      <4> QED
        BY <4>1, <4>2
    <3>2. CASE Len(all) = n
      <4>1. f.outgoing[k] = NoEdges
        <5>1. out[k] = NoEdges
          BY <2>5 DEF OutgoingExact
        <5> QED
          BY <1>4, <3>2, <5>1
      <4>2. own = << >>
        <5>1. Len(own) = 0
          <6> HIDE DEF n, all
          <6> QED
            BY <1>1, <1>3, <3>2
        <5> QED
          BY <1>2, <5>1
      <4>3. SubSeq(all, 0 + 1, 0) = << >>
        <5> HIDE DEF all
        <5> QED
          BY <1>1
      <4>4. /\ f.outgoing[k].end = 0 /\ f.outgoing[k].start = 0
            /\ SubSeq(all, f.outgoing[k].start + 1, f.outgoing[k].end) = own
        BY <4>1, <4>2, <4>3 DEF NoEdges
      <4> HIDE DEF all
      <4> QED
        BY <1>1, <2>5, <3>1, <4>4
    <3>3. CASE Len(all) # n
      <4>1. f.outgoing[k] = [start |-> n, end |-> Len(all)]
        <5> HIDE DEF new, out, all, n
        <5> QED
          BY <1>4, <2>2, <2>5, <3>3
      <4>2. f.outgoing[k].start = n /\ f.outgoing[k].end = Len(all)
        BY <4>1
      <4> HIDE DEF all, n
      <4> QED
        BY <1>1, <1>3, <2>5, <3>1, <4>2
    <3> QED
      BY <3>2, <3>3
  <2>6. CASE k \notin closed \cup {c}
    <3>1. out[k] = NoEdges /\ f.outgoing[k] = out[k]
      BY <2>3, <2>6 DEF OutgoingExact
    <3> QED
      BY <2>6, <3>1
  <2> QED
    BY <2>4, <2>5, <2>6
<1>11. OutgoingExact(f.outgoing, all, closed \cup {c}, K, Edge)
  <2> HIDE DEF all
  <2> QED
    BY <1>10 DEF OutgoingExact
<1> QED
  BY <1>4, <1>11
-----------------------------------------------------------------------------
Snapshots == [key : Keys, text : ParsedTexts]

AreDocuments(docs) ==
    /\ docs \in Seq(Snapshots)
    /\ \A i, j \in DOMAIN docs : docs[i].key = docs[j].key => i = j

KnownIn(docs) == {docs[i].key : i \in DOMAIN docs}

-----------------------------------------------------------------------------
(***************************************************************************)
(* The relationships of a text are a sequence, each at its offset.         *)
(***************************************************************************)
Destinations == [local : BOOLEAN, to : Names]

Relationships == [offset : Nat, local : BOOLEAN, to : Names]

LEMMA EntriesType ==
    ASSUME NEW t \in ParsedTexts
    PROVE  Entries(t) \in Seq(Destinations)
<1> DEFINE n == Len(t.headings)
           entry(h) == IF t.tables[h] = NoTable THEN << >>
                       ELSE [i \in DOMAIN t.tables[h] |-> Local(t.tables[h][i])]
           e == [h \in 1..n |-> entry(h)]
<1>1. /\ t.headings \in Seq(Names) /\ t.tables \in Seq(Seq(Names) \cup {NoTable})
      /\ Len(t.tables) = Len(t.headings)
  BY DEF ParsedTexts
<1>2. n \in Nat /\ DOMAIN t.headings = 1..n
  BY <1>1
<1>3. ASSUME NEW h \in 1..n PROVE entry(h) \in Seq(Destinations)
  <2>1. t.tables[h] \in Seq(Names) \cup {NoTable}
    BY <1>1
  <2>2. CASE t.tables[h] = NoTable
    BY <2>2
  <2>3. CASE t.tables[h] # NoTable
    <3> DEFINE s == t.tables[h]
    <3>1. s \in Seq(Names)
      BY <2>1, <2>3
    <3> HIDE DEF s
    <3>2. [i \in DOMAIN s |-> Local(s[i])] \in Seq(Destinations)
      <4>1. \A i \in DOMAIN s : Local(s[i]) \in Destinations
        BY <3>1 DEF Local, Destinations
      <4>2. Len(s) \in Nat /\ DOMAIN s = 1..Len(s)
        BY <3>1
      <4> QED
        BY <4>1, <4>2
    <3> QED
      BY <2>3, <3>2 DEF s
  <2> QED
    BY <2>2, <2>3
<1>4. e \in Seq(Seq(Destinations))
  <2> HIDE DEF entry, n
  <2> QED
    BY <1>2, <1>3
<1>5. Entries(t) = FlattenSeq(e)
  BY <1>2 DEF Entries
<1> HIDE DEF e
<1> QED
  BY <1>4, <1>5, FlattenType

LEMMA RelationshipsAre ==
    ASSUME NEW t \in ParsedTexts
    PROVE  /\ linkRelationships(t) \in Seq(Relationships)
           /\ \A j \in DOMAIN linkRelationships(t) : linkRelationships(t)[j].offset = j
<1> DEFINE s == t.links \o Entries(t)
<1>1. s \in Seq(Destinations)
  <2>1. t.links \in Seq(Destinations)
    BY DEF ParsedTexts, Destinations
  <2> QED
    BY <2>1, EntriesType, ConcatIs
<1>2. linkRelationships(t) = [i \in DOMAIN s |-> [offset |-> i, local |-> s[i].local, to |-> s[i].to]]
  BY DEF linkRelationships
<1> HIDE DEF s
<1>3. Len(s) \in Nat /\ DOMAIN s = 1..Len(s)
  BY <1>1
<1>4. ASSUME NEW i \in 1..Len(s)
      PROVE  [offset |-> i, local |-> s[i].local, to |-> s[i].to] \in Relationships
  <2>1. s[i] \in Destinations /\ i \in Nat
    BY <1>1, <1>3
  <2>2. PICK l \in BOOLEAN, x \in Names : s[i].local = l /\ s[i].to = x
    BY <2>1 DEF Destinations
  <2>3. [offset |-> i, local |-> l, to |-> x] \in Relationships
    BY <2>1 DEF Relationships
  <2> QED
    BY <2>2, <2>3, Zenon
<1> QED
  BY <1>2, <1>3, <1>4

-----------------------------------------------------------------------------
(***************************************************************************)
(* What was asked, what was answered, and the edges that follow: those of  *)
(* one relationship, of the first n of one document, and of n documents.   *)
(***************************************************************************)
Rel(docs, i) == linkRelationships(docs[i].text)

Asked(ans, source, offset) ==
    {k \in DOMAIN ans : ans[k].source = source /\ ans[k].offset = offset}

AnsweredIn(ans, source, offset) == {ans[k].answer : k \in Asked(ans, source, offset)}

EdgeTo(docs, source, r, target, fragment) ==
    [source |-> source, offset |-> r.offset, target |-> target,
     fragment |-> fragment,
     found |-> fragment # NoFragment
                 /\ fragmentStatus(TextIn(docs, target), fragment) = "resolved"]

EdgeOf(docs, source, r, answer) ==
    IF r.local THEN <<EdgeTo(docs, source, r, source, r.to)>>
    ELSE IF answer.kind # "resolved" THEN << >>
    ELSE <<EdgeTo(docs, source, r, answer.target, answer.fragment)>>

EdgeIn(docs, ans, i, j) ==
    EdgeOf(docs, docs[i].key, Rel(docs, i)[j], TheOnly(AnsweredIn(ans, docs[i].key, j)))

OwnIn(docs, ans, i, n) == FlattenSeq([j \in 1..n |-> EdgeIn(docs, ans, i, j)])

PastIn(docs, ans, n) ==
    FlattenSeq([i \in 1..n |-> OwnIn(docs, ans, i, Len(Rel(docs, i)))])

EdgeSet(docs) ==
    {EdgeTo(docs, s, r, t, f) : s \in KnownIn(docs), r \in Relationships,
                                t \in KnownIn(docs), f \in Names \cup Fragments \cup {NoFragment}}

GoodAnswers(docs) == {a \in Answers : a.kind = "resolved" => a.target \in KnownIn(docs)}

(***************************************************************************)
(* Past documents are done, and the relationships before link of the next. *)
(***************************************************************************)
Done(i, j, past, next) == i <= past \/ (i = past + 1 /\ j < next)

OneAnswer(docs, ans, source, offset) ==
    \E a \in GoodAnswers(docs), x \in DOMAIN ans :
        Asked(ans, source, offset) = {x} /\ ans[x].answer = a

IsAsked(docs, ans, past, next) ==
    \A i \in DOMAIN docs : \A j \in DOMAIN Rel(docs, i) :
        IF Done(i, j, past, next) /\ ~Rel(docs, i)[j].local
        THEN OneAnswer(docs, ans, docs[i].key, j)
        ELSE Asked(ans, docs[i].key, j) = {}

LEMMA RelIs ==
    ASSUME NEW docs, AreDocuments(docs), NEW i \in DOMAIN docs
    PROVE  /\ docs[i].key \in KnownIn(docs) /\ docs[i].text \in ParsedTexts
           /\ Rel(docs, i) \in Seq(Relationships)
           /\ DOMAIN Rel(docs, i) = 1..Len(Rel(docs, i)) /\ Len(Rel(docs, i)) \in Nat
           /\ \A j \in DOMAIN Rel(docs, i) : Rel(docs, i)[j].offset = j
<1>1. docs[i].key \in KnownIn(docs)
  BY DEF KnownIn
<1>2. docs[i].text \in ParsedTexts
  <2>1. docs[i] \in Snapshots
    BY DEF AreDocuments
  <2> QED
    BY <2>1 DEF Snapshots
<1>3. /\ Rel(docs, i) \in Seq(Relationships)
      /\ \A j \in DOMAIN Rel(docs, i) : Rel(docs, i)[j].offset = j
  BY <1>2, RelationshipsAre DEF Rel
<1>4. DOMAIN Rel(docs, i) = 1..Len(Rel(docs, i)) /\ Len(Rel(docs, i)) \in Nat
  BY <1>3
<1> QED
  BY <1>1, <1>2, <1>3, <1>4

LEMMA OnlyAnswer ==
    ASSUME NEW docs, NEW ans, NEW source, NEW offset, OneAnswer(docs, ans, source, offset)
    PROVE  \E a \in GoodAnswers(docs) :
              AnsweredIn(ans, source, offset) = {a} /\ TheOnly(AnsweredIn(ans, source, offset)) = a
<1>1. PICK a \in GoodAnswers(docs), x \in DOMAIN ans :
          Asked(ans, source, offset) = {x} /\ ans[x].answer = a
  BY DEF OneAnswer
<1>2. AnsweredIn(ans, source, offset) = {a}
  BY <1>1 DEF AnsweredIn
<1>3. TheOnly({a}) = a
  BY DEF TheOnly
<1> QED
  BY <1>2, <1>3

LEMMA EdgeOfType ==
    ASSUME NEW docs, AreDocuments(docs), NEW i \in DOMAIN docs, NEW r \in Relationships,
           NEW a, ~r.local => a \in GoodAnswers(docs)
    PROVE  EdgeOf(docs, docs[i].key, r, a) \in Seq(From(EdgeSet(docs), docs[i].key))
<1> DEFINE key == docs[i].key
<1>1. key \in KnownIn(docs) /\ r.to \in Names
  BY RelIs DEF Relationships
<1>2. ASSUME NEW t \in KnownIn(docs), NEW f \in Names \cup Fragments \cup {NoFragment}
      PROVE  <<EdgeTo(docs, key, r, t, f)>> \in Seq(From(EdgeSet(docs), key))
  <2>1. EdgeTo(docs, key, r, t, f) \in EdgeSet(docs)
    BY <1>1, <1>2 DEF EdgeSet
  <2>2. EdgeTo(docs, key, r, t, f).source = key
    BY DEF EdgeTo
  <2>3. EdgeTo(docs, key, r, t, f) \in From(EdgeSet(docs), key)
    BY <2>1, <2>2 DEF From
  <2> QED
    BY <2>3
<1>3. CASE r.local
  BY <1>1, <1>2, <1>3 DEF EdgeOf
<1>4. CASE ~r.local /\ a.kind # "resolved"
  BY <1>4 DEF EdgeOf
<1>5. CASE ~r.local /\ a.kind = "resolved"
  <2>1. a.target \in KnownIn(docs) /\ a.fragment \in Fragments \cup {NoFragment}
    BY <1>5 DEF GoodAnswers, Answers, Answer
  <2> QED
    BY <1>2, <1>5, <2>1 DEF EdgeOf
<1> QED
  BY <1>3, <1>4, <1>5

LEMMA EdgeInType ==
    ASSUME NEW docs, AreDocuments(docs), NEW ans, NEW past, NEW next,
           IsAsked(docs, ans, past, next), NEW i \in DOMAIN docs, NEW j \in DOMAIN Rel(docs, i),
           Done(i, j, past, next)
    PROVE  EdgeIn(docs, ans, i, j) \in Seq(From(EdgeSet(docs), docs[i].key))
<1> DEFINE r == Rel(docs, i)[j]
           a == TheOnly(AnsweredIn(ans, docs[i].key, j))
<1>1. r \in Relationships
  BY RelIs
<1>2. ~r.local => a \in GoodAnswers(docs)
  BY OnlyAnswer DEF IsAsked
<1>3. EdgeIn(docs, ans, i, j) = EdgeOf(docs, docs[i].key, r, a)
  BY DEF EdgeIn
<1> HIDE DEF r, a
<1> QED
  BY <1>1, <1>2, <1>3, EdgeOfType

LEMMA FlattenNext ==
    ASSUME NEW V, NEW n \in Nat, NEW t \in [1..(n + 1) -> Seq(V)],
           NEW s, s = [j \in 1..n |-> t[j]]
    PROVE  /\ FlattenSeq(t) = FlattenSeq(s) \o t[n + 1]
           /\ FlattenSeq(s) \in Seq(V) /\ FlattenSeq(t) \in Seq(V)
<1>1. n + 1 \in 1..(n + 1) /\ \A j \in 1..n : j \in 1..(n + 1)
  OBVIOUS
<1>2. t[n + 1] \in Seq(V) /\ s \in [1..n -> Seq(V)]
  BY <1>1
<1>3. s \in Seq(Seq(V)) /\ Len(s) = n
  BY <1>2
<1>4. Append(s, t[n + 1]) = [e \in 1..(n + 1) |-> IF e = n + 1 THEN t[n + 1] ELSE s[e]]
  BY <1>2, <1>3, AppendIs
<1>5. \A e \in 1..(n + 1) : t[e] = IF e = n + 1 THEN t[n + 1] ELSE s[e]
  <2>1. \A e \in 1..(n + 1) : e = n + 1 \/ e \in 1..n
    OBVIOUS
  <2> QED
    BY <2>1
<1>6. t = [e \in 1..(n + 1) |-> IF e = n + 1 THEN t[n + 1] ELSE s[e]]
  <2>1. t = [e \in 1..(n + 1) |-> t[e]]
    OBVIOUS
  <2> QED
    BY <1>5, <2>1
<1>7. t = Append(s, t[n + 1])
  BY <1>4, <1>6, Zenon
<1>8. FlattenSeq(Append(s, t[n + 1])) = FlattenSeq(s) \o t[n + 1]
  BY <1>2, <1>3, FlattenAppend
<1>9. FlattenSeq(s) \in Seq(V) /\ t \in Seq(Seq(V))
  <2>1. n + 1 \in Nat
    OBVIOUS
  <2> DEFINE m == n + 1
             W == Seq(V)
  <2>2. t \in [1..m -> W] /\ m \in Nat
    BY <2>1
  <2> HIDE DEF m, W
  <2>3. t \in Seq(W)
    BY <2>2
  <2> QED
    BY <1>3, <2>3, FlattenType DEF W
<1>10. FlattenSeq(t) \in Seq(V)
  BY <1>9, FlattenType
<1> QED
  BY <1>7, <1>8, <1>9, <1>10, Zenon

(***************************************************************************)
(* One more relationship, one more document.                               *)
(***************************************************************************)
EdgesFrom(docs, n) == {e \in EdgeSet(docs) : e.source \in {docs[i].key : i \in 1..n}}

LEMMA OwnType ==
    ASSUME NEW docs, AreDocuments(docs), NEW ans, NEW past, NEW next,
           IsAsked(docs, ans, past, next), NEW i \in DOMAIN docs,
           NEW n \in 0..Len(Rel(docs, i)), \A j \in 1..n : Done(i, j, past, next)
    PROVE  OwnIn(docs, ans, i, n) \in Seq(From(EdgeSet(docs), docs[i].key))
<1> DEFINE V == From(EdgeSet(docs), docs[i].key)
           W == Seq(V)
           s == [j \in 1..n |-> EdgeIn(docs, ans, i, j)]
<1>1. n \in Nat /\ \A j \in 1..n : j \in DOMAIN Rel(docs, i)
  BY RelIs
<1>2. \A j \in 1..n : EdgeIn(docs, ans, i, j) \in W
  BY <1>1, EdgeInType
<1>3. s \in Seq(W)
  <2> HIDE DEF W
  <2> QED
    BY <1>1, <1>2
<1> HIDE DEF s, V
<1>4. FlattenSeq(s) \in Seq(V)
  BY <1>3, FlattenType
<1> QED
  BY <1>4 DEF OwnIn, s, V

LEMMA OwnNext ==
    ASSUME NEW docs, AreDocuments(docs), NEW ans, NEW past, NEW next,
           IsAsked(docs, ans, past, next), NEW i \in DOMAIN docs,
           NEW n \in Nat, n + 1 \in DOMAIN Rel(docs, i),
           \A j \in 1..(n + 1) : Done(i, j, past, next)
    PROVE  OwnIn(docs, ans, i, n + 1) = OwnIn(docs, ans, i, n) \o EdgeIn(docs, ans, i, n + 1)
<1> DEFINE V == From(EdgeSet(docs), docs[i].key)
           t == [j \in 1..(n + 1) |-> EdgeIn(docs, ans, i, j)]
           s == [j \in 1..n |-> EdgeIn(docs, ans, i, j)]
<1>1. \A j \in 1..(n + 1) : j \in DOMAIN Rel(docs, i)
  BY RelIs
<1>2. t \in [1..(n + 1) -> Seq(V)]
  BY <1>1, EdgeInType
<1>3. s = [j \in 1..n |-> t[j]] /\ t[n + 1] = EdgeIn(docs, ans, i, n + 1)
  OBVIOUS
<1> HIDE DEF s, t, V
<1>4. FlattenSeq(t) = FlattenSeq(s) \o t[n + 1]
  BY <1>2, <1>3, FlattenNext
<1> QED
  BY <1>3, <1>4, Zenon DEF OwnIn, s, t

LEMMA PastNext ==
    ASSUME NEW docs, AreDocuments(docs), NEW ans, NEW past, NEW next,
           IsAsked(docs, ans, past, next),
           NEW n \in Nat, n + 1 \in DOMAIN docs, past \in Nat, n + 1 <= past
    PROVE  /\ PastIn(docs, ans, n + 1)
                = PastIn(docs, ans, n) \o OwnIn(docs, ans, n + 1, Len(Rel(docs, n + 1)))
           /\ OwnIn(docs, ans, n + 1, Len(Rel(docs, n + 1)))
                \in Seq(From(EdgeSet(docs), docs[n + 1].key))
           /\ PastIn(docs, ans, n + 1) \in Seq(EdgesFrom(docs, n + 1))
<1> DEFINE m == n + 1
           V == EdgesFrom(docs, m)
           own(i) == OwnIn(docs, ans, i, Len(Rel(docs, i)))
           t == [i \in 1..m |-> own(i)]
           s == [i \in 1..n |-> own(i)]
<1>1. m \in Nat /\ \A i \in 1..m : i \in DOMAIN docs /\ i <= past
  <2>1. docs \in Seq(Snapshots)
    BY DEF AreDocuments
  <2> QED
    BY <2>1
<1>2. ASSUME NEW i \in 1..m
      PROVE  own(i) \in Seq(From(EdgeSet(docs), docs[i].key)) /\ own(i) \in Seq(V)
  <2>1. i \in DOMAIN docs /\ \A j \in 1..Len(Rel(docs, i)) : Done(i, j, past, next)
    BY <1>1 DEF Done
  <2>2. Len(Rel(docs, i)) \in 0..Len(Rel(docs, i))
    BY <2>1, RelIs
  <2>3. own(i) \in Seq(From(EdgeSet(docs), docs[i].key))
    BY <2>1, <2>2, OwnType
  <2>4. From(EdgeSet(docs), docs[i].key) \subseteq V
    BY DEF From, EdgesFrom
  <2> DEFINE F == From(EdgeSet(docs), docs[i].key)
             o == own(i)
  <2>5. o \in Seq(F) /\ F \subseteq V
    BY <2>3, <2>4
  <2> HIDE DEF o, F, V
  <2>6. o \in Seq(V)
    BY <2>5
  <2> QED
    BY <2>3, <2>6 DEF o
<1>3. own(m) \in Seq(From(EdgeSet(docs), docs[m].key))
  BY <1>1, <1>2
<1>4. t \in [1..m -> Seq(V)]
  BY <1>2
<1>5. s = [i \in 1..n |-> t[i]] /\ t[m] = own(m)
  BY <1>1
<1> HIDE DEF s, t, V, own
<1>6. FlattenSeq(t) = FlattenSeq(s) \o t[m] /\ FlattenSeq(t) \in Seq(V)
  BY <1>4, <1>5, FlattenNext
<1>7. PastIn(docs, ans, m) = FlattenSeq(t) /\ PastIn(docs, ans, n) = FlattenSeq(s)
  BY DEF PastIn, s, t, own
<1> QED
  BY <1>3, <1>5, <1>6, <1>7, Zenon DEF V, own

LEMMA PastType ==
    ASSUME NEW docs, AreDocuments(docs), NEW ans, NEW past \in 0..Len(docs), NEW next,
           IsAsked(docs, ans, past, next)
    PROVE  /\ PastIn(docs, ans, past) \in Seq(EdgesFrom(docs, past))
           /\ PastIn(docs, ans, past) \in Seq(EdgeSet(docs))
           /\ \A k \in 1..Len(PastIn(docs, ans, past)) :
                 PastIn(docs, ans, past)[k].source \in {docs[i].key : i \in 1..past}
<1>1. docs \in Seq(Snapshots) /\ past \in Nat
  BY DEF AreDocuments
<1> DEFINE s == PastIn(docs, ans, past)
<1>2. s \in Seq(EdgesFrom(docs, past))
  <2>1. CASE past = 0
    <3>1. [i \in 1..0 |-> OwnIn(docs, ans, i, Len(Rel(docs, i)))] = << >>
      OBVIOUS
    <3>2. PastIn(docs, ans, 0) = FlattenSeq(<< >>)
      BY <3>1 DEF PastIn
    <3>3. s = << >>
      BY <2>1, <3>2, FlattenNone, Zenon
    <3> QED
      BY <3>3
  <2>2. CASE past # 0
    <3> DEFINE n == past - 1
    <3>1. n \in Nat /\ n + 1 = past /\ n + 1 \in DOMAIN docs /\ n + 1 <= past
      BY <1>1, <2>2
    <3> HIDE DEF n, s
    <3>2. PastIn(docs, ans, n + 1) \in Seq(EdgesFrom(docs, n + 1))
      BY <1>1, <3>1, PastNext
    <3> QED
      BY <3>1, <3>2 DEF s
  <2> QED
    BY <2>1, <2>2
<1>3. \A e \in EdgesFrom(docs, past) :
        e \in EdgeSet(docs) /\ e.source \in {docs[i].key : i \in 1..past}
  BY DEF EdgesFrom
<1> HIDE DEF s
<1> QED
  BY <1>2, <1>3 DEF s

-----------------------------------------------------------------------------
(***************************************************************************)
(* An answer about the next relationship changes nothing about the others. *)
(***************************************************************************)
Answered == [source : Keys, offset : Nat, answer : Answers]

Recorded(more, ans, source, offset, a) ==
    more = Append(ans, [source |-> source, offset |-> offset, answer |-> a])

Learned(more, ans, source, offset, a) ==
    /\ \A s, o : s # source \/ o # offset =>
          /\ Asked(more, s, o) = Asked(ans, s, o)
          /\ AnsweredIn(more, s, o) = AnsweredIn(ans, s, o)
    /\ \A k \in DOMAIN ans : k \in DOMAIN more /\ more[k] = ans[k]
    /\ Asked(ans, source, offset) = {} =>
          /\ Asked(more, source, offset) = {Len(ans) + 1}
          /\ AnsweredIn(more, source, offset) = {a}
          /\ Len(ans) + 1 \in DOMAIN more /\ more[Len(ans) + 1].answer = a

LEMMA RecordIs ==
    ASSUME NEW ans \in Seq(Answered), NEW source \in Keys, NEW offset \in Nat, NEW a \in Answers,
           NEW more, Recorded(more, ans, source, offset, a)
    PROVE  more \in Seq(Answered) /\ Learned(more, ans, source, offset, a)
<1> DEFINE rec == [source |-> source, offset |-> offset, answer |-> a]
<1>0. rec \in Answered /\ more = Append(ans, rec)
  BY DEF Answered, Recorded
<1> DEFINE n == Len(ans)
<1>1. /\ n \in Nat /\ DOMAIN ans = 1..n /\ DOMAIN more = 1..(n + 1)
      /\ more[n + 1] = rec /\ \A k \in 1..n : more[k] = ans[k]
  <2> HIDE DEF rec
  <2> QED
    BY <1>0
<1>2. rec.source = source /\ rec.offset = offset /\ rec.answer = a
  OBVIOUS
<1> HIDE DEF n, rec
<1>3. \A k \in 1..(n + 1) : k \in 1..n \/ k = n + 1
  BY <1>1
<1>4. \A k \in 1..n : k \in 1..(n + 1)
  BY <1>1
<1>5. n + 1 \in 1..(n + 1)
  BY <1>1
<1>6. ASSUME NEW s, NEW o, s # source \/ o # offset
      PROVE  Asked(more, s, o) = Asked(ans, s, o)
  BY <1>1, <1>2, <1>3, <1>4, <1>6 DEF Asked
<1>7. ASSUME NEW s, NEW o, s # source \/ o # offset
      PROVE  AnsweredIn(more, s, o) = AnsweredIn(ans, s, o)
  <2>1. Asked(more, s, o) = Asked(ans, s, o)
    BY <1>6, <1>7
  <2>2. \A k \in Asked(ans, s, o) : more[k] = ans[k]
    BY <1>1 DEF Asked
  <2> QED
    BY <2>1, <2>2 DEF AnsweredIn
<1>8. ASSUME Asked(ans, source, offset) = {}
      PROVE  /\ Asked(more, source, offset) = {n + 1}
             /\ AnsweredIn(more, source, offset) = {a}
  <2>1. Asked(more, source, offset) = {n + 1}
    BY <1>1, <1>2, <1>3, <1>4, <1>5, <1>8 DEF Asked
  <2> QED
    BY <1>1, <1>2, <2>1 DEF AnsweredIn
<1>9. Learned(more, ans, source, offset, a)
  BY <1>1, <1>2, <1>4, <1>5, <1>6, <1>7, <1>8 DEF n, Learned
<1>10. more \in Seq(Answered)
  BY <1>0
<1> QED
  BY <1>9, <1>10

(***************************************************************************)
(* What follows from the answers of done relationships stays as it is.     *)
(***************************************************************************)
SameAnswers(docs, ans, more, past, next) ==
    \A i \in DOMAIN docs : \A j \in DOMAIN Rel(docs, i) :
        Done(i, j, past, next) =>
            AnsweredIn(more, docs[i].key, j) = AnsweredIn(ans, docs[i].key, j)

LEMMA SameEdges ==
    ASSUME NEW docs, AreDocuments(docs), NEW ans, NEW more, NEW past \in Nat, NEW next \in Nat,
           SameAnswers(docs, ans, more, past, next)
    PROVE  /\ past <= Len(docs) => PastIn(docs, more, past) = PastIn(docs, ans, past)
           /\ \A n \in Nat : n < next /\ past + 1 \in DOMAIN docs
                                      /\ n <= Len(Rel(docs, past + 1)) =>
                OwnIn(docs, more, past + 1, n) = OwnIn(docs, ans, past + 1, n)
<1>1. docs \in Seq(Snapshots) /\ DOMAIN docs = 1..Len(docs) /\ Len(docs) \in Nat
  BY DEF AreDocuments
<1>2. ASSUME NEW i \in DOMAIN docs, NEW j \in DOMAIN Rel(docs, i), Done(i, j, past, next)
      PROVE  EdgeIn(docs, more, i, j) = EdgeIn(docs, ans, i, j)
  <2>1. AnsweredIn(more, docs[i].key, j) = AnsweredIn(ans, docs[i].key, j)
    BY <1>2 DEF SameAnswers
  <2> QED
    BY <2>1, Zenon DEF EdgeIn
<1>3. ASSUME NEW i \in DOMAIN docs, NEW n \in Nat, n <= Len(Rel(docs, i)),
             \A j \in 1..n : Done(i, j, past, next)
      PROVE  OwnIn(docs, more, i, n) = OwnIn(docs, ans, i, n)
  <2>1. \A j \in 1..n : j \in DOMAIN Rel(docs, i)
    BY <1>3, RelIs
  <2>2. \A j \in 1..n : EdgeIn(docs, more, i, j) = EdgeIn(docs, ans, i, j)
    BY <1>2, <1>3, <2>1
  <2>3. [j \in 1..n |-> EdgeIn(docs, more, i, j)] = [j \in 1..n |-> EdgeIn(docs, ans, i, j)]
    BY <2>2
  <2> QED
    BY <2>3, Zenon DEF OwnIn
<1>4. ASSUME past <= Len(docs)
      PROVE  PastIn(docs, more, past) = PastIn(docs, ans, past)
  <2>1. ASSUME NEW i \in 1..past
        PROVE  OwnIn(docs, more, i, Len(Rel(docs, i))) = OwnIn(docs, ans, i, Len(Rel(docs, i)))
    <3>1. i \in DOMAIN docs /\ \A j : Done(i, j, past, next)
      BY <1>1, <1>4 DEF Done
    <3>2. Len(Rel(docs, i)) \in Nat /\ Len(Rel(docs, i)) <= Len(Rel(docs, i))
      BY <3>1, RelIs
    <3> QED
      BY <1>3, <3>1, <3>2
  <2>2. [i \in 1..past |-> OwnIn(docs, more, i, Len(Rel(docs, i)))]
          = [i \in 1..past |-> OwnIn(docs, ans, i, Len(Rel(docs, i)))]
    BY <2>1
  <2> QED
    BY <2>2, Zenon DEF PastIn
<1>5. ASSUME NEW n \in Nat, n < next, past + 1 \in DOMAIN docs, n <= Len(Rel(docs, past + 1))
      PROVE  OwnIn(docs, more, past + 1, n) = OwnIn(docs, ans, past + 1, n)
  <2>1. \A j \in 1..n : Done(past + 1, j, past, next)
    BY <1>5 DEF Done
  <2> QED
    BY <1>3, <1>5, <2>1
<1> QED
  BY <1>4, <1>5

(***************************************************************************)
(* The next relationship is answered, or local; the next document is done. *)
(***************************************************************************)
AnswerTaken(docs, ans, more, past, c, next, a) ==
    /\ more \in Seq(Answered) /\ IsAsked(docs, more, past, next + 1)
    /\ SameAnswers(docs, ans, more, past, next)
    /\ AnsweredIn(more, docs[c].key, next) = {a}
    /\ \A j : j # next => AnsweredIn(more, docs[c].key, j)
                            = AnsweredIn(ans, docs[c].key, j)
    /\ EdgeIn(docs, more, c, next)
         = EdgeOf(docs, docs[c].key, Rel(docs, c)[next], a)

LEMMA AnswerKept ==
    ASSUME NEW docs, AreDocuments(docs), NEW ans \in Seq(Answered),
           NEW past \in Nat, NEW c, c = past + 1, NEW next \in Nat, IsAsked(docs, ans, past, next),
           c \in DOMAIN docs, next \in DOMAIN Rel(docs, c),
           ~Rel(docs, c)[next].local, NEW a \in GoodAnswers(docs),
           NEW more, Recorded(more, ans, docs[c].key, next, a)
    PROVE  AnswerTaken(docs, ans, more, past, c, next, a)
<1> DEFINE key == docs[c].key
           n == Len(ans)
<1>1. /\ docs \in Seq(Snapshots) /\ c \in DOMAIN docs
      /\ \A i, j \in DOMAIN docs : docs[i].key = docs[j].key => i = j
  BY DEF AreDocuments
<1>2. key \in Keys
  <2>1. docs[c] \in Snapshots
    BY <1>1
  <2> QED
    BY <2>1 DEF Snapshots
<1>3. a \in Answers
  BY DEF GoodAnswers
<1>4. more \in Seq(Answered) /\ Learned(more, ans, key, next, a)
  BY <1>2, <1>3, RecordIs
<1>5. ~Done(c, next, past, next)
  BY DEF Done
<1>6. Asked(ans, key, next) = {}
  <2>1. IF Done(c, next, past, next) /\ ~Rel(docs, c)[next].local
        THEN OneAnswer(docs, ans, key, next) ELSE Asked(ans, key, next) = {}
    BY <1>1 DEF IsAsked
  <2> QED
    BY <1>5, <2>1
<1> HIDE DEF n, key
<1>7. /\ \A s, o : s # key \/ o # next =>
            /\ Asked(more, s, o) = Asked(ans, s, o)
            /\ AnsweredIn(more, s, o) = AnsweredIn(ans, s, o)
      /\ \A k \in DOMAIN ans : k \in DOMAIN more /\ more[k] = ans[k]
      /\ Asked(more, key, next) = {n + 1} /\ AnsweredIn(more, key, next) = {a}
      /\ n + 1 \in DOMAIN more /\ more[n + 1].answer = a
  BY <1>4, <1>6 DEF Learned, n
<1>8. ASSUME NEW i \in DOMAIN docs, NEW j \in DOMAIN Rel(docs, i), i # c \/ j # next
      PROVE  docs[i].key # key \/ j # next
  BY <1>1, <1>8 DEF key
<1>9. SameAnswers(docs, ans, more, past, next)
  <2> SUFFICES ASSUME NEW i \in DOMAIN docs, NEW j \in DOMAIN Rel(docs, i),
                      Done(i, j, past, next)
               PROVE  AnsweredIn(more, docs[i].key, j) = AnsweredIn(ans, docs[i].key, j)
    BY DEF SameAnswers
  <2>1. i # c \/ j # next
    BY <1>5
  <2> QED
    BY <1>7, <1>8, <2>1
<1>10. ASSUME NEW i \in DOMAIN docs, NEW j \in DOMAIN Rel(docs, i)
       PROVE  IF Done(i, j, past, next + 1) /\ ~Rel(docs, i)[j].local
              THEN OneAnswer(docs, more, docs[i].key, j)
              ELSE Asked(more, docs[i].key, j) = {}
  <2>1. CASE i = c /\ j = next
    <3>1. OneAnswer(docs, more, key, next)
      BY <1>7 DEF OneAnswer
    <3>2. Done(c, next, past, next + 1)
      BY DEF Done
    <3> QED
      BY <2>1, <3>1, <3>2 DEF key
  <2>2. CASE i # c \/ j # next
    <3>1. Asked(more, docs[i].key, j) = Asked(ans, docs[i].key, j)
      BY <1>7, <1>8, <2>2
    <3>2. OneAnswer(docs, ans, docs[i].key, j) => OneAnswer(docs, more, docs[i].key, j)
      <4> SUFFICES ASSUME NEW b \in GoodAnswers(docs), NEW x \in DOMAIN ans,
                          Asked(ans, docs[i].key, j) = {x}, ans[x].answer = b
                   PROVE  OneAnswer(docs, more, docs[i].key, j)
        BY DEF OneAnswer
      <4>1. x \in DOMAIN more /\ more[x].answer = b
        BY <1>7
      <4> QED
        BY <3>1, <4>1 DEF OneAnswer
    <3>3. Done(i, j, past, next + 1) <=> Done(i, j, past, next)
      <4>1. j \in Nat
        BY RelIs
      <4> QED
        BY <2>2, <4>1 DEF Done
    <3>4. IF Done(i, j, past, next) /\ ~Rel(docs, i)[j].local
          THEN OneAnswer(docs, ans, docs[i].key, j) ELSE Asked(ans, docs[i].key, j) = {}
      BY DEF IsAsked
    <3> QED
      BY <3>1, <3>2, <3>3, <3>4
  <2> QED
    BY <2>1, <2>2
<1>11. IsAsked(docs, more, past, next + 1)
  BY <1>10 DEF IsAsked
<1>12. TheOnly({a}) = a
  BY DEF TheOnly
<1>13. EdgeIn(docs, more, c, next) = EdgeOf(docs, key, Rel(docs, c)[next], a)
  BY <1>7, <1>12, Zenon DEF EdgeIn, key
<1> QED
  BY <1>4, <1>7, <1>9, <1>11, <1>13 DEF key, AnswerTaken

LEMMA LocalPassed ==
    ASSUME NEW docs, AreDocuments(docs), NEW ans, NEW past \in Nat, NEW next \in Nat,
           IsAsked(docs, ans, past, next),
           past + 1 \in DOMAIN docs, next \in DOMAIN Rel(docs, past + 1),
           Rel(docs, past + 1)[next].local
    PROVE  IsAsked(docs, ans, past, next + 1)
<1> SUFFICES ASSUME NEW i \in DOMAIN docs, NEW j \in DOMAIN Rel(docs, i)
             PROVE  IF Done(i, j, past, next + 1) /\ ~Rel(docs, i)[j].local
                    THEN OneAnswer(docs, ans, docs[i].key, j)
                    ELSE Asked(ans, docs[i].key, j) = {}
  BY DEF IsAsked
<1>1. j \in Nat
  BY RelIs
<1>2. (i = past + 1 /\ j = next) \/ (Done(i, j, past, next + 1) <=> Done(i, j, past, next))
  BY <1>1 DEF Done
<1>3. IF Done(i, j, past, next) /\ ~Rel(docs, i)[j].local
      THEN OneAnswer(docs, ans, docs[i].key, j) ELSE Asked(ans, docs[i].key, j) = {}
  BY DEF IsAsked
<1>4. ~Done(past + 1, next, past, next)
  BY DEF Done
<1> QED
  BY <1>2, <1>3, <1>4

LEMMA DocumentPassed ==
    ASSUME NEW docs, AreDocuments(docs), NEW ans, NEW past \in Nat,
           past + 1 \in DOMAIN docs, IsAsked(docs, ans, past, Len(Rel(docs, past + 1)) + 1)
    PROVE  IsAsked(docs, ans, past + 1, 1)
<1> SUFFICES ASSUME NEW i \in DOMAIN docs, NEW j \in DOMAIN Rel(docs, i)
             PROVE  IF Done(i, j, past + 1, 1) /\ ~Rel(docs, i)[j].local
                    THEN OneAnswer(docs, ans, docs[i].key, j)
                    ELSE Asked(ans, docs[i].key, j) = {}
  BY DEF IsAsked
<1> DEFINE n == Len(Rel(docs, past + 1))
<1>1. j \in 1..Len(Rel(docs, i)) /\ n \in Nat /\ Len(Rel(docs, i)) \in Nat
  BY RelIs
<1>2. i \in Nat
  BY DEF AreDocuments
<1>3. i = past + 1 => j <= n
  BY <1>1
<1>4. IF Done(i, j, past, n + 1) /\ ~Rel(docs, i)[j].local
      THEN OneAnswer(docs, ans, docs[i].key, j) ELSE Asked(ans, docs[i].key, j) = {}
  BY DEF IsAsked
<1> HIDE DEF n
<1>5. Done(i, j, past + 1, 1) <=> Done(i, j, past, n + 1)
  <2>1. j \in Nat /\ j >= 1
    BY <1>1
  <2> QED
    BY <1>1, <1>2, <1>3, <2>1 DEF Done
<1> QED
  BY <1>4, <1>5

-----------------------------------------------------------------------------
(***************************************************************************)
(* The graph after some documents are past and, of the edges of the next   *)
(* one, own have been added.                                               *)
(***************************************************************************)
KeysOf(docs) == [i \in DOMAIN docs |-> docs[i].key]

Closed(docs, past) == {docs[i].key : i \in 1..past}

IsGraphOf(docs, ans, g, past, own) ==
    /\ g \in Graphs(KnownIn(docs), EdgeSet(docs)) /\ g.keys = KeysOf(docs)
    /\ BacklinksExact(g, KnownIn(docs), EdgeSet(docs))
    /\ OutgoingExact(g.outgoing, PastIn(docs, ans, past), Closed(docs, past),
                     KnownIn(docs), EdgeSet(docs))
    /\ Joined(g.edges, PastIn(docs, ans, past), own)

LEMMA EdgeSetIs ==
    ASSUME NEW docs
    PROVE  AreEdges(EdgeSet(docs), KnownIn(docs))
<1> SUFFICES ASSUME NEW s \in KnownIn(docs), NEW r \in Relationships, NEW t \in KnownIn(docs),
                    NEW f
             PROVE  EdgeTo(docs, s, r, t, f).source = s /\ EdgeTo(docs, s, r, t, f).target = t
  BY DEF AreEdges, EdgeSet
<1> QED
  BY DEF EdgeTo

LEMMA KeysOfIs ==
    ASSUME NEW docs, AreDocuments(docs)
    PROVE  /\ KeysOf(docs) \in Seq(KnownIn(docs)) /\ Members(KeysOf(docs)) = KnownIn(docs)
           /\ Len(KeysOf(docs)) = Len(docs) /\ Len(docs) \in Nat /\ DOMAIN docs = 1..Len(docs)
           /\ IsFiniteSet(KnownIn(docs)) /\ KnownIn(docs) \subseteq Keys
           /\ Cardinality(KnownIn(docs)) = Len(docs)
<1>1. /\ docs \in Seq(Snapshots) /\ Len(docs) \in Nat /\ DOMAIN docs = 1..Len(docs)
      /\ \A i, j \in DOMAIN docs : docs[i].key = docs[j].key => i = j
  BY DEF AreDocuments
<1> DEFINE n == Len(docs)
           keys == KeysOf(docs)
<1>2. keys = [i \in 1..n |-> docs[i].key]
  BY <1>1 DEF KeysOf
<1>3. \A i \in 1..n : docs[i].key \in KnownIn(docs)
  BY <1>1 DEF KnownIn
<1> HIDE DEF keys
<1>4. keys \in Seq(KnownIn(docs)) /\ DOMAIN keys = 1..n /\ Len(keys) = n
  <2> HIDE DEF n
  <2>1. n \in Nat
    BY <1>1 DEF n
  <2> QED
    BY <1>2, <1>3, <2>1
<1>5. Members(keys) = KnownIn(docs)
  BY <1>1, <1>2, <1>4 DEF Members, KnownIn
<1>6. FirstValues(keys, n) = KnownIn(docs)
  BY <1>4, <1>5 DEF FirstValues, Members
<1>7. \A i, j \in 1..n : keys[i] = keys[j] => i = j
  BY <1>1, <1>2
<1>8. IsFiniteSet(KnownIn(docs)) /\ Cardinality(KnownIn(docs)) = n
  <2> HIDE DEF n
  <2>1. n \in Nat
    BY <1>1 DEF n
  <2> QED
    BY <1>6, <1>7, <2>1, DistinctValues
<1>9. KnownIn(docs) \subseteq Keys
  <2>1. \A i \in 1..n : docs[i] \in Snapshots
    BY <1>1
  <2> QED
    BY <1>1, <2>1 DEF KnownIn, Snapshots
<1> QED
  BY <1>1, <1>4, <1>5, <1>8, <1>9 DEF keys

LEMMA GraphStarts ==
    ASSUME NEW docs, AreDocuments(docs), NEW ans, NEW g, g = newDocumentGraph(KeysOf(docs))
    PROVE  IsGraphOf(docs, ans, g, 0, << >>)
<1> DEFINE K == KnownIn(docs)
           E == EdgeSet(docs)
           P == PastIn(docs, ans, 0)
<1>1. P = << >>
  <2>1. [i \in 1..0 |-> OwnIn(docs, ans, i, Len(Rel(docs, i)))] = << >>
    OBVIOUS
  <2>2. PastIn(docs, ans, 0) = FlattenSeq(<< >>)
    BY <2>1 DEF PastIn
  <2> QED
    BY <2>2, FlattenNone, Zenon
<1>2. KeysOf(docs) \in Seq(K) /\ Members(KeysOf(docs)) = K
  BY KeysOfIs
<1>3. g = [keys |-> KeysOf(docs), edges |-> << >>, outgoing |-> [k \in K |-> NoEdges],
           backlinks |-> [k \in K |-> << >>]]
  BY <1>2 DEF newDocumentGraph
<1>4. /\ g.keys = KeysOf(docs) /\ g.edges = << >> /\ g.outgoing = [k \in K |-> NoEdges]
      /\ g.backlinks = [k \in K |-> << >>]
  BY <1>3
<1>5. g \in Graphs(K, E)
  <2>1. [k \in K |-> NoEdges] \in [K -> [start : Nat, end : Nat]]
    BY DEF NoEdges
  <2>2. [k \in K |-> << >>] \in [K -> Seq(Nat)]
    <3> DEFINE nil == << >>
    <3>1. nil \in Seq(Nat)
      OBVIOUS
    <3> HIDE DEF nil
    <3>2. [k \in K |-> nil] \in [K -> Seq(Nat)]
      BY <3>1
    <3> QED
      BY <3>2 DEF nil
  <2>3. << >> \in Seq(E)
    OBVIOUS
  <2> HIDE DEF K, E
  <2> QED
    BY <1>2, <1>3, <2>1, <2>2, <2>3 DEF Graphs
<1>6. BacklinksExact(g, K, E)
  <2> SUFFICES ASSUME NEW k \in K
               PROVE  /\ \A i \in DOMAIN g.backlinks[k] : g.backlinks[k][i] \in 1..Len(g.edges)
                      /\ Backlinks(g, k) = Kept(g.edges, To(E, k))
    BY DEF BacklinksExact
  <2>1. g.backlinks[k] = << >>
    BY <1>4
  <2>2. Backlinks(g, k) = << >>
    BY <2>1 DEF Backlinks
  <2>3. Kept(g.edges, To(E, k)) = << >>
    BY <1>4, KeptNone
  <2> QED
    BY <2>1, <2>2, <2>3
<1>7. OutgoingExact(g.outgoing, P, Closed(docs, 0), K, E)
  <2>1. \A k \in K : k \notin Closed(docs, 0) /\ g.outgoing[k] = NoEdges
    BY <1>4 DEF Closed
  <2> QED
    BY <2>1, Zenon DEF OutgoingExact
<1>8. Joined(g.edges, P, << >>)
  BY <1>1, <1>4 DEF Joined
<1> QED
  BY <1>4, <1>5, <1>6, <1>7, <1>8 DEF IsGraphOf

LEMMA GraphAdds ==
    ASSUME NEW docs, NEW ans, NEW g, NEW past, NEW own \in Seq(EdgeSet(docs)),
           PastIn(docs, ans, past) \in Seq(EdgeSet(docs)),
           IsGraphOf(docs, ans, g, past, own),
           NEW e \in EdgeSet(docs), NEW f, f = addEdge(g, e), NEW y, Appended(y, own, e)
    PROVE  IsGraphOf(docs, ans, f, past, y)
<1> DEFINE K == KnownIn(docs)
           E == EdgeSet(docs)
           P == PastIn(docs, ans, past)
<1>1. /\ g \in Graphs(K, E) /\ g.keys = KeysOf(docs) /\ BacklinksExact(g, K, E)
      /\ OutgoingExact(g.outgoing, P, Closed(docs, past), K, E) /\ Joined(g.edges, P, own)
  BY DEF IsGraphOf
<1>2. AreEdges(E, K)
  BY EdgeSetIs
<1>3. P \in Seq(E) /\ own \in Seq(E) /\ e \in E
  OBVIOUS
<1> HIDE DEF K, E, P
<1>4. /\ f \in Graphs(K, E) /\ BacklinksExact(f, K, E) /\ f.edges = Append(g.edges, e)
      /\ f.keys = g.keys /\ f.outgoing = g.outgoing
  BY <1>1, <1>2, <1>3, AddEdgeIs
<1>5. Appended(f.edges, g.edges, e)
  BY <1>4 DEF Appended
<1>6. Joined(f.edges, P, y)
  BY <1>1, <1>3, <1>5, AppendedIsJoined
<1> QED
  BY <1>1, <1>4, <1>6 DEF IsGraphOf, K, E, P

LEMMA GraphAddsAll ==
    ASSUME NEW docs, NEW ans, NEW g, NEW past, NEW own \in Seq(EdgeSet(docs)),
           PastIn(docs, ans, past) \in Seq(EdgeSet(docs)),
           IsGraphOf(docs, ans, g, past, << >>), NEW f, f = addEdges(g, own)
    PROVE  IsGraphOf(docs, ans, f, past, own)
<1> DEFINE K == KnownIn(docs)
           E == EdgeSet(docs)
           P == PastIn(docs, ans, past)
<1>1. /\ g \in Graphs(K, E) /\ g.keys = KeysOf(docs) /\ BacklinksExact(g, K, E)
      /\ OutgoingExact(g.outgoing, P, Closed(docs, past), K, E) /\ Joined(g.edges, P, << >>)
  BY DEF IsGraphOf
<1>2. AreEdges(E, K)
  BY EdgeSetIs
<1>3. P \in Seq(E) /\ own \in Seq(E)
  OBVIOUS
<1> HIDE DEF K, E, P
<1>4. /\ f \in Graphs(K, E) /\ BacklinksExact(f, K, E) /\ f.edges = g.edges \o own
      /\ f.keys = g.keys /\ f.outgoing = g.outgoing
  BY SMTT(40), <1>1, <1>2, <1>3, AddEdgesIs
<1>5. P \o << >> = P
  BY <1>3
<1>6. Joined(f.edges, P, own)
  BY <1>1, <1>4, <1>5, Zenon DEF Joined
<1> QED
  BY <1>1, <1>4, <1>6 DEF IsGraphOf, K, E, P

LEMMA GraphCloses ==
    ASSUME NEW docs, AreDocuments(docs), NEW ans, NEW past \in Nat, past + 1 \in DOMAIN docs,
           IsAsked(docs, ans, past + 1, 1), NEW g,
           IsGraphOf(docs, ans, g, past, OwnIn(docs, ans, past + 1, Len(Rel(docs, past + 1)))),
           NEW f, f = closeSource(g, docs[past + 1].key, Len(PastIn(docs, ans, past)))
    PROVE  /\ IsGraphOf(docs, ans, f, past + 1, << >>)
           /\ g.edges = PastIn(docs, ans, past + 1) /\ f.edges = g.edges
<1> DEFINE K == KnownIn(docs)
           E == EdgeSet(docs)
           P == PastIn(docs, ans, past)
           c == past + 1
           key == docs[c].key
           own == OwnIn(docs, ans, c, Len(Rel(docs, c)))
           Q == PastIn(docs, ans, c)
           C == Closed(docs, past)
<1>1. /\ g \in Graphs(K, E) /\ g.keys = KeysOf(docs) /\ BacklinksExact(g, K, E)
      /\ OutgoingExact(g.outgoing, P, C, K, E) /\ Joined(g.edges, P, own)
  BY DEF IsGraphOf
<1>2. AreEdges(E, K)
  BY EdgeSetIs
<1>3. /\ docs \in Seq(Snapshots) /\ DOMAIN docs = 1..Len(docs) /\ Len(docs) \in Nat
      /\ \A i, j \in DOMAIN docs : docs[i].key = docs[j].key => i = j
  BY DEF AreDocuments
<1>4. Q = P \o own /\ own \in Seq(From(E, key))
  BY PastNext
<1>5. c \in 0..Len(docs) /\ past \in 0..Len(docs)
  BY <1>3
<1>6. Q \in Seq(E)
  BY <1>5, PastType
<1>7. P \in Seq(E) /\ \A k \in 1..Len(P) : P[k].source \in C
  <2>1. IsAsked(docs, ans, c, 1)
    OBVIOUS
  <2>2. CASE past = 0
    <3>1. [i \in 1..0 |-> OwnIn(docs, ans, i, Len(Rel(docs, i)))] = << >>
      OBVIOUS
    <3>2. PastIn(docs, ans, 0) = FlattenSeq(<< >>)
      BY <3>1 DEF PastIn
    <3>3. P = << >>
      BY <2>2, <3>2, FlattenNone, Zenon
    <3> QED
      BY <3>3
  <2>3. CASE past # 0
    <3> DEFINE n == past - 1
    <3>1. n \in Nat /\ n + 1 = past /\ n + 1 \in DOMAIN docs /\ c \in Nat /\ n + 1 <= c
      BY <1>3, <1>5, <2>3
    <3> HIDE DEF n, P, c
    <3>2. PastIn(docs, ans, n + 1) \in Seq(EdgesFrom(docs, n + 1))
      BY <2>1, <3>1, PastNext
    <3>3. P \in Seq(EdgesFrom(docs, past))
      BY <3>1, <3>2 DEF P
    <3>4. \A e \in EdgesFrom(docs, past) : e \in E /\ e.source \in C
      BY DEF EdgesFrom, Closed
    <3> HIDE DEF E, C
    <3> QED
      BY <3>3, <3>4
  <2> QED
    BY <2>2, <2>3
<1>8. key \in K /\ C \in SUBSET K /\ key \notin C /\ C \cup {key} = Closed(docs, c)
  <2>1. \A i \in 1..past : i \in DOMAIN docs /\ i # c
    BY <1>3, <1>5
  <2>2. \A i \in 1..c : i \in 1..past \/ i = c
    OBVIOUS
  <2>3. c \in 1..c /\ \A i \in 1..past : i \in 1..c
    OBVIOUS
  <2> HIDE DEF c
  <2> QED
    BY <1>3, <1>5, <2>1, <2>2, <2>3 DEF Closed, KnownIn, c
<1>9. f = closeSource(g, key, Len(P)) /\ g.edges = P \o own
  BY <1>1 DEF Joined
<1> HIDE DEF K, E, P, key, own, Q, C
<1>10. /\ f \in Graphs(K, E)
       /\ f.edges = g.edges /\ f.keys = g.keys /\ f.backlinks = g.backlinks
       /\ OutgoingExact(f.outgoing, g.edges, C \cup {key}, K, E)
  BY <1>1, <1>2, <1>4, <1>7, <1>8, <1>9, CloseSourceIs
<1>11. BacklinksExact(f, K, E)
  BY <1>1, <1>10, Zenon DEF BacklinksExact, Backlinks
<1>12. g.edges = Q
  BY <1>4, <1>9, Zenon
<1>13. Joined(f.edges, Q, << >>)
  <2>1. Q \o << >> = Q
    BY <1>6
  <2> QED
    BY <1>10, <1>12, <2>1, Zenon DEF Joined
<1>14. IsGraphOf(docs, ans, f, c, << >>)
  BY <1>1, <1>8, <1>10, <1>11, <1>12, <1>13 DEF IsGraphOf, K, E, Q, C
<1> QED
  BY <1>10, <1>12, <1>14 DEF Q

-----------------------------------------------------------------------------
(***************************************************************************)
(* The resolutions ValidateWorkspace puts aside, and the edges it takes    *)
(* from them.                                                              *)
(***************************************************************************)
Resolutions == [key : Nat \X Names, answer : Answers]

ResolutionIn(res, r) ==
    {m.answer : m \in {m \in Members(res) : m.key = workspaceRelationshipKeyFor(r)}}

ResolvedEdgeIn(docs, res, i, j) ==
    LET r == Rel(docs, i)[j]
        answer == TheOnly(ResolutionIn(res, r))
    IN IF r.local THEN <<EdgeTo(docs, docs[i].key, r, docs[i].key, r.to)>>
       ELSE IF ResolutionIn(res, r) = {} THEN << >>
       ELSE <<EdgeTo(docs, docs[i].key, r, answer.target, answer.fragment)>>

ResolvedIn(answered) == {a \in answered : a.kind = "resolved"}

IsResolved(docs, ans, res, i) ==
    /\ res \in Seq(Resolutions)
    /\ \A j \in DOMAIN Rel(docs, i) :
          ResolutionIn(res, Rel(docs, i)[j]) = ResolvedIn(AnsweredIn(ans, docs[i].key, j))

LEMMA ResolvedEdgesAre ==
    ASSUME NEW docs, AreDocuments(docs), NEW ans, NEW past \in Nat, past + 1 \in DOMAIN docs,
           IsAsked(docs, ans, past, Len(Rel(docs, past + 1)) + 1), NEW res,
           IsResolved(docs, ans, res, past + 1)
    PROVE  FlattenSeq([j \in DOMAIN Rel(docs, past + 1) |-> ResolvedEdgeIn(docs, res, past + 1, j)])
             = OwnIn(docs, ans, past + 1, Len(Rel(docs, past + 1)))
<1> DEFINE i == past + 1
           n == Len(Rel(docs, i))
           key == docs[i].key
<1>1. DOMAIN Rel(docs, i) = 1..n /\ n \in Nat /\ i \in DOMAIN docs
  BY RelIs
<1>2. ASSUME NEW j \in 1..n
      PROVE  ResolvedEdgeIn(docs, res, i, j) = EdgeIn(docs, ans, i, j)
  <2> DEFINE r == Rel(docs, i)[j]
             answered == AnsweredIn(ans, key, j)
  <2>1. ResolutionIn(res, r) = ResolvedIn(answered)
    BY <1>1 DEF IsResolved
  <2>2. EdgeIn(docs, ans, i, j) = EdgeOf(docs, key, r, TheOnly(answered))
    BY DEF EdgeIn
  <2>3. CASE r.local
    BY <2>2, <2>3 DEF EdgeOf, ResolvedEdgeIn
  <2>4. CASE ~r.local
    <3>1. Done(i, j, past, n + 1)
      BY <1>1 DEF Done
    <3>2. OneAnswer(docs, ans, key, j)
      BY <1>1, <2>4, <3>1 DEF IsAsked
    <3>3. PICK a \in GoodAnswers(docs) : answered = {a} /\ TheOnly(answered) = a
      BY <3>2, OnlyAnswer
    <3>4. CASE a.kind = "resolved"
      <4>1. ResolutionIn(res, r) = {a}
        BY <2>1, <3>3, <3>4 DEF ResolvedIn
      <4>2. ResolutionIn(res, r) # {} /\ TheOnly(ResolutionIn(res, r)) = a
        BY <3>3, <4>1
      <4>3. ResolvedEdgeIn(docs, res, i, j) = <<EdgeTo(docs, key, r, a.target, a.fragment)>>
        BY <2>4, <4>2 DEF ResolvedEdgeIn
      <4>4. EdgeIn(docs, ans, i, j) = <<EdgeTo(docs, key, r, a.target, a.fragment)>>
        BY <2>2, <2>4, <3>3, <3>4 DEF EdgeOf
      <4> QED
        BY <4>3, <4>4
    <3>5. CASE a.kind # "resolved"
      <4>1. ResolutionIn(res, r) = {}
        BY <2>1, <3>3, <3>5 DEF ResolvedIn
      <4>2. ResolvedEdgeIn(docs, res, i, j) = << >>
        BY <2>4, <4>1 DEF ResolvedEdgeIn
      <4>3. EdgeIn(docs, ans, i, j) = << >>
        BY <2>2, <2>4, <3>3, <3>5 DEF EdgeOf
      <4> QED
        BY <4>2, <4>3
    <3> QED
      BY <3>4, <3>5
  <2> QED
    BY <2>3, <2>4
<1> HIDE DEF i
<1>3. [j \in DOMAIN Rel(docs, i) |-> ResolvedEdgeIn(docs, res, i, j)]
        = [j \in 1..n |-> EdgeIn(docs, ans, i, j)]
  BY <1>1, <1>2
<1> QED
  BY <1>3, Zenon DEF OwnIn, i

LEMMA ResolvedStarts ==
    ASSUME NEW docs, AreDocuments(docs), NEW ans, NEW past \in Nat, past + 1 \in DOMAIN docs,
           IsAsked(docs, ans, past, 1)
    PROVE  IsResolved(docs, ans, << >>, past + 1)
<1> SUFFICES ASSUME NEW j \in DOMAIN Rel(docs, past + 1)
             PROVE  ResolutionIn(<< >>, Rel(docs, past + 1)[j])
                      = ResolvedIn(AnsweredIn(ans, docs[past + 1].key, j))
  BY DEF IsResolved
<1>1. j \in Nat /\ j >= 1
  BY RelIs
<1>2. ~Done(past + 1, j, past, 1)
  BY <1>1 DEF Done
<1>3. IF Done(past + 1, j, past, 1) /\ ~Rel(docs, past + 1)[j].local
      THEN OneAnswer(docs, ans, docs[past + 1].key, j)
      ELSE Asked(ans, docs[past + 1].key, j) = {}
  BY DEF IsAsked
<1>4. AnsweredIn(ans, docs[past + 1].key, j) = {}
  BY <1>2, <1>3 DEF AnsweredIn
<1>5. Members(<< >>) = {}
  BY DEF Members
<1> QED
  BY <1>4, <1>5 DEF ResolutionIn, ResolvedIn

(***************************************************************************)
(* An answer that resolves nothing, and one that does.                     *)
(***************************************************************************)
LEMMA ResolutionSkipped ==
    ASSUME NEW docs, NEW ans, NEW more, NEW res, NEW i, NEW next \in DOMAIN Rel(docs, i), NEW a,
           IsResolved(docs, ans, res, i), a.kind # "resolved",
           AnsweredIn(ans, docs[i].key, next) = {}, AnsweredIn(more, docs[i].key, next) = {a},
           \A j : j # next => AnsweredIn(more, docs[i].key, j) = AnsweredIn(ans, docs[i].key, j)
    PROVE  IsResolved(docs, more, res, i)
<1> SUFFICES ASSUME NEW j \in DOMAIN Rel(docs, i)
             PROVE  ResolutionIn(res, Rel(docs, i)[j])
                      = ResolvedIn(AnsweredIn(more, docs[i].key, j))
  BY DEF IsResolved
<1>1. ResolutionIn(res, Rel(docs, i)[j]) = ResolvedIn(AnsweredIn(ans, docs[i].key, j))
  BY DEF IsResolved
<1>2. ResolvedIn({a}) = ResolvedIn({})
  BY DEF ResolvedIn
<1> QED
  BY <1>1, <1>2

LEMMA ResolutionPut ==
    ASSUME NEW docs, AreDocuments(docs), NEW ans, NEW more, NEW res, NEW i \in DOMAIN docs,
           NEW next \in DOMAIN Rel(docs, i),
           NEW a \in Answers, IsResolved(docs, ans, res, i), a.kind = "resolved",
           AnsweredIn(more, docs[i].key, next) = {a},
           \A j : j # next => AnsweredIn(more, docs[i].key, j) = AnsweredIn(ans, docs[i].key, j),
           NEW key, key = workspaceRelationshipKeyFor(Rel(docs, i)[next]),
           NEW new, new = Append(Kept(res, {m \in Members(res) : m.key # key}),
                                 [key |-> key, answer |-> a])
    PROVE  IsResolved(docs, more, new, i)
<1> DEFINE others == {m \in Members(res) : m.key # key}
           kept == Kept(res, others)
           one == [key |-> key, answer |-> a]
<1>1. res \in Seq(Resolutions)
  BY DEF IsResolved
<1>2. ASSUME NEW j \in DOMAIN Rel(docs, i)
      PROVE  /\ workspaceRelationshipKeyFor(Rel(docs, i)[j]) \in Nat \X Names
             /\ workspaceRelationshipKeyFor(Rel(docs, i)[j])[1] = j
  <2>1. Rel(docs, i)[j] \in Relationships /\ Rel(docs, i)[j].offset = j
    BY RelIs
  <2> QED
    BY <2>1 DEF Relationships, workspaceRelationshipKeyFor
<1>3. one \in Resolutions
  BY <1>2 DEF Resolutions
<1>4. kept \in Seq(Resolutions) /\ Members(kept) = Members(res) \cap others
  BY <1>1, KeptIs
<1>5. new = Append(kept, one)
  OBVIOUS
<1> HIDE DEF kept, one
<1>6. new \in Seq(Resolutions) /\ Members(new) = Members(kept) \cup {one}
  <2>1. kept \in Seq(Resolutions) /\ one \in Resolutions
    BY <1>3, <1>4
  <2>2. Members(Append(kept, one)) = Members(kept) \cup {one}
    BY <2>1, MembersOfAppend
  <2>3. Append(kept, one) \in Seq(Resolutions)
    BY <2>1
  <2> QED
    BY <1>5, <2>2, <2>3, Zenon
<1>7. ASSUME NEW j \in DOMAIN Rel(docs, i)
      PROVE  ResolutionIn(new, Rel(docs, i)[j]) = ResolvedIn(AnsweredIn(more, docs[i].key, j))
  <2> DEFINE k == workspaceRelationshipKeyFor(Rel(docs, i)[j])
  <2>1. one.key = key /\ one.answer = a
    BY DEF one
  <2>2. CASE j = next
    <3>1. k = key
      BY <2>2
    <3>2. {m \in Members(new) : m.key = key} = {one}
      BY <1>4, <1>6, <2>1
    <3>3. ResolutionIn(new, Rel(docs, i)[j]) = {a}
      BY <2>1, <3>1, <3>2 DEF ResolutionIn
    <3>4. ResolvedIn({a}) = {a}
      BY DEF ResolvedIn
    <3> QED
      BY <2>2, <3>3, <3>4
  <2>3. CASE j # next
    <3>1. k # key
      BY <1>2, <2>3
    <3>2. {m \in Members(new) : m.key = k} = {m \in Members(res) : m.key = k}
      BY <1>4, <1>6, <2>1, <3>1
    <3>3. ResolutionIn(new, Rel(docs, i)[j]) = ResolutionIn(res, Rel(docs, i)[j])
      BY <3>2 DEF ResolutionIn
    <3>4. ResolutionIn(res, Rel(docs, i)[j]) = ResolvedIn(AnsweredIn(ans, docs[i].key, j))
      BY DEF IsResolved
    <3> QED
      BY <2>3, <3>3, <3>4
  <2> QED
    BY <2>2, <2>3
<1> QED
  BY <1>6, <1>7 DEF IsResolved

-----------------------------------------------------------------------------
(***************************************************************************)
(* The inductive invariant of the calls.                                   *)
(***************************************************************************)
AreOptions(docs, opts) ==
    /\ opts.roots \in Seq(KnownIn(docs))
    /\ opts.managed \in Seq([document : KnownIn(docs), heading : Nat])
    /\ \A m \in Members(opts.managed) : m.heading \in DOMAIN TextIn(docs, m.document).headings

TargetsIn(docs, opts) ==
    Kept(opts.managed,
         {m \in Members(opts.managed) : Stale(TextIn(docs, m.document), m.heading)})

RepairsIn(docs, opts) ==
    LET targets == TargetsIn(docs, opts)
        order == appendUnvisited(<< >>, [i \in DOMAIN targets |-> targets[i].document])
    IN [i \in DOMAIN order |->
          [document |-> order[i], text |-> TextIn(docs, order[i]),
           headings |-> HeadingsOf(targets, order[i])]]

Types ==
    /\ files \in [Keys -> ParsedTexts] /\ writes \in Nat
    /\ call \in {"none", "graph", "validate"}
    /\ AreDocuments(documents) /\ AreOptions(documents, options)
    /\ call # "none" => result = "none"
    /\ repairs = IF result = "report" THEN RepairsIn(documents, options) ELSE << >>

Positions ==
    /\ doc \in Nat /\ link \in Nat
    /\ call = "none" => doc = 1 /\ link = 1
    /\ call # "none" => doc \in 1..(Len(documents) + 1)
    /\ call # "none" /\ doc \in DOMAIN documents => link \in 1..(Len(Rel(documents, doc)) + 1)
    /\ doc \notin DOMAIN documents => link = 1

passed == IF call = "none" THEN Len(documents) ELSE doc - 1

added == IF call = "graph" THEN OwnIn(documents, answers, doc, link - 1) ELSE << >>

Progress ==
    /\ answers \in Seq(Answered) /\ IsAsked(documents, answers, passed, link)
    /\ IsGraphOf(documents, answers, graph, passed, added)
    /\ call # "none" => start = Len(PastIn(documents, answers, passed))
    /\ call = "validate" /\ doc \in DOMAIN documents
          => IsResolved(documents, answers, resolved, doc)

WorkspaceInv == Types /\ Positions /\ Progress

(***************************************************************************)
(* Where nothing runs and there are no documents.                          *)
(***************************************************************************)
LEMMA NoDocuments ==
    /\ AreDocuments(<< >>) /\ KeysOf(<< >>) = << >>
    /\ AreOptions(<< >>, NoOptions)
    /\ \A ans, n, l : IsAsked(<< >>, ans, n, l)
    /\ \A ans : IsGraphOf(<< >>, ans, newDocumentGraph(<< >>), 0, << >>)
<1>1. AreDocuments(<< >>)
  BY DEF AreDocuments
<1>2. KeysOf(<< >>) = << >>
  BY DEF KeysOf
<1>3. AreOptions(<< >>, NoOptions)
  BY DEF AreOptions, NoOptions, Members
<1>4. \A ans, n, l : IsAsked(<< >>, ans, n, l)
  BY DEF IsAsked
<1>5. \A ans : IsGraphOf(<< >>, ans, newDocumentGraph(<< >>), 0, << >>)
  BY <1>1, <1>2, GraphStarts
<1> QED
  BY <1>1, <1>2, <1>3, <1>4, <1>5

LEMMA WorkspaceStarts == Init => WorkspaceInv
<1> SUFFICES ASSUME Init PROVE WorkspaceInv
  OBVIOUS
<1>1. /\ files \in [Keys -> ParsedTexts] /\ writes \in Nat /\ call = "none"
      /\ documents = << >> /\ options = NoOptions /\ result = "none" /\ repairs = << >>
      /\ doc = 1 /\ link = 1 /\ answers = << >> /\ graph = newDocumentGraph(<< >>)
  <2>1. files \in [Keys -> Texts] /\ Texts \subseteq ParsedTexts
    BY KeyAssumption, TextAssumption DEF Init
  <2>2. files \in [Keys -> ParsedTexts]
    BY <2>1
  <2> QED
    BY <2>2 DEF Init
<1>2. Types
  BY <1>1, NoDocuments DEF Types
<1>3. Positions
  BY <1>1 DEF Positions
<1>4. passed = 0 /\ added = << >>
  BY <1>1 DEF passed, added
<1>5. Progress
  BY <1>1, <1>4, NoDocuments DEF Progress
<1> QED
  BY <1>2, <1>3, <1>5 DEF WorkspaceInv

LEMMA Emptied ==
    ASSUME WorkspaceInv, call' = "none", result' = "invalid", UNCHANGED <<files, writes>>,
           documents' = << >>, options' = NoOptions, repairs' = << >>, doc' = 1, link' = 1,
           answers' = << >>, graph' = newDocumentGraph(<< >>)
    PROVE  WorkspaceInv'
<1>1. files' \in [Keys -> ParsedTexts] /\ writes' \in Nat
  BY DEF WorkspaceInv, Types
<1>2. Types'
  BY <1>1, NoDocuments DEF Types
<1>3. Positions'
  BY DEF Positions
<1>4. passed' = 0 /\ added' = << >>
  BY DEF passed, added
<1>5. Progress'
  BY <1>4, NoDocuments DEF Progress
<1> QED
  BY <1>2, <1>3, <1>5 DEF WorkspaceInv

LEMMA FailStep == WorkspaceInv /\ Fail => WorkspaceInv'
BY Emptied DEF Fail

LEMMA RefuseStep ==
    ASSUME WorkspaceInv, NEW keys, NEW roots, NEW managed, Refuse(keys, roots, managed)
    PROVE  WorkspaceInv'
<1>1. /\ call' = "none" /\ result' = "invalid" /\ UNCHANGED <<files, writes>>
      /\ documents' = << >> /\ options' = NoOptions /\ repairs' = << >>
      /\ doc' = 1 /\ link' = 1 /\ answers' = << >> /\ graph' = newDocumentGraph(<< >>)
  BY DEF Refuse, WorkspaceInv, Positions
<1> QED
  BY <1>1, Emptied

(***************************************************************************)
(* A call begins.                                                          *)
(***************************************************************************)
LEMMA TextInIs ==
    ASSUME NEW docs, AreDocuments(docs), NEW i \in DOMAIN docs
    PROVE  TextIn(docs, docs[i].key) = docs[i].text
<1> DEFINE c == CHOOSE c \in DOMAIN docs : docs[c].key = docs[i].key
<1>1. c \in DOMAIN docs /\ docs[c].key = docs[i].key
  OBVIOUS
<1> HIDE DEF c
<1>2. c = i
  BY <1>1 DEF AreDocuments
<1> QED
  BY <1>2 DEF TextIn, c

LEMMA Snapped ==
    ASSUME files \in [Keys -> ParsedTexts], NEW keys, NEW K, keys \in Seq(K), ValidDocuments(keys),
           NEW docs, docs = [i \in DOMAIN keys |-> [key |-> keys[i], text |-> files[keys[i]]]]
    PROVE  /\ AreDocuments(docs) /\ KeysOf(docs) = keys /\ KnownIn(docs) = Members(keys)
           /\ \A k \in Members(keys) : TextIn(docs, k) = files[k]
<1> DEFINE n == Len(keys)
<1>1. n \in Nat /\ DOMAIN keys = 1..n /\ keys = [i \in 1..n |-> keys[i]]
  OBVIOUS
<1>2. \A i \in 1..n : keys[i] \in Keys
  BY <1>1 DEF ValidDocuments, Members
<1>3. \A i \in 1..n : docs[i] \in Snapshots /\ docs[i].key = keys[i] /\ docs[i].text = files[keys[i]]
  BY <1>1, <1>2 DEF Snapshots
<1>4. DOMAIN docs = 1..n /\ docs = [i \in 1..n |-> docs[i]]
  BY <1>1
<1> HIDE DEF n
<1>5. docs \in Seq(Snapshots)
  BY <1>1, <1>3, <1>4
<1>6. AreDocuments(docs)
  <2> SUFFICES ASSUME NEW i \in 1..n, NEW j \in 1..n, docs[i].key = docs[j].key
               PROVE  i = j
    BY <1>4, <1>5 DEF AreDocuments
  <2> QED
    BY <1>1, <1>3 DEF ValidDocuments, Distinct
<1>7. KeysOf(docs) = keys
  BY <1>1, <1>3, <1>4 DEF KeysOf
<1>8. KnownIn(docs) = Members(keys)
  BY <1>1, <1>3, <1>4 DEF KnownIn, Members
<1>9. ASSUME NEW k \in Members(keys) PROVE TextIn(docs, k) = files[k]
  <2>1. PICK i \in 1..n : k = keys[i]
    BY <1>1 DEF Members
  <2>2. TextIn(docs, docs[i].key) = docs[i].text
    BY <1>4, <1>6, TextInIs
  <2> QED
    BY <1>3, <2>1, <2>2
<1> QED
  BY <1>6, <1>7, <1>8, <1>9

LEMMA NoneAsked ==
    ASSUME NEW docs, AreDocuments(docs)
    PROVE  IsAsked(docs, << >>, 0, 1)
<1> SUFFICES ASSUME NEW i \in DOMAIN docs, NEW j \in DOMAIN Rel(docs, i)
             PROVE  ~Done(i, j, 0, 1) /\ Asked(<< >>, docs[i].key, j) = {}
  BY DEF IsAsked
<1>1. j \in Nat /\ j >= 1
  BY RelIs
<1>2. i \in Nat /\ i >= 1
  BY DEF AreDocuments
<1>3. ~Done(i, j, 0, 1)
  BY <1>1, <1>2 DEF Done
<1> QED
  BY <1>3 DEF Asked

LEMMA NonePast ==
    \A docs, ans : PastIn(docs, ans, 0) = << >> /\ \A i : OwnIn(docs, ans, i, 0) = << >>
<1> SUFFICES ASSUME NEW docs, NEW ans
             PROVE  PastIn(docs, ans, 0) = << >> /\ \A i : OwnIn(docs, ans, i, 0) = << >>
  OBVIOUS
<1>1. PastIn(docs, ans, 0) = << >>
  <2>1. [i \in 1..0 |-> OwnIn(docs, ans, i, Len(Rel(docs, i)))] = << >>
    OBVIOUS
  <2>2. PastIn(docs, ans, 0) = FlattenSeq(<< >>)
    BY <2>1 DEF PastIn
  <2> QED
    BY <2>2, FlattenNone, Zenon
<1>2. ASSUME NEW i PROVE OwnIn(docs, ans, i, 0) = << >>
  <2>1. [j \in 1..0 |-> EdgeIn(docs, ans, i, j)] = << >>
    OBVIOUS
  <2>2. OwnIn(docs, ans, i, 0) = FlattenSeq(<< >>)
    BY <2>1 DEF OwnIn
  <2> QED
    BY <2>2, FlattenNone, Zenon
<1> QED
  BY <1>1, <1>2

LEMMA Begun ==
    ASSUME WorkspaceInv, NEW kind \in {"graph", "validate"}, NEW keys \in DocumentLists,
           ValidDocuments(keys), NEW chosen, Begin(kind, keys, chosen),
           AreOptions(documents', chosen)
    PROVE  WorkspaceInv'
<1>1. keys \in Seq(Keys \cup {Elsewhere, NoKey})
  BY ArgumentAssumption
<1>2. files \in [Keys -> ParsedTexts] /\ writes \in Nat
  BY DEF WorkspaceInv, Types
<1>3. /\ call' = kind /\ options' = chosen /\ doc' = 1 /\ link' = 1 /\ start' = 0
      /\ resolved' = << >> /\ graph' = newDocumentGraph(keys) /\ repairs' = << >>
      /\ result' = "none" /\ answers' = << >> /\ files' = files /\ writes' = writes
      /\ documents' = [i \in DOMAIN keys |-> [key |-> keys[i], text |-> files[keys[i]]]]
  BY DEF Begin
<1>4. AreDocuments(documents') /\ KeysOf(documents') = keys
  BY <1>1, <1>2, <1>3, Snapped
<1>5. Types'
  BY <1>2, <1>3, <1>4 DEF Types
<1>6. Len(documents') \in Nat /\ DOMAIN documents' = 1..Len(documents')
  BY <1>4 DEF AreDocuments
<1>7. Positions'
  <2>1. 1 \in DOMAIN documents' =>
          1 \in 1..(Len(Rel(documents', 1)) + 1)
    BY <1>4, RelIs
  <2> QED
    BY <1>3, <1>6, <2>1 DEF Positions
<1>8. passed' = 0
  BY <1>3 DEF passed
<1>9. added' = << >>
  BY <1>3, NonePast DEF added
<1>10. IsAsked(documents', << >>, 0, 1)
  BY <1>4, NoneAsked
<1>11. IsGraphOf(documents', << >>, graph', 0, << >>)
  BY <1>3, <1>4, GraphStarts
<1>12. 1 \in DOMAIN documents' => IsResolved(documents', << >>, << >>, 1)
  <2> SUFFICES ASSUME 1 \in DOMAIN documents' PROVE IsResolved(documents', << >>, << >>, 0 + 1)
    OBVIOUS
  <2> QED
    BY <1>4, <1>10, ResolvedStarts
<1>13. Len(PastIn(documents', << >>, 0)) = 0
  BY NonePast
<1>14. << >> \in Seq(Answered)
  OBVIOUS
<1>15. Progress'
  BY <1>3, <1>8, <1>9, <1>10, <1>11, <1>12, <1>13, <1>14 DEF Progress
<1> QED
  BY <1>5, <1>7, <1>15 DEF WorkspaceInv

LEMMA BuildDocumentGraphStep ==
    ASSUME WorkspaceInv, NEW keys \in DocumentLists, BuildDocumentGraph(keys)
    PROVE  WorkspaceInv'
<1>1. AreOptions(documents', NoOptions)
  BY DEF AreOptions, NoOptions, Members
<1> QED
  BY <1>1, Begun DEF BuildDocumentGraph

LEMMA ValidateWorkspaceStep ==
    ASSUME WorkspaceInv, NEW keys \in DocumentLists, NEW roots \in RootLists,
           NEW managed \in ManagedLists, ValidateWorkspace(keys, roots, managed)
    PROVE  WorkspaceInv'
<1> DEFINE chosen == [roots |-> roots, managed |-> managed]
           AnyKey == Keys \cup {Elsewhere, NoKey}
<1>1. /\ keys \in Seq(AnyKey) /\ roots \in Seq(AnyKey)
      /\ managed \in Seq([document : AnyKey, heading : Nat])
  BY ArgumentAssumption
<1>2. /\ ValidDocuments(keys) /\ ValidRoots(keys, roots) /\ validateManagedTOCs(keys, managed)
      /\ Begin("validate", keys, chosen)
  BY DEF ValidateWorkspace
<1>3. documents' = [i \in DOMAIN keys |-> [key |-> keys[i], text |-> files[keys[i]]]]
  BY <1>2 DEF Begin
<1>4. /\ KnownIn(documents') = Members(keys)
      /\ \A k \in Members(keys) : TextIn(documents', k) = files[k]
  <2>1. files \in [Keys -> ParsedTexts]
    BY DEF WorkspaceInv, Types
  <2> HIDE DEF AnyKey
  <2> QED
    BY <1>1, <1>2, <1>3, <2>1, Snapped
<1> HIDE DEF AnyKey
<1>5. roots \in Seq(KnownIn(documents'))
  <2>1. \A i \in DOMAIN roots : roots[i] \in KnownIn(documents')
    BY <1>2, <1>4 DEF ValidRoots, Members
  <2> QED
    BY <1>1, <2>1
<1>6. managed \in Seq([document : KnownIn(documents'), heading : Nat])
  <2> DEFINE W == [document : AnyKey, heading : Nat]
             V == [document : KnownIn(documents'), heading : Nat]
  <2>1. ASSUME NEW i \in DOMAIN managed PROVE managed[i] \in V
    <3>1. managed[i].document \in KnownIn(documents')
      BY <1>2, <1>4 DEF validateManagedTOCs
    <3>2. managed[i] \in W
      <4>1. managed \in Seq(W)
        BY <1>1
      <4> HIDE DEF W
      <4> QED
        BY <4>1
    <3> QED
      BY <3>1, <3>2
  <2>2. managed \in Seq(W)
    BY <1>1
  <2> HIDE DEF V, W
  <2>3. managed \in Seq(V)
    BY <2>1, <2>2
  <2> QED
    BY <2>3 DEF V
<1>7. \A m \in Members(managed) : m.heading \in DOMAIN TextIn(documents', m.document).headings
  BY <1>2, <1>4 DEF validateManagedTOCs, Members
<1>8. AreOptions(documents', chosen)
  BY <1>5, <1>6, <1>7 DEF AreOptions
<1> QED
  BY <1>2, <1>8, Begun

(***************************************************************************)
(* Where a call is while it looks at a relationship.                       *)
(***************************************************************************)
Frame == UNCHANGED <<files, writes, call, documents, options, doc, start, repairs, result>>

At(c, r) ==
    /\ c \in Nat /\ doc = c + 1 /\ passed = c /\ c + 1 \in DOMAIN documents
    /\ link \in Nat /\ link \in DOMAIN Rel(documents, c + 1) /\ r = Rel(documents, c + 1)[link]
    /\ r \in Relationships /\ r.offset = link
    /\ Source = documents[c + 1].key /\ Current = r /\ Known = KnownIn(documents)

LEMMA AskingAt ==
    ASSUME WorkspaceInv, Asking
    PROVE  At(doc - 1, Current)
<1> DEFINE c == doc - 1
<1>1. /\ AreDocuments(documents) /\ doc \in Nat /\ link \in Nat /\ doc \in DOMAIN documents
      /\ link \in DOMAIN Links /\ call # "none"
  BY DEF WorkspaceInv, Types, Positions, Asking, Running
<1>2. documents \in Seq(Snapshots)
  BY <1>1 DEF AreDocuments
<1>3. c \in Nat /\ doc = c + 1
  BY <1>1, <1>2
<1>4. passed = c
  BY <1>1 DEF passed
<1>5. Links = Rel(documents, doc) /\ Source = documents[doc].key /\ Known = KnownIn(documents)
  BY DEF Links, Rel, Source, Known, KnownIn
<1>6. Current = Rel(documents, doc)[link]
  BY <1>5 DEF Current
<1>7. Current \in Relationships /\ Current.offset = link
  BY <1>1, <1>5, <1>6, RelIs
<1> HIDE DEF c
<1> QED
  BY <1>1, <1>3, <1>4, <1>5, <1>6, <1>7 DEF At

LEMMA Advanced ==
    ASSUME WorkspaceInv, Asking, Frame, link' = link + 1
    PROVE  Types' /\ Positions' /\ passed' = passed
<1>1. Types'
  BY DEF Frame, WorkspaceInv, Types
<1>2. passed' = passed
  BY DEF Frame, passed
<1>3. /\ AreDocuments(documents) /\ doc \in DOMAIN documents /\ link \in Nat
      /\ link \in DOMAIN Links /\ Links = Rel(documents, doc) /\ call # "none"
      /\ call # "none" => doc \in 1..(Len(documents) + 1) /\ doc \in Nat
  BY DEF WorkspaceInv, Types, Positions, Asking, Running, Links, Rel
<1>4. link + 1 \in 1..(Len(Rel(documents, doc)) + 1) /\ link + 1 \in Nat
  BY <1>3, RelIs
<1>5. Positions'
  BY <1>3, <1>4 DEF Frame, Positions, WorkspaceInv
<1> QED
  BY <1>1, <1>2, <1>5

\* The edges of the current document that are there before link, and with it.
LEMMA AddedIs ==
    ASSUME WorkspaceInv, Asking, NEW c, NEW r, At(c, r)
    PROVE  /\ OwnIn(documents, answers, c + 1, link - 1)
                \in Seq(EdgeSet(documents))
           /\ PastIn(documents, answers, c) \in Seq(EdgeSet(documents))
<1> DEFINE i == c + 1
           E == EdgeSet(documents)
           F == From(E, documents[i].key)
           n == link - 1
<1>1. /\ AreDocuments(documents) /\ IsAsked(documents, answers, c, link) /\ i \in DOMAIN documents
      /\ c \in Nat /\ link \in DOMAIN Rel(documents, i)
  BY DEF WorkspaceInv, Types, Progress, At
<1>2. /\ DOMAIN Rel(documents, i) = 1..Len(Rel(documents, i)) /\ Len(Rel(documents, i)) \in Nat
  BY <1>1, RelIs
<1>3. n \in 0..Len(Rel(documents, i)) /\ \A j \in 1..n : Done(i, j, c, link)
  BY <1>1, <1>2 DEF Done
<1> HIDE DEF i, n
<1>4. OwnIn(documents, answers, i, n) \in Seq(From(EdgeSet(documents), documents[i].key))
  BY <1>1, <1>3, OwnType
<1>5. From(EdgeSet(documents), documents[i].key) \subseteq EdgeSet(documents)
  BY DEF From
<1> DEFINE o == OwnIn(documents, answers, i, n)
<1>6. o \in Seq(F) /\ F \subseteq E
  BY <1>4, <1>5
<1> HIDE DEF o, F, E
<1>7. o \in Seq(E)
  BY <1>6
<1>8. c \in 0..Len(documents)
  <2>1. documents \in Seq(Snapshots)
    BY <1>1 DEF AreDocuments
  <2> QED
    BY <1>1, <2>1 DEF i
<1>9. PastIn(documents, answers, c) \in Seq(EdgeSet(documents))
  BY <1>1, <1>8, PastType
<1> QED
  BY <1>7, <1>9 DEF o, E, i, n

(***************************************************************************)
(* A relationship of a graph under construction: nothing was put aside,    *)
(* and its edge, if it has one, is there at once.                          *)
(***************************************************************************)
LEMMA GraphLocalStep == WorkspaceInv /\ GraphLocal => WorkspaceInv'
<1> SUFFICES ASSUME WorkspaceInv, GraphLocal PROVE WorkspaceInv'
  OBVIOUS
<1>1. /\ call = "graph" /\ Asking /\ Current.local /\ Frame /\ link' = link + 1
      /\ graph' = addEdge(graph, localGraphEdge(Source, Current))
      /\ resolved' = resolved /\ answers' = answers /\ documents' = documents /\ call' = call
      /\ start' = start /\ doc' = doc
  BY DEF GraphLocal, Advance, Frame, argVars
<1>2. Types' /\ Positions' /\ passed' = passed
  BY <1>1, Advanced
<1> DEFINE c == doc - 1
           r == Current
           e == EdgeTo(documents, documents[c + 1].key, r, documents[c + 1].key, r.to)
<1>3. At(c, r)
  BY <1>1, AskingAt
<1> HIDE DEF c, r
<1>4. /\ AreDocuments(documents) /\ answers \in Seq(Answered) /\ IsAsked(documents, answers, c, link)
      /\ IsGraphOf(documents, answers, graph, c, OwnIn(documents, answers, c + 1, link - 1))
      /\ start = Len(PastIn(documents, answers, c))
  BY <1>1, <1>3 DEF WorkspaceInv, Types, Progress, added, At
<1>5. IsAsked(documents, answers, c, link + 1)
  BY <1>1, <1>3, <1>4, LocalPassed DEF At, r
<1>6. localGraphEdge(Source, Current) = e
  BY <1>3 DEF localGraphEdge, GraphEdge, EdgeTo, TextOf, At
<1>7. EdgeIn(documents, answers, c + 1, link) = <<e>>
  BY <1>1, <1>3 DEF EdgeIn, EdgeOf, At, r
<1>8. e \in EdgeSet(documents)
  BY <1>3, <1>4, RelIs DEF EdgeSet, At, Relationships
<1> HIDE DEF e
<1>9. Appended(OwnIn(documents, answers, c + 1, link), OwnIn(documents, answers, c + 1, link - 1), e)
  <2> DEFINE n == link - 1
  <2>1. /\ n \in Nat /\ n + 1 = link /\ c + 1 \in DOMAIN documents
        /\ link \in DOMAIN Rel(documents, c + 1)
        /\ \A j \in 1..(n + 1) : Done(c + 1, j, c, link + 1)
    BY <1>3, <1>4, RelIs DEF At, Done
  <2> HIDE DEF n
  <2>2. OwnIn(documents, answers, c + 1, n + 1)
          = OwnIn(documents, answers, c + 1, n) \o EdgeIn(documents, answers, c + 1, n + 1)
    BY <1>4, <1>5, <2>1, OwnNext DEF At
  <2>3. OwnIn(documents, answers, c + 1, n) \in Seq(EdgeSet(documents))
    BY <1>1, <1>3, AddedIs DEF n
  <2> DEFINE o == OwnIn(documents, answers, c + 1, n)
             E == EdgeSet(documents)
  <2>4. o \in Seq(E) /\ e \in E
    BY <1>8, <2>3
  <2> HIDE DEF o, E
  <2>5. o \o <<e>> = Append(o, e)
    BY <2>4
  <2> QED
    BY <1>7, <2>1, <2>2, <2>5, Zenon DEF Appended, o, n
<1>10. IsGraphOf(documents, answers, graph', c, OwnIn(documents, answers, c + 1, link))
  <2>1. /\ OwnIn(documents, answers, c + 1, link - 1) \in Seq(EdgeSet(documents))
        /\ PastIn(documents, answers, c) \in Seq(EdgeSet(documents))
    BY <1>1, <1>3, AddedIs
  <2>2. graph' = addEdge(graph, e)
    BY <1>1, <1>6
  <2> QED
    BY <1>4, <1>8, <1>9, <2>1, <2>2, GraphAdds
<1>11. added' = OwnIn(documents, answers, c + 1, link)
  <2>1. link' - 1 = link /\ doc = c + 1
    BY <1>1, <1>3 DEF At
  <2> QED
    BY <1>1, <2>1 DEF added
<1>12. passed' = c
  BY <1>2, <1>3 DEF At
<1>13. Progress'
  BY <1>1, <1>4, <1>5, <1>10, <1>11, <1>12 DEF Progress
<1> QED
  BY <1>2, <1>13 DEF WorkspaceInv

LEMMA AnswerLearned ==
    ASSUME WorkspaceInv, Asking, ~Current.local, NEW c, NEW r, r = Current, At(c, r),
           NEW a \in GoodAnswers(documents), Record(a)
    PROVE  /\ answers' \in Seq(Answered) /\ IsAsked(documents, answers', c, link + 1)
           /\ SameAnswers(documents, answers, answers', c, link)
           /\ PastIn(documents, answers', c) = PastIn(documents, answers, c)
           /\ OwnIn(documents, answers', c + 1, link - 1)
                = OwnIn(documents, answers, c + 1, link - 1)
           /\ EdgeIn(documents, answers', c + 1, link)
                = EdgeOf(documents, documents[c + 1].key, r, a)
           /\ AnsweredIn(answers, documents[c + 1].key, link) = {}
           /\ AnsweredIn(answers', documents[c + 1].key, link) = {a}
           /\ \A j : j # link => AnsweredIn(answers', documents[c + 1].key, j)
                                   = AnsweredIn(answers, documents[c + 1].key, j)
<1>1. /\ AreDocuments(documents) /\ answers \in Seq(Answered) /\ IsAsked(documents, answers, c, link)
      /\ c \in Nat /\ link \in Nat /\ c + 1 \in DOMAIN documents
      /\ link \in DOMAIN Rel(documents, c + 1) /\ r = Rel(documents, c + 1)[link]
      /\ ~Rel(documents, c + 1)[link].local
  BY DEF WorkspaceInv, Types, Progress, At
<1>2. Recorded(answers', answers, documents[c + 1].key, link, a)
  BY DEF Record, Recorded, At
<1>3. /\ answers' \in Seq(Answered) /\ IsAsked(documents, answers', c, link + 1)
      /\ SameAnswers(documents, answers, answers', c, link)
      /\ AnsweredIn(answers', documents[c + 1].key, link) = {a}
      /\ \A j : j # link => AnsweredIn(answers', documents[c + 1].key, j)
                              = AnsweredIn(answers, documents[c + 1].key, j)
      /\ EdgeIn(documents, answers', c + 1, link)
           = EdgeOf(documents, documents[c + 1].key, Rel(documents, c + 1)[link], a)
  <2> DEFINE i == c + 1
  <2>1. /\ AreDocuments(documents) /\ answers \in Seq(Answered)
        /\ IsAsked(documents, answers, c, link)
        /\ c \in Nat /\ link \in Nat /\ i = c + 1 /\ i \in DOMAIN documents
        /\ link \in DOMAIN Rel(documents, i) /\ ~Rel(documents, i)[link].local
        /\ Recorded(answers', answers, documents[i].key, link, a)
    BY <1>1, <1>2
  <2> HIDE DEF i
  <2>2. AnswerTaken(documents, answers, answers', c, i, link, a)
    BY <2>1, AnswerKept, Zenon
  <2> QED
    BY <2>2, Zenon DEF i, AnswerTaken
<1>4. AnsweredIn(answers, documents[c + 1].key, link) = {}
  <2>1. ~Done(c + 1, link, c, link)
    BY <1>1 DEF Done
  <2>2. Asked(answers, documents[c + 1].key, link) = {}
    BY <1>1, <2>1 DEF IsAsked
  <2> QED
    BY <2>2 DEF AnsweredIn
<1>5. c <= Len(documents) /\ link - 1 \in Nat /\ link - 1 < link
      /\ link - 1 <= Len(Rel(documents, c + 1))
  <2>1. documents \in Seq(Snapshots)
    BY <1>1 DEF AreDocuments
  <2>2. link \in 1..Len(Rel(documents, c + 1)) /\ Len(Rel(documents, c + 1)) \in Nat
    BY <1>1, RelIs
  <2>3. c <= Len(documents)
    BY <1>1, <2>1
  <2> QED
    BY <2>2, <2>3
<1>6. /\ PastIn(documents, answers', c) = PastIn(documents, answers, c)
      /\ OwnIn(documents, answers', c + 1, link - 1) = OwnIn(documents, answers, c + 1, link - 1)
  BY <1>1, <1>3, <1>5, SameEdges
<1> QED
  BY <1>1, <1>3, <1>4, <1>6

LEMMA OwnGrows ==
    ASSUME WorkspaceInv, Asking, ~Current.local, NEW c, NEW r, r = Current, At(c, r),
           NEW a \in GoodAnswers(documents), Record(a)
    PROVE  OwnIn(documents, answers', c + 1, link)
             = OwnIn(documents, answers, c + 1, link - 1)
                 \o EdgeOf(documents, documents[c + 1].key, r, a)
<1>1. /\ IsAsked(documents, answers', c, link + 1)
      /\ OwnIn(documents, answers', c + 1, link - 1) = OwnIn(documents, answers, c + 1, link - 1)
      /\ EdgeIn(documents, answers', c + 1, link) = EdgeOf(documents, documents[c + 1].key, r, a)
  BY AnswerLearned
<1>2. AreDocuments(documents)
  BY DEF WorkspaceInv, Types
<1> DEFINE n == link - 1
<1>3. /\ n \in Nat /\ n + 1 = link /\ c + 1 \in DOMAIN documents
      /\ link \in DOMAIN Rel(documents, c + 1)
      /\ \A j \in 1..(n + 1) : Done(c + 1, j, c, link + 1)
  BY <1>2, RelIs DEF At, Done
<1> HIDE DEF n
<1>4. OwnIn(documents, answers', c + 1, n + 1)
        = OwnIn(documents, answers', c + 1, n) \o EdgeIn(documents, answers', c + 1, n + 1)
  BY <1>1, <1>2, <1>3, OwnNext DEF At
<1> QED
  BY <1>1, <1>3, <1>4, Zenon DEF n

\* The graph does not know which answers are not about its edges.
LEMMA GraphStays ==
    ASSUME NEW docs, NEW ans, NEW more, NEW g, NEW n, NEW o, IsGraphOf(docs, ans, g, n, o),
           PastIn(docs, more, n) = PastIn(docs, ans, n)
    PROVE  IsGraphOf(docs, more, g, n, o)
BY Zenon DEF IsGraphOf

LEMMA IgnoredIs ==
    ASSUME NEW docs
    PROVE  Ignored \in GoodAnswers(docs) /\ Ignored.kind # "resolved"
<1>1. Ignored.kind = "ignore"
  BY DEF Ignored, Answer
<1>2. Ignored \in Answers
  <2>1. "ignore" \in {"ignore", "missing", "resolved", "unknown"}
        /\ NoKey \in Keys \cup {Elsewhere, NoKey} /\ NoFragment \in Fragments \cup {NoFragment}
    OBVIOUS
  <2> QED
    BY <2>1 DEF Ignored, Answers
<1> QED
  BY <1>1, <1>2 DEF GoodAnswers

LEMMA GraphSkipStep == WorkspaceInv /\ GraphSkip => WorkspaceInv'
<1> SUFFICES ASSUME WorkspaceInv, GraphSkip PROVE WorkspaceInv'
  OBVIOUS
<1>1. /\ call = "graph" /\ Asking /\ ~Current.local /\ Frame /\ link' = link + 1
      /\ graph' = graph /\ Record(Ignored) /\ documents' = documents /\ call' = call
      /\ start' = start /\ doc' = doc
  BY DEF GraphSkip, Advance, Frame, argVars
<1>2. Types' /\ Positions' /\ passed' = passed
  BY <1>1, Advanced
<1> DEFINE c == doc - 1
           r == Current
<1>3. At(c, r) /\ r = Current
  BY <1>1, AskingAt
<1> HIDE DEF c, r
<1>4. /\ IsGraphOf(documents, answers, graph, c, OwnIn(documents, answers, c + 1, link - 1))
      /\ start = Len(PastIn(documents, answers, c))
  BY <1>1, <1>3 DEF WorkspaceInv, Progress, added, At
<1>5. Ignored \in GoodAnswers(documents)
  BY IgnoredIs
<1>6. /\ answers' \in Seq(Answered) /\ IsAsked(documents, answers', c, link + 1)
      /\ PastIn(documents, answers', c) = PastIn(documents, answers, c)
  BY <1>1, <1>3, <1>5, AnswerLearned
<1>7. OwnIn(documents, answers', c + 1, link) = OwnIn(documents, answers, c + 1, link - 1)
  <2>1. EdgeOf(documents, documents[c + 1].key, r, Ignored) = << >>
    BY <1>1, <1>3, IgnoredIs DEF EdgeOf
  <2>2. OwnIn(documents, answers', c + 1, link)
          = OwnIn(documents, answers, c + 1, link - 1) \o << >>
    BY <1>1, <1>3, <1>5, <2>1, OwnGrows
  <2> DEFINE o == OwnIn(documents, answers, c + 1, link - 1)
  <2>3. o \in Seq(EdgeSet(documents))
    BY <1>1, <1>3, AddedIs
  <2> HIDE DEF o
  <2>4. o \o << >> = o
    BY <2>3
  <2> QED
    BY <2>2, <2>4, Zenon DEF o
<1>8. IsGraphOf(documents, answers', graph', c, OwnIn(documents, answers', c + 1, link))
  BY <1>1, <1>4, <1>6, <1>7, GraphStays
<1>9. added' = OwnIn(documents, answers', c + 1, link)
  <2>1. link' - 1 = link /\ doc = c + 1
    BY <1>1, <1>3 DEF At
  <2> QED
    BY <1>1, <2>1 DEF added
<1>10. passed' = c
  BY <1>2, <1>3 DEF At
<1>11. Progress'
  BY <1>1, <1>4, <1>6, <1>8, <1>9, <1>10 DEF Progress
<1> QED
  BY <1>2, <1>11 DEF WorkspaceInv

LEMMA GraphResolvedStep ==
    ASSUME WorkspaceInv, NEW a \in Answers, GraphResolved(a)
    PROVE  WorkspaceInv'
<1>1. /\ call = "graph" /\ Asking /\ ~Current.local /\ Frame /\ link' = link + 1
      /\ a.kind = "resolved" /\ a.target \in Known
      /\ graph' = addEdge(graph, GraphEdge(Source, Current, a.target, a.fragment))
      /\ Record(a) /\ documents' = documents /\ call' = call
      /\ start' = start /\ doc' = doc
  BY DEF GraphResolved, Advance, Frame, argVars
<1>2. Types' /\ Positions' /\ passed' = passed
  BY <1>1, Advanced
<1> DEFINE c == doc - 1
           r == Current
           e == EdgeTo(documents, documents[c + 1].key, r, a.target, a.fragment)
<1>3. At(c, r) /\ r = Current
  BY <1>1, AskingAt
<1> HIDE DEF c, r
<1>4. /\ AreDocuments(documents)
      /\ IsGraphOf(documents, answers, graph, c, OwnIn(documents, answers, c + 1, link - 1))
      /\ start = Len(PastIn(documents, answers, c))
  BY <1>1, <1>3 DEF WorkspaceInv, Types, Progress, added, At
<1>5. a \in GoodAnswers(documents)
  BY <1>1, <1>3 DEF GoodAnswers, At
<1>6. /\ answers' \in Seq(Answered) /\ IsAsked(documents, answers', c, link + 1)
      /\ PastIn(documents, answers', c) = PastIn(documents, answers, c)
  BY <1>1, <1>3, <1>5, AnswerLearned
<1>7. GraphEdge(Source, Current, a.target, a.fragment) = e
  BY <1>3 DEF GraphEdge, EdgeTo, TextOf, At
<1>8. EdgeOf(documents, documents[c + 1].key, r, a) = <<e>>
  BY <1>1, <1>3 DEF EdgeOf
<1>9. e \in EdgeSet(documents)
  <2>1. a.fragment \in Fragments \cup {NoFragment}
    BY DEF Answers, Answer
  <2>2. documents[c + 1].key \in KnownIn(documents) /\ r \in Relationships
        /\ a.target \in KnownIn(documents)
    BY <1>1, <1>3, <1>4, RelIs DEF At
  <2> QED
    BY <2>1, <2>2 DEF EdgeSet
<1> HIDE DEF e
<1>10. /\ OwnIn(documents, answers, c + 1, link - 1) \in Seq(EdgeSet(documents))
       /\ PastIn(documents, answers, c) \in Seq(EdgeSet(documents))
  BY <1>1, <1>3, AddedIs
<1>11. Appended(OwnIn(documents, answers', c + 1, link),
                OwnIn(documents, answers, c + 1, link - 1), e)
  <2>1. OwnIn(documents, answers', c + 1, link)
          = OwnIn(documents, answers, c + 1, link - 1) \o <<e>>
    BY <1>1, <1>3, <1>5, <1>8, OwnGrows
  <2> DEFINE o == OwnIn(documents, answers, c + 1, link - 1)
             E == EdgeSet(documents)
  <2>2. o \in Seq(E) /\ e \in E
    BY <1>9, <1>10
  <2> HIDE DEF o, E
  <2>3. o \o <<e>> = Append(o, e)
    BY <2>2
  <2> QED
    BY <2>1, <2>3, Zenon DEF Appended, o
<1>12. IsGraphOf(documents, answers, graph', c, OwnIn(documents, answers', c + 1, link))
  <2>1. graph' = addEdge(graph, e)
    BY <1>1, <1>7
  <2> QED
    BY <1>4, <1>9, <1>10, <1>11, <2>1, GraphAdds
<1>13. IsGraphOf(documents, answers', graph', c, OwnIn(documents, answers', c + 1, link))
  BY <1>6, <1>12, GraphStays
<1>14. added' = OwnIn(documents, answers', c + 1, link)
  <2>1. link' - 1 = link /\ doc = c + 1
    BY <1>1, <1>3 DEF At
  <2> QED
    BY <1>1, <2>1 DEF added
<1>15. passed' = c
  BY <1>2, <1>3 DEF At
<1>16. Progress'
  BY <1>1, <1>4, <1>6, <1>13, <1>14, <1>15 DEF Progress
<1> QED
  BY <1>2, <1>16 DEF WorkspaceInv

(***************************************************************************)
(* A relationship of a workspace under validation: the graph stays as it   *)
(* is, the resolutions are put aside.                                      *)
(***************************************************************************)
LEMMA ScanLocalStep == WorkspaceInv /\ ScanLocal => WorkspaceInv'
<1> SUFFICES ASSUME WorkspaceInv, ScanLocal PROVE WorkspaceInv'
  OBVIOUS
<1>1. /\ call = "validate" /\ Asking /\ Current.local /\ Frame /\ link' = link + 1
      /\ resolved' = resolved /\ answers' = answers /\ documents' = documents /\ call' = call
      /\ start' = start /\ doc' = doc /\ graph' = graph
  BY DEF ScanLocal, Advance, Frame, argVars
<1>2. Types' /\ Positions' /\ passed' = passed
  BY <1>1, Advanced
<1> DEFINE c == doc - 1
           r == Current
<1>3. At(c, r) /\ r = Current
  BY <1>1, AskingAt
<1> HIDE DEF c, r
<1>4. /\ AreDocuments(documents) /\ answers \in Seq(Answered) /\ IsAsked(documents, answers, c, link)
      /\ IsGraphOf(documents, answers, graph, c, << >>)
      /\ start = Len(PastIn(documents, answers, c))
      /\ IsResolved(documents, answers, resolved, doc)
  BY <1>1, <1>3 DEF WorkspaceInv, Types, Progress, added, At
<1>5. IsAsked(documents, answers, c, link + 1)
  BY <1>1, <1>3, <1>4, LocalPassed DEF At
<1>6. added' = << >> /\ passed' = c
  BY <1>1, <1>2, <1>3 DEF added, At
<1>7. Progress'
  BY <1>1, <1>4, <1>5, <1>6 DEF Progress
<1> QED
  BY <1>2, <1>7 DEF WorkspaceInv

LEMMA AcceptedStep ==
    ASSUME WorkspaceInv, call = "validate", Asking, ~Current.local, Frame, link' = link + 1,
           graph' = graph, start' = start, NEW a \in GoodAnswers(documents), Record(a),
           IsResolved(documents, answers', resolved', doc)
    PROVE  WorkspaceInv'
<1>1. documents' = documents /\ call' = call /\ doc' = doc
  BY DEF Frame
<1>2. Types' /\ Positions' /\ passed' = passed
  BY Advanced
<1> DEFINE c == doc - 1
           r == Current
<1>3. At(c, r) /\ r = Current
  BY AskingAt
<1> HIDE DEF c, r
<1>4. /\ IsGraphOf(documents, answers, graph, c, << >>)
      /\ start = Len(PastIn(documents, answers, c))
  BY <1>1, <1>3 DEF WorkspaceInv, Progress, added, At
<1>5. /\ answers' \in Seq(Answered) /\ IsAsked(documents, answers', c, link + 1)
      /\ PastIn(documents, answers', c) = PastIn(documents, answers, c)
  BY <1>3, AnswerLearned
<1>6. IsGraphOf(documents, answers', graph', c, << >>)
  BY <1>4, <1>5, GraphStays
<1>7. added' = << >> /\ passed' = c
  BY <1>1, <1>2, <1>3 DEF added, At
<1>8. Progress'
  BY <1>1, <1>4, <1>5, <1>6, <1>7 DEF Progress
<1> QED
  BY <1>2, <1>8 DEF WorkspaceInv

LEMMA NotResolvedStep ==
    ASSUME WorkspaceInv, call = "validate", Asking, ~Current.local, Frame, link' = link + 1,
           graph' = graph, start' = start, resolved' = resolved,
           NEW a \in GoodAnswers(documents), a.kind # "resolved", Record(a)
    PROVE  WorkspaceInv'
<1> DEFINE c == doc - 1
           r == Current
<1>1. At(c, r) /\ r = Current
  BY AskingAt
<1> HIDE DEF c, r
<1>2. doc = c + 1 /\ link \in DOMAIN Rel(documents, doc) /\ doc \in DOMAIN documents
  BY <1>1 DEF At
<1>3. /\ AnsweredIn(answers, documents[doc].key, link) = {}
      /\ AnsweredIn(answers', documents[doc].key, link) = {a}
      /\ \A j : j # link => AnsweredIn(answers', documents[doc].key, j)
                              = AnsweredIn(answers, documents[doc].key, j)
  BY <1>1, <1>2, AnswerLearned
<1>4. IsResolved(documents, answers, resolved, doc)
  BY <1>2 DEF WorkspaceInv, Progress
<1>5. IsResolved(documents, answers', resolved', doc)
  BY <1>2, <1>3, <1>4, ResolutionSkipped
<1> QED
  BY <1>5, AcceptedStep

LEMMA acceptIgnoredStep ==
    ASSUME WorkspaceInv, NEW a \in Answers, acceptIgnored(a)
    PROVE  WorkspaceInv'
<1>1. a \in GoodAnswers(documents) /\ a.kind # "resolved"
  BY IgnoredIs DEF acceptIgnored
<1> QED
  BY <1>1, NotResolvedStep DEF acceptIgnored, Advance, Frame, argVars

LEMMA acceptMissingResolutionStep ==
    ASSUME WorkspaceInv, NEW a \in Answers, acceptMissingResolution(a)
    PROVE  WorkspaceInv'
<1>1. a \in GoodAnswers(documents) /\ a.kind # "resolved"
  BY DEF acceptMissingResolution, GoodAnswers
<1> QED
  BY <1>1, NotResolvedStep DEF acceptMissingResolution, Advance, Frame, argVars

LEMMA acceptResolvedResolutionStep ==
    ASSUME WorkspaceInv, NEW a \in Answers, acceptResolvedResolution(a)
    PROVE  WorkspaceInv'
<1>1. /\ call = "validate" /\ Asking /\ ~Current.local /\ Frame /\ link' = link + 1
      /\ graph' = graph /\ start' = start /\ Record(a)
      /\ a.kind = "resolved" /\ a.target \in Known
      /\ resolved' = Append(Kept(resolved, {m \in Members(resolved) :
                                              m.key # workspaceRelationshipKeyFor(Current)}),
                            [key |-> workspaceRelationshipKeyFor(Current), answer |-> a])
  BY DEF acceptResolvedResolution, Advance, Frame, argVars
<1> DEFINE c == doc - 1
           r == Current
<1>2. At(c, r) /\ r = Current
  BY <1>1, AskingAt
<1> HIDE DEF c, r
<1>3. /\ doc = c + 1 /\ link \in DOMAIN Rel(documents, doc) /\ doc \in DOMAIN documents
      /\ r = Rel(documents, doc)[link] /\ a \in GoodAnswers(documents)
      /\ AreDocuments(documents)
  BY <1>1, <1>2 DEF At, GoodAnswers, WorkspaceInv, Types
<1>4. /\ AnsweredIn(answers', documents[doc].key, link) = {a}
      /\ \A j : j # link => AnsweredIn(answers', documents[doc].key, j)
                              = AnsweredIn(answers, documents[doc].key, j)
  BY <1>1, <1>2, <1>3, AnswerLearned
<1>5. IsResolved(documents, answers, resolved, doc)
  BY <1>1, <1>3 DEF WorkspaceInv, Progress
<1>6. IsResolved(documents, answers', resolved', doc)
  <2> DEFINE key == workspaceRelationshipKeyFor(r)
  <2>1. key = workspaceRelationshipKeyFor(Rel(documents, doc)[link])
    BY <1>3
  <2>2. resolved' = Append(Kept(resolved, {m \in Members(resolved) : m.key # key}),
                           [key |-> key, answer |-> a])
    BY <1>1, <1>2
  <2> HIDE DEF key
  <2> QED
    BY <1>1, <1>3, <1>4, <1>5, <2>1, <2>2, ResolutionPut
<1> QED
  BY <1>1, <1>3, <1>6, AcceptedStep

(***************************************************************************)
(* The end of a document, and of a call.                                   *)
(***************************************************************************)
LEMMA EndDocumentStep == WorkspaceInv /\ EndDocument => WorkspaceInv'
<1> SUFFICES ASSUME WorkspaceInv, EndDocument PROVE WorkspaceInv'
  OBVIOUS
<1> DEFINE c == doc - 1
           i == c + 1
           n == Len(Rel(documents, i))
           o == OwnIn(documents, answers, i, n)
           g == IF call = "graph" THEN graph ELSE addEdges(graph, ResolvedEdges)
<1>1. /\ call # "none" /\ doc \in DOMAIN documents /\ link = Len(Links) + 1
      /\ graph' = closeSource(g, Source, start) /\ start' = Len(g.edges)
      /\ doc' = doc + 1 /\ link' = 1 /\ resolved' = << >>
      /\ UNCHANGED <<files, writes, call, documents, options, diagnostics, repairs, result,
                     answers>>
  BY DEF EndDocument, Running, argVars
<1>2. /\ AreDocuments(documents) /\ doc \in Nat /\ answers \in Seq(Answered)
      /\ call \in {"none", "graph", "validate"}
  BY DEF WorkspaceInv, Types, Positions, Progress
<1>3. /\ c \in Nat /\ i = doc /\ i \in DOMAIN documents /\ documents \in Seq(Snapshots)
      /\ passed = c /\ i = c + 1
  <2>1. documents \in Seq(Snapshots)
    BY <1>2 DEF AreDocuments
  <2> QED
    BY <1>1, <1>2, <2>1 DEF passed
<1>4. /\ Links = Rel(documents, i) /\ Source = documents[i].key /\ n \in Nat
      /\ DOMAIN Links = 1..n /\ link = n + 1
  BY <1>1, <1>2, <1>3, RelIs DEF Links, Rel, Source
<1> HIDE DEF c, n
<1>5. IsAsked(documents, answers, c, n + 1)
  BY <1>3, <1>4 DEF WorkspaceInv, Progress
<1>6. IsAsked(documents, answers, i, 1)
  BY <1>2, <1>3, <1>5, DocumentPassed DEF n
<1>7. /\ o \in Seq(EdgeSet(documents)) /\ PastIn(documents, answers, c) \in Seq(EdgeSet(documents))
  <2>1. c \in 0..Len(documents)
    BY <1>3
  <2>2. n \in 0..Len(Rel(documents, i)) /\ \A j \in 1..n : Done(i, j, c, n + 1)
    BY <1>3, <1>4 DEF Done, n
  <2> DEFINE F == From(EdgeSet(documents), documents[i].key)
             E == EdgeSet(documents)
  <2> HIDE DEF i
  <2>3. o \in Seq(F)
    BY <1>2, <1>3, <1>5, <2>2, OwnType
  <2>4. F \subseteq E
    BY DEF From
  <2> HIDE DEF F, E, o
  <2>5. o \in Seq(E)
    BY <2>3, <2>4
  <2>6. PastIn(documents, answers, c) \in Seq(EdgeSet(documents))
    BY <1>2, <1>5, <2>1, PastType
  <2> QED
    BY <2>5, <2>6 DEF E
<1>8. start = Len(PastIn(documents, answers, c))
  BY <1>1, <1>3 DEF WorkspaceInv, Progress
<1>9. IsGraphOf(documents, answers, g, c, o)
  <2>1. CASE call = "graph"
    <3>1. added = o
      <4>1. link - 1 = n
        BY <1>4
      <4> QED
        BY <1>3, <2>1, <4>1 DEF added
    <3> QED
      BY <1>3, <2>1, <3>1 DEF WorkspaceInv, Progress
  <2>2. CASE call = "validate"
    <3>1. IsResolved(documents, answers, resolved, i)
      BY <1>1, <1>3, <2>2 DEF WorkspaceInv, Progress
    <3>2. ASSUME NEW j \in DOMAIN Links
          PROVE  ResolvedEdge(Links[j]) = ResolvedEdgeIn(documents, resolved, i, j)
      <4>1. Links[j] = Rel(documents, i)[j] /\ Source = documents[i].key
        BY <1>4
      <4>2. \A x : Resolution(x) = ResolutionIn(resolved, x)
        BY DEF Resolution, ResolutionIn
      <4>3. \A x, t, f : GraphEdge(Source, x, t, f) = EdgeTo(documents, Source, x, t, f)
        BY DEF GraphEdge, EdgeTo, TextOf
      <4> HIDE DEF i
      <4> QED
        BY <4>1, <4>2, <4>3, ZenonT(40) DEF ResolvedEdge, ResolvedEdgeIn, localGraphEdge
    <3>3. ResolvedEdges = FlattenSeq([j \in DOMAIN Rel(documents, i) |->
                                        ResolvedEdgeIn(documents, resolved, i, j)])
      <4>1. [j \in DOMAIN Links |-> ResolvedEdge(Links[j])]
              = [j \in DOMAIN Rel(documents, i) |-> ResolvedEdgeIn(documents, resolved, i, j)]
        BY <1>4, <3>2
      <4> QED
        BY <4>1, Zenon DEF ResolvedEdges
    <3>4. ResolvedEdges = o
      BY <1>2, <1>3, <1>5, <3>1, <3>3, ResolvedEdgesAre DEF n
    <3>5. IsGraphOf(documents, answers, graph, c, << >>)
      BY <1>3, <2>2 DEF WorkspaceInv, Progress, added
    <3>6. g = addEdges(graph, o)
      BY <2>2, <3>4
    <3> HIDE DEF o, g
    <3> QED
      BY <1>7, <3>5, <3>6, GraphAddsAll
  <2> QED
    BY <1>1, <1>2, <2>1, <2>2
<1>10. /\ IsGraphOf(documents, answers, graph', i, << >>)
       /\ g.edges = PastIn(documents, answers, i)
  <2>1. graph' = closeSource(g, documents[i].key, Len(PastIn(documents, answers, c)))
    BY <1>1, <1>4, <1>8
  <2> HIDE DEF g
  <2> QED
    BY <1>2, <1>3, <1>6, <1>9, <2>1, GraphCloses DEF n
<1> HIDE DEF g, o
<1>11. passed' = i
  BY <1>1, <1>3 DEF passed
<1>12. added' = << >>
  BY <1>1, NonePast DEF added
<1>13. i + 1 \in DOMAIN documents => IsResolved(documents, answers, << >>, i + 1)
  BY <1>2, <1>3, <1>6, ResolvedStarts
<1>14. Types'
  BY <1>1 DEF WorkspaceInv, Types
<1>15. Positions'
  <2>1. doc + 1 \in Nat /\ doc + 1 \in 1..(Len(documents) + 1)
    BY <1>1, <1>2, <1>3
  <2>2. doc + 1 \in DOMAIN documents => 1 \in 1..(Len(Rel(documents, doc + 1)) + 1)
    BY <1>2, RelIs
  <2> QED
    BY <1>1, <2>1, <2>2 DEF Positions
<1>16. Progress'
  BY <1>1, <1>2, <1>3, <1>6, <1>10, <1>11, <1>12, <1>13 DEF Progress
<1> QED
  BY <1>14, <1>15, <1>16 DEF WorkspaceInv

LEMMA Finished ==
    ASSUME WorkspaceInv, call # "none", doc = Len(documents) + 1, call' = "none",
           result' \in {"graph", "report"},
           repairs' = IF result' = "report" THEN RepairsIn(documents, options) ELSE << >>,
           doc' = 1, link' = link,
           UNCHANGED <<files, writes, documents, options, graph, answers>>
    PROVE  WorkspaceInv'
<1>1. /\ AreDocuments(documents) /\ link \in Nat /\ (doc \notin DOMAIN documents => link = 1)
  BY DEF WorkspaceInv, Types, Positions
<1>2. Len(documents) \in Nat /\ DOMAIN documents = 1..Len(documents)
  BY <1>1 DEF AreDocuments
<1>3. link = 1 /\ passed = Len(documents) /\ passed' = Len(documents)
  BY <1>1, <1>2 DEF passed
<1>4. added = << >> /\ added' = << >>
  BY <1>3, NonePast DEF added
<1>5. Types'
  BY DEF WorkspaceInv, Types
<1>6. Positions'
  <2>1. \A i \in DOMAIN documents : 1 \in 1..(Len(Rel(documents, i)) + 1)
    BY <1>1, RelIs
  <2> QED
    BY <1>3, <2>1 DEF Positions
<1>7. Progress'
  BY <1>3, <1>4 DEF WorkspaceInv, Progress
<1> QED
  BY <1>5, <1>6, <1>7 DEF WorkspaceInv

LEMMA EndGraphStep == WorkspaceInv /\ EndGraph => WorkspaceInv'
<1> SUFFICES ASSUME WorkspaceInv, EndGraph PROVE WorkspaceInv'
  OBVIOUS
<1>1. repairs = << >>
  BY DEF WorkspaceInv, Types, EndGraph
<1> QED
  BY <1>1, Finished DEF EndGraph, argVars

LEMMA PlanIs == prepareManagedTOCRepairs = RepairsIn(documents, options)
<1>1. StaleTargets = TargetsIn(documents, options)
  BY DEF StaleTargets, TargetsIn, TextOf
<1> QED
  BY <1>1 DEF prepareManagedTOCRepairs, RepairsIn, TextOf

LEMMA ReportStep == WorkspaceInv /\ Report => WorkspaceInv'
<1> SUFFICES ASSUME WorkspaceInv, Report PROVE WorkspaceInv'
  OBVIOUS
<1> QED
  BY PlanIs, Finished DEF Report, argVars

LEMMA SyncedType ==
    ASSUME NEW t \in ParsedTexts, NEW headings
    PROVE  SyncTOCs(t, headings) \in ParsedTexts
<1> DEFINE tables == [h \in DOMAIN t.tables |-> IF h \in headings THEN t.headings ELSE t.tables[h]]
           W == Seq(Names) \cup {NoTable}
<1>1. /\ t.headings \in Seq(Names) /\ t.tables \in Seq(W) /\ Len(t.tables) = Len(t.headings)
      /\ t.ids \in Seq(Names) /\ t.links \in Seq([local : BOOLEAN, to : Names])
      /\ t.unresolved \in Nat
  BY DEF ParsedTexts
<1>2. t.headings \in W
  BY <1>1
<1>3. tables \in Seq(W) /\ Len(tables) = Len(t.tables)
  <2> DEFINE s == t.tables
  <2>1. s \in Seq(W)
    BY <1>1
  <2> HIDE DEF s, W
  <2>2. [h \in DOMAIN s |-> IF h \in headings THEN t.headings ELSE s[h]] \in Seq(W)
        /\ Len([h \in DOMAIN s |-> IF h \in headings THEN t.headings ELSE s[h]]) = Len(s)
    BY <1>2, <2>1
  <2> QED
    BY <2>2 DEF s
<1>4. SyncTOCs(t, headings) = [t EXCEPT !.tables = tables]
  BY DEF SyncTOCs
<1> HIDE DEF tables
<1>5. [t EXCEPT !.tables = tables] \in ParsedTexts
  <2>1. t \in [headings : Seq(Names), ids : Seq(Names),
               links : Seq([local : BOOLEAN, to : Names]),
               tables : Seq(Seq(Names) \cup {NoTable}), unresolved : Nat]
    BY DEF ParsedTexts
  <2> DEFINE u == [t EXCEPT !.tables = tables]
  <2>2. u \in [headings : Seq(Names), ids : Seq(Names),
               links : Seq([local : BOOLEAN, to : Names]),
               tables : Seq(Seq(Names) \cup {NoTable}), unresolved : Nat]
    BY <1>3, <2>1
  <2>3. u.tables = tables /\ u.headings = t.headings
    BY <2>1
  <2> HIDE DEF u
  <2>4. Len(u.tables) = Len(u.headings)
    BY <1>1, <1>3, <2>3
  <2> QED
    BY <2>2, <2>4 DEF ParsedTexts, u
<1> QED
  BY <1>4, <1>5

LEMMA FilesStep ==
    ASSUME WorkspaceInv, files' \in [Keys -> ParsedTexts], writes' \in Nat,
           UNCHANGED <<call, argVars, doc, link, start, resolved, graph, repairs, result, answers>>
    PROVE  WorkspaceInv'
<1>1. Types'
  BY DEF WorkspaceInv, Types, argVars
<1>2. Positions'
  BY DEF WorkspaceInv, Positions, argVars
<1>3. passed' = passed /\ added' = added
  BY DEF passed, added, argVars
<1>4. Progress'
  BY <1>3 DEF WorkspaceInv, Progress, argVars
<1> QED
  BY <1>1, <1>2, <1>4 DEF WorkspaceInv

LEMMA ApplyRepairStep ==
    ASSUME WorkspaceInv, NEW repair, ApplyRepair(repair)
    PROVE  WorkspaceInv'
<1>1. files \in [Keys -> ParsedTexts] /\ writes \in Nat
  BY DEF WorkspaceInv, Types
<1>2. files' = [files EXCEPT ![repair.document] = SyncTOCs(files[repair.document], repair.headings)]
  BY DEF ApplyRepair
<1>3. files' \in [Keys -> ParsedTexts]
  BY <1>1, <1>2, SyncedType
<1> QED
  BY <1>1, <1>3, FilesStep DEF ApplyRepair

LEMMA WriteStep ==
    ASSUME WorkspaceInv, NEW key \in Keys, NEW text \in Writes, Write(key, text)
    PROVE  WorkspaceInv'
<1>1. files \in [Keys -> ParsedTexts] /\ writes \in Nat
  BY DEF WorkspaceInv, Types
<1>2. text \in ParsedTexts
  BY KeyAssumption, TextAssumption
<1>3. files' \in [Keys -> ParsedTexts] /\ writes' \in Nat
  BY <1>1, <1>2 DEF Write
<1> QED
  BY <1>3, FilesStep DEF Write

LEMMA WorkspaceStep == WorkspaceInv /\ [Next]_vars => WorkspaceInv'
<1> SUFFICES ASSUME WorkspaceInv, [Next]_vars PROVE WorkspaceInv'
  OBVIOUS
<1>1. CASE \E keys \in DocumentLists : BuildDocumentGraph(keys)
  BY <1>1, BuildDocumentGraphStep
<1>2. CASE \E keys \in DocumentLists, roots \in RootLists, managed \in ManagedLists :
              ValidateWorkspace(keys, roots, managed) \/ Refuse(keys, roots, managed)
  BY <1>2, ValidateWorkspaceStep, RefuseStep
<1>3. CASE GraphLocal \/ GraphSkip \/ ScanLocal
  BY <1>3, GraphLocalStep, GraphSkipStep, ScanLocalStep
<1>4. CASE \E a \in Answers :
              \/ GraphResolved(a) \/ GraphRejects(a) \/ acceptIgnored(a)
              \/ acceptMissingResolution(a) \/ acceptResolvedResolution(a)
              \/ rejectResolution(a)
  <2> SUFFICES ASSUME NEW a \in Answers,
                      \/ GraphResolved(a) \/ GraphRejects(a) \/ acceptIgnored(a)
                      \/ acceptMissingResolution(a) \/ acceptResolvedResolution(a)
                      \/ rejectResolution(a)
               PROVE  WorkspaceInv'
    BY <1>4
  <2>1. CASE GraphRejects(a) \/ rejectResolution(a)
    BY <2>1, FailStep DEF GraphRejects, rejectResolution
  <2> QED
    BY <2>1, GraphResolvedStep, acceptIgnoredStep, acceptMissingResolutionStep,
       acceptResolvedResolutionStep
<1>5. CASE EndDocument \/ EndGraph \/ Report \/ ReportFails
  BY <1>5, EndDocumentStep, EndGraphStep, ReportStep, FailStep DEF ReportFails
<1>6. CASE \E i \in DOMAIN repairs : ApplyRepair(repairs[i])
  BY <1>6, ApplyRepairStep
<1>7. CASE \E key \in Keys, text \in Writes : Write(key, text)
  BY <1>7, WriteStep
<1>8. CASE UNCHANGED vars
  <2>1. files' \in [Keys -> ParsedTexts] /\ writes' \in Nat
    BY <1>8 DEF vars, WorkspaceInv, Types
  <2> QED
    BY <1>8, <2>1, FilesStep DEF vars
<1> QED
  BY <1>1, <1>2, <1>3, <1>4, <1>5, <1>6, <1>7, <1>8 DEF Next

LEMMA WorkspaceInvHolds == Spec => []WorkspaceInv
<1> QED
  BY WorkspaceStarts, WorkspaceStep, PTL DEF Spec

-----------------------------------------------------------------------------
(***************************************************************************)
(* When a call has ended.                                                  *)
(***************************************************************************)
Ended == result \in {"graph", "report"}

LEMMA EndedIs ==
    ASSUME WorkspaceInv, Ended
    PROVE  /\ AreDocuments(documents) /\ AreOptions(documents, options)
           /\ IsAsked(documents, answers, Len(documents), link)
           /\ IsGraphOf(documents, answers, graph, Len(documents), << >>)
           /\ Len(documents) \in Nat /\ DOMAIN documents = 1..Len(documents)
<1>1. call = "none"
  BY DEF WorkspaceInv, Types, Ended
<1>2. passed = Len(documents) /\ added = << >>
  BY <1>1 DEF passed, added
<1> QED
  BY <1>2, KeysOfIs DEF WorkspaceInv, Types, Progress

LEMMA KnownIs == Known = KnownIn(documents)
BY DEF Known, KnownIn

LEMMA AnsweredToIs ==
    ASSUME NEW source, NEW offset
    PROVE  /\ AskedAbout(source, offset) = Asked(answers, source, offset)
           /\ AnsweredTo(source, offset) = AnsweredIn(answers, source, offset)
BY DEF AskedAbout, Asked, AnsweredTo, AnsweredIn

LEMMA AskedOnceHolds ==
    ASSUME WorkspaceInv, Ended
    PROVE  AskedOnce
<1>1. /\ AreDocuments(documents) /\ IsAsked(documents, answers, Len(documents), link)
      /\ Len(documents) \in Nat /\ DOMAIN documents = 1..Len(documents)
  BY EndedIs
<1> SUFFICES ASSUME NEW i \in DOMAIN documents, NEW j \in DOMAIN Rel(documents, i)
             PROVE  Cardinality(AskedAbout(documents[i].key, Rel(documents, i)[j].offset))
                        = IF Rel(documents, i)[j].local THEN 0 ELSE 1
  BY DEF AskedOnce, Rel, Members
<1>2. Rel(documents, i)[j].offset = j
  BY <1>1, RelIs
<1>3. Done(i, j, Len(documents), link)
  BY <1>1 DEF Done
<1>4. AskedAbout(documents[i].key, j) = Asked(answers, documents[i].key, j)
  BY AnsweredToIs
<1>5. CASE Rel(documents, i)[j].local
  <2>1. Asked(answers, documents[i].key, j) = {}
    BY <1>1, <1>5 DEF IsAsked
  <2> QED
    BY <1>2, <1>4, <1>5, <2>1, FS_EmptySet
<1>6. CASE ~Rel(documents, i)[j].local
  <2>1. PICK x : Asked(answers, documents[i].key, j) = {x}
    BY <1>1, <1>3, <1>6 DEF IsAsked, OneAnswer
  <2> QED
    BY <1>2, <1>4, <1>6, <2>1, FS_Singleton
<1> QED
  BY <1>5, <1>6

LEMMA EdgesForIs ==
    ASSUME AreDocuments(documents), NEW i \in DOMAIN documents
    PROVE  EdgesFor(documents[i]) = OwnIn(documents, answers, i, Len(Rel(documents, i)))
<1> DEFINE key == documents[i].key
           rel == Rel(documents, i)
<1>1. /\ DOMAIN rel = 1..Len(rel) /\ \A j \in DOMAIN rel : rel[j].offset = j
  BY RelIs
<1>2. ASSUME NEW j \in DOMAIN rel
      PROVE  EdgeFor(key, rel[j]) = EdgeIn(documents, answers, i, j)
  <2>1. AnsweredTo(key, rel[j].offset) = AnsweredIn(answers, key, j)
    BY <1>1, AnsweredToIs
  <2>2. EdgeFor(key, rel[j]) = EdgeOf(documents, key, rel[j], TheOnly(AnsweredTo(key, rel[j].offset)))
    BY DEF EdgeFor, EdgeOf, localGraphEdge, GraphEdge, EdgeTo, TextOf
  <2> QED
    BY <2>1, <2>2 DEF EdgeIn
<1>3. EdgesFor(documents[i]) = FlattenSeq([j \in DOMAIN rel |-> EdgeFor(key, rel[j])])
  BY DEF EdgesFor, Rel
<1> QED
  BY <1>1, <1>2, <1>3 DEF OwnIn

\* Of the edges of a set, those Kept by where they lead are those of the edges there are.
LEMMA KeptAmong ==
    ASSUME NEW Edge, NEW s \in Seq(Edge), NEW k
    PROVE  /\ Kept(s, From(Edge, k)) = Kept(s, {e \in Members(s) : e.source = k})
           /\ Kept(s, To(Edge, k)) = Kept(s, {e \in Members(s) : e.target = k})
<1>1. \A i \in DOMAIN s : s[i] \in Edge /\ s[i] \in Members(s)
  BY DEF Members
<1>2. Kept(s, From(Edge, k)) = Kept(s, {e \in Members(s) : e.source = k})
  BY <1>1, KeptAgree DEF From
<1>3. Kept(s, To(Edge, k)) = Kept(s, {e \in Members(s) : e.target = k})
  BY <1>1, KeptAgree DEF To
<1> QED
  BY <1>2, <1>3

\* The graph of a call that has ended.
LEMMA GraphIs ==
    ASSUME WorkspaceInv, Ended
    PROVE  /\ graph \in Graphs(Known, EdgeSet(documents)) /\ graph.keys = KeysOf(documents)
           /\ graph.edges = PastIn(documents, answers, Len(documents))
           /\ graph.edges \in Seq(EdgeSet(documents))
           /\ \A k \in Known :
                 /\ graph.outgoing[k].end <= Len(graph.edges)
                 /\ outgoingEdges(graph, k) = Kept(graph.edges, From(EdgeSet(documents), k))
                 /\ Backlinks(graph, k) = Kept(graph.edges, To(EdgeSet(documents), k))
                 /\ \A i \in DOMAIN graph.backlinks[k] : graph.backlinks[k][i] \in 1..Len(graph.edges)
<1> DEFINE past == PastIn(documents, answers, Len(documents))
           E == EdgeSet(documents)
<1>1. IsGraphOf(documents, answers, graph, Len(documents), << >>)
      /\ DOMAIN documents = 1..Len(documents)
  BY EndedIs
<1>2. graph.edges \in Seq(E) /\ graph \in Graphs(Known, E) /\ graph.keys = KeysOf(documents)
  BY <1>1, KnownIs DEF IsGraphOf, Graphs
<1>3. past \in Seq(E)
  BY EndedIs, PastType
<1>4. graph.edges = past
  <2>1. graph.edges = past \o << >>
    BY <1>1 DEF IsGraphOf, Joined
  <2> HIDE DEF past
  <2>2. past \o << >> = past
    BY <1>3
  <2> QED
    BY <2>1, <2>2, Zenon
<1>5. ASSUME NEW k \in Known
      PROVE  /\ graph.outgoing[k].end <= Len(past)
             /\ SubSeq(past, graph.outgoing[k].start + 1, graph.outgoing[k].end)
                    = Kept(past, From(E, k))
  <2>1. k \in Closed(documents, Len(documents)) /\ k \in KnownIn(documents)
    BY <1>1 DEF Known, Closed, KnownIn
  <2> QED
    BY <1>1, <2>1 DEF IsGraphOf, OutgoingExact
<1>6. ASSUME NEW k \in Known
      PROVE  /\ Backlinks(graph, k) = Kept(graph.edges, To(E, k))
             /\ \A i \in DOMAIN graph.backlinks[k] : graph.backlinks[k][i] \in 1..Len(graph.edges)
  BY <1>1, KnownIs DEF IsGraphOf, BacklinksExact
<1> HIDE DEF past, E
<1>7. \A k \in Known : /\ graph.outgoing[k].end <= Len(graph.edges)
                       /\ outgoingEdges(graph, k) = Kept(graph.edges, From(E, k))
  BY <1>4, <1>5 DEF outgoingEdges
<1> QED
  BY <1>2, <1>4, <1>6, <1>7 DEF past, E

LEMMA GraphIsExact == WorkspaceInv => GraphExact
<1> SUFFICES ASSUME WorkspaceInv, Ended
             PROVE  /\ AskedOnce
                    /\ graph.edges = FlattenSeq([i \in DOMAIN documents |-> EdgesFor(documents[i])])
                    /\ \A k \in Known :
                          /\ outgoingEdges(graph, k)
                                = Kept(graph.edges, {e \in Members(graph.edges) : e.source = k})
                          /\ Backlinks(graph, k)
                                = Kept(graph.edges, {e \in Members(graph.edges) : e.target = k})
  BY DEF GraphExact, Ended
<1>1. AreDocuments(documents) /\ DOMAIN documents = 1..Len(documents)
  BY EndedIs
<1>2. PastIn(documents, answers, Len(documents))
        = FlattenSeq([i \in DOMAIN documents |-> EdgesFor(documents[i])])
  <2>1. [i \in DOMAIN documents |-> EdgesFor(documents[i])]
          = [i \in 1..Len(documents) |-> OwnIn(documents, answers, i, Len(Rel(documents, i)))]
    BY <1>1, EdgesForIs
  <2> QED
    BY <2>1 DEF PastIn
<1>3. graph.edges \in Seq(EdgeSet(documents))
      /\ graph.edges = PastIn(documents, answers, Len(documents))
  BY GraphIs
<1>4. ASSUME NEW k \in Known
      PROVE  /\ outgoingEdges(graph, k)
                   = Kept(graph.edges, {e \in Members(graph.edges) : e.source = k})
             /\ Backlinks(graph, k)
                   = Kept(graph.edges, {e \in Members(graph.edges) : e.target = k})
  <2> DEFINE s == graph.edges
             E == EdgeSet(documents)
  <2>1. s \in Seq(E) /\ outgoingEdges(graph, k) = Kept(s, From(E, k))
        /\ Backlinks(graph, k) = Kept(s, To(E, k))
    BY GraphIs
  <2> HIDE DEF s, E
  <2>2. /\ Kept(s, From(E, k)) = Kept(s, {e \in Members(s) : e.source = k})
        /\ Kept(s, To(E, k)) = Kept(s, {e \in Members(s) : e.target = k})
    BY <2>1, KeptAmong
  <2> QED
    BY <2>1, <2>2 DEF s
<1> QED
  BY <1>2, <1>3, <1>4, AskedOnceHolds

\* The graph of a call holds exactly the edges its links and the resolver's
\* answers call for, in their order, asks about each once, and both indexes
\* agree with the edges (appendRelationshipEdges, closeSource).
THEOREM GraphExactHolds == Spec => []GraphExact
<1> QED
  BY WorkspaceInvHolds, GraphIsExact, PTL

-----------------------------------------------------------------------------
(***************************************************************************)
(* The plan of repairs.                                                    *)
(***************************************************************************)
LEMMA RepairedIs ==
    ASSUME NEW t \in ParsedTexts, NEW headings, NEW h \in DOMAIN t.headings
    PROVE  Stale(SyncTOCs(t, headings), h) <=> h \notin headings /\ Stale(t, h)
<1> DEFINE u == SyncTOCs(t, headings)
<1>1. /\ t.headings \in Seq(Names) /\ t.tables \in Seq(Seq(Names) \cup {NoTable})
      /\ Len(t.tables) = Len(t.headings)
  BY DEF ParsedTexts
<1>2. h \in DOMAIN t.tables
  BY <1>1
<1>3. u.headings = t.headings
      /\ u.tables = [i \in DOMAIN t.tables |-> IF i \in headings THEN t.headings ELSE t.tables[i]]
  BY DEF SyncTOCs, ParsedTexts
<1> HIDE DEF u
<1>4. u.tables[h] = IF h \in headings THEN t.headings ELSE t.tables[h]
  BY <1>2, <1>3
<1> QED
  BY <1>3, <1>4 DEF Stale, u

Managed == [document : Known, heading : Nat]

LEMMA TextOfIs ==
    ASSUME WorkspaceInv, NEW k \in Known
    PROVE  TextOf(k) \in ParsedTexts
           /\ \E i \in DOMAIN documents : documents[i].key = k /\ TextOf(k) = documents[i].text
<1>1. AreDocuments(documents)
  BY DEF WorkspaceInv, Types
<1>2. PICK i \in DOMAIN documents : documents[i].key = k
  BY DEF Known
<1>3. TextOf(k) = documents[i].text
  BY <1>1, <1>2, TextInIs DEF TextOf
<1>4. documents[i].text \in ParsedTexts
  BY <1>1, RelIs
<1> QED
  BY <1>2, <1>3, <1>4

LEMMA TargetsAre ==
    ASSUME WorkspaceInv
    PROVE  /\ StaleTargets \in Seq(Managed)
           /\ \A m : m \in Members(StaleTargets)
                 <=> m \in Members(options.managed) /\ Stale(TextOf(m.document), m.heading)
           /\ \A m \in Members(options.managed) :
                 m \in Managed /\ m.heading \in DOMAIN TextOf(m.document).headings
<1> DEFINE S == {m \in Members(options.managed) : Stale(TextOf(m.document), m.heading)}
           s == options.managed
<1>1. /\ s \in Seq(Managed)
      /\ \A m \in Members(s) : m.heading \in DOMAIN TextOf(m.document).headings
  BY KnownIs DEF WorkspaceInv, Types, AreOptions, Managed, TextOf
<1>2. \A m \in Members(s) : m \in Managed
  BY <1>1, MembersIn
<1>3. StaleTargets = Kept(s, S)
  BY DEF StaleTargets
<1>4. S \subseteq Members(s) /\ \A m : m \in S <=> m \in Members(s) /\ Stale(TextOf(m.document), m.heading)
  OBVIOUS
<1> HIDE DEF s, S
<1>5. Kept(s, S) \in Seq(Managed) /\ Members(Kept(s, S)) = Members(s) \cap S
  BY <1>1, KeptIs
<1> QED
  BY <1>1, <1>2, <1>3, <1>4, <1>5 DEF s

LEMMA RepairsAre ==
    ASSUME WorkspaceInv, result = "report"
    PROVE  /\ \A r \in Members(repairs) :
                 /\ r.document \in Known /\ r.text = TextOf(r.document)
                 /\ r.headings = HeadingsOf(StaleTargets, r.document)
           /\ \A m \in Members(StaleTargets) :
                 \E r \in Members(repairs) : r.document = m.document
<1> DEFINE t == StaleTargets
           of == [i \in DOMAIN t |-> t[i].document]
           nil == << >>
           order == appendUnvisited(nil, of)
<1>1. repairs = [i \in DOMAIN order |->
                   [document |-> order[i], text |-> TextOf(order[i]),
                    headings |-> HeadingsOf(t, order[i])]]
  <2>1. repairs = RepairsIn(documents, options)
    BY DEF WorkspaceInv, Types
  <2> QED
    BY <2>1, PlanIs DEF prepareManagedTOCRepairs
<1>2. t \in Seq(Managed)
  BY TargetsAre
<1>3. of \in Seq(Known)
  <2> HIDE DEF t
  <2>1. \A i \in DOMAIN t : t[i] \in Managed
    BY <1>2
  <2>2. \A i \in DOMAIN t : t[i].document \in Known
    BY <2>1 DEF Managed
  <2> QED
    BY <1>2, <2>2
<1>4. nil \in Seq(Known)
  OBVIOUS
<1> HIDE DEF t, of, nil, order
<1>5. order \in Seq(Known) /\ Members(of) \subseteq Members(order)
  <2> DEFINE X == Seq(Known)
  <2>1. \A v \in X, k \in Members(of) : k \notin Members(v) => Append(v, k) \in X
    BY <1>3, MembersIn
  <2>2. X \in SUBSET Seq(Known) /\ nil \in X
    BY <1>4
  <2> HIDE DEF X
  <2>3. order \in X /\ Members(of) \subseteq Members(order)
    BY <1>3, <1>4, <2>1, <2>2, AppendUnvisitedKeeps DEF order
  <2> QED
    BY <2>3 DEF X
<1>6. \A i \in DOMAIN order : order[i] \in Known
  BY <1>5
<1>7. \A r \in Members(repairs) :
          /\ r.document \in Known /\ r.text = TextOf(r.document)
          /\ r.headings = HeadingsOf(StaleTargets, r.document)
  BY <1>1, <1>6 DEF Members, t
<1>8. ASSUME NEW m \in Members(t)
      PROVE  \E r \in Members(repairs) : r.document = m.document
  <2>1. PICK i \in DOMAIN t : t[i] = m
    BY DEF Members
  <2>2. m.document \in Members(of)
    BY <2>1 DEF Members, of
  <2>3. PICK n \in DOMAIN order : order[n] = m.document
    BY <1>5, <2>2 DEF Members
  <2>4. n \in DOMAIN repairs /\ repairs[n].document = m.document
    BY <1>1, <2>3
  <2> QED
    BY <2>4 DEF Members
<1> QED
  BY <1>7, <1>8 DEF t

LEMMA RepairsAreConverging == WorkspaceInv => RepairsConverge
<1> SUFFICES ASSUME WorkspaceInv, result = "report", NEW m \in Members(options.managed)
             PROVE  LET plan == {r \in Members(repairs) : r.document = m.document}
                        untouched == {TextOf(m.document)} \cup {Repaired(r) : r \in plan}
                    IN files[m.document] \in untouched =>
                          \/ ~Stale(files[m.document], m.heading)
                          \/ \E r \in plan : Applies(r) /\ ~Stale(Repaired(r), m.heading)
  BY DEF RepairsConverge
<1> DEFINE text == TextOf(m.document)
           plan == {r \in Members(repairs) : r.document = m.document}
<1>1. m.document \in Known /\ m.heading \in DOMAIN text.headings
  BY TargetsAre DEF Managed
<1>2. text \in ParsedTexts
  BY <1>1, TextOfIs
<1>3. ASSUME NEW r \in plan
      PROVE  r.text = text /\ (Stale(text, m.heading) => m.heading \in r.headings)
  <2>1. r.text = text /\ r.headings = HeadingsOf(StaleTargets, m.document)
    BY RepairsAre
  <2>2. Stale(text, m.heading) => m \in Members(StaleTargets)
    BY TargetsAre
  <2> QED
    BY <2>1, <2>2 DEF HeadingsOf
<1>4. ASSUME NEW r \in plan PROVE ~Stale(Repaired(r), m.heading)
  BY <1>1, <1>2, <1>3, RepairedIs DEF Repaired
<1>5. CASE files[m.document] = text /\ Stale(text, m.heading)
  <2>1. PICK r \in plan : TRUE
    BY <1>5, RepairsAre, TargetsAre
  <2>2. Applies(r)
    BY <1>3, <1>5 DEF Applies
  <2> QED
    BY <1>4, <2>2
<1>6. CASE files[m.document] \in {Repaired(r) : r \in plan}
  BY <1>4, <1>6
<1> QED
  BY <1>5, <1>6

\* As long as nobody else writes a document, every managed table in it is up to
\* date or one repair that still applies makes it so, whatever was applied
\* before (prepareManagedTOCRepairs plans one change for each document).
THEOREM RepairsConvergeHolds == Spec => []RepairsConverge
<1> QED
  BY WorkspaceInvHolds, RepairsAreConverging, PTL

-----------------------------------------------------------------------------
(***************************************************************************)
(* Where the edges of a graph lead to.                                     *)
(***************************************************************************)
LEMMA TargetsType ==
    ASSUME NEW K, NEW Edge, AreEdges(Edge, K), NEW s \in Seq(Edge)
    PROVE  Targets(s) \in Seq(K)
<1>1. \A i \in DOMAIN s : s[i].target \in K
  BY DEF AreEdges
<1>2. Len(s) \in Nat /\ DOMAIN s = 1..Len(s)
  OBVIOUS
<1> QED
  BY <1>1, <1>2 DEF Targets

\* What the indexes of a finished graph say.
Indexed(g, K, Edge) ==
    /\ g \in Graphs(K, Edge) /\ Members(g.keys) = K /\ AreEdges(Edge, K)
    /\ g.edges \in Seq(Edge)
    /\ \A k \in K : outgoingEdges(g, k) = Kept(g.edges, From(Edge, k))
    /\ \A k \in K : /\ Backlinks(g, k) = Kept(g.edges, To(Edge, k))
                    /\ \A i \in DOMAIN g.backlinks[k] : g.backlinks[k][i] \in 1..Len(g.edges)

LEMMA OutgoingType ==
    ASSUME NEW K, NEW Edge, NEW g, Indexed(g, K, Edge), NEW k \in K
    PROVE  /\ outgoingEdges(g, k) \in Seq(Edge)
           /\ Members(outgoingEdges(g, k)) = Members(g.edges) \cap From(Edge, k)
           /\ Targets(outgoingEdges(g, k)) \in Seq(K)
<1> DEFINE s == g.edges
           out == outgoingEdges(g, k)
<1>1. s \in Seq(Edge) /\ AreEdges(Edge, K) /\ out = Kept(s, From(Edge, k))
  BY DEF Indexed
<1> HIDE DEF s, out
<1>2. out \in Seq(Edge) /\ Members(out) = Members(s) \cap From(Edge, k)
  BY <1>1, KeptIs
<1>3. Targets(out) \in Seq(K)
  BY <1>1, <1>2, TargetsType
<1> QED
  BY <1>2, <1>3 DEF s, out

LEMMA SuccessorsType ==
    ASSUME NEW K, NEW Edge, NEW g, Indexed(g, K, Edge)
    PROVE  Successors(g) \in Lists(K)
<1>1. \A k \in K : Targets(outgoingEdges(g, k)) \in Seq(K)
  BY OutgoingType
<1>2. Members(g.keys) = K
  BY DEF Indexed
<1> QED
  BY <1>1, <1>2 DEF Successors, Lists

\* Documents an edge connects, in whatever direction, are related.
LEMMA RelatedIs ==
    ASSUME NEW K, NEW Edge, NEW g, Indexed(g, K, Edge), NEW j \in K, NEW k \in K
    PROVE  j \in markRelatedDocuments(g, k)
              <=> \E e \in Members(g.edges) : \/ e.source = k /\ e.target = j
                                              \/ e.target = k /\ e.source = j
<1> DEFINE s == g.edges
           out == outgoingEdges(g, k)
           b == g.backlinks[k]
           back == Backlinks(g, k)
<1>1. /\ s \in Seq(Edge) /\ back = Kept(s, To(Edge, k))
      /\ \A i \in DOMAIN b : b[i] \in 1..Len(s)
  BY DEF Indexed
<1>2. Members(out) = Members(s) \cap From(Edge, k)
  BY OutgoingType
<1>3. back = [i \in DOMAIN b |-> s[b[i]]]
  BY DEF Backlinks
<1>4. markRelatedDocuments(g, k) = Members(Targets(out)) \cup {s[i].source : i \in Members(b)}
  BY DEF markRelatedDocuments
<1> HIDE DEF s, out, b, back
<1>5. Members(back) = Members(s) \cap To(Edge, k)
  BY <1>1, KeptIs
<1>6. \A e \in Members(s) : e \in Edge
  BY <1>1, MembersIn
<1>7. Members(Targets(out)) = {e.target : e \in Members(out)}
  BY DEF Members, Targets
<1>8. {s[i].source : i \in Members(b)} = {e.source : e \in Members(back)}
  BY <1>3 DEF Members
<1>9. j \in Members(Targets(out)) <=> \E e \in Members(s) : e.source = k /\ e.target = j
  BY <1>2, <1>6, <1>7 DEF From
<1>10. j \in {s[i].source : i \in Members(b)} <=> \E e \in Members(s) : e.target = k /\ e.source = j
  BY <1>5, <1>6, <1>8 DEF To
<1> QED
  BY <1>4, <1>9, <1>10 DEF s

\* The related documents are those that an edge connects, in their order.
LEMMA JoinedToIs ==
    ASSUME NEW K, K = Known, NEW Edge, NEW g, Indexed(g, K, Edge), NEW k \in K
    PROVE  JoinedTo(g, k) = K \cap (markRelatedDocuments(g, k) \ {k})
<1>1. \A j \in K : j \in markRelatedDocuments(g, k)
                      <=> \E e \in Members(g.edges) : \/ e.source = k /\ e.target = j
                                                      \/ e.target = k /\ e.source = j
  BY RelatedIs
<1> QED
  BY <1>1 DEF JoinedTo

(***************************************************************************)
(* The references of the first n documents.                                *)
(***************************************************************************)
ReferenceEdges(K) == [source : K, target : K]

FirstOf(keys, n) == {keys[i] : i \in 1..n}

OwnReferences(k, targets) ==
    [i \in DOMAIN targets |-> [source |-> k, target |-> targets[i]]]

AreReferences(g, keys, K, n) ==
    /\ g \in Graphs(K, ReferenceEdges(K)) /\ g.keys = keys
    /\ BacklinksExact(g, K, ReferenceEdges(K))
    /\ OutgoingExact(g.outgoing, g.edges, FirstOf(keys, n), K, ReferenceEdges(K))
    /\ \A i \in 1..Len(g.edges) : g.edges[i].source \in FirstOf(keys, n)

LEMMA ReferencesStart ==
    ASSUME NEW K, NEW keys \in Seq(K), Members(keys) = K
    PROVE  AreReferences(newDocumentGraph(keys), keys, K, 0)
<1> DEFINE g == newDocumentGraph(keys)
           E == ReferenceEdges(K)
           nil == << >>
<1>1. g = [keys |-> keys, edges |-> nil, outgoing |-> [k \in K |-> NoEdges],
           backlinks |-> [k \in K |-> nil]]
  BY DEF newDocumentGraph
<1>2. nil \in Seq(E) /\ nil \in Seq(Nat) /\ Len(nil) = 0 /\ DOMAIN nil = {}
  OBVIOUS
<1>3. \A A : Kept(nil, A) = nil
  BY KeptNone
<1> HIDE DEF nil, g
<1>4. g \in Graphs(K, E) /\ g.keys = keys
  <2>1. [k \in K |-> NoEdges] \in [K -> [start : Nat, end : Nat]]
    BY DEF NoEdges
  <2>2. [k \in K |-> nil] \in [K -> Seq(Nat)]
    BY <1>2
  <2> HIDE DEF E
  <2> QED
    BY <1>1, <1>2, <2>1, <2>2 DEF Graphs
<1>5. BacklinksExact(g, K, E)
  <2> SUFFICES ASSUME NEW k \in K
               PROVE  /\ \A i \in DOMAIN g.backlinks[k] : g.backlinks[k][i] \in 1..Len(g.edges)
                      /\ Backlinks(g, k) = Kept(g.edges, To(E, k))
    BY DEF BacklinksExact
  <2>1. g.backlinks[k] = nil /\ g.edges = nil
    BY <1>1
  <2>2. Backlinks(g, k) = nil
    BY <1>2, <2>1 DEF Backlinks, nil
  <2> QED
    BY <1>2, <1>3, <2>1, <2>2
<1>6. \A k \in K : k \notin FirstOf(keys, 0) /\ g.outgoing[k] = NoEdges
  BY <1>1 DEF FirstOf
<1>7. OutgoingExact(g.outgoing, g.edges, FirstOf(keys, 0), K, E)
  BY <1>6, Zenon DEF OutgoingExact
<1>8. \A i \in 1..Len(g.edges) : g.edges[i].source \in FirstOf(keys, 0)
  BY <1>1, <1>2
<1> QED
  BY <1>4, <1>5, <1>7, <1>8 DEF AreReferences, g

Extends(f, g, own) == f.edges = g.edges \o own

LEMMA ReferencesAdded ==
    ASSUME NEW K, NEW keys \in Seq(K), Distinct(keys), NEW n \in Nat, NEW m, m = n + 1,
           m \in DOMAIN keys, NEW g, AreReferences(g, keys, K, n), NEW targets \in Seq(K),
           NEW f, f = addReferences(g, keys[m], targets)
    PROVE  AreReferences(f, keys, K, m) /\ Extends(f, g, OwnReferences(keys[m], targets))
<1> DEFINE E == ReferenceEdges(K)
           C == FirstOf(keys, n)
           c == keys[m]
           own == [i \in DOMAIN targets |-> [source |-> c, target |-> targets[i]]]
           past == g.edges
           h == addEdges(g, own)
<1>1. /\ g \in Graphs(K, E) /\ g.keys = keys /\ BacklinksExact(g, K, E)
      /\ OutgoingExact(g.outgoing, past, C, K, E) /\ past \in Seq(E)
      /\ \A i \in 1..Len(past) : past[i].source \in C
  BY DEF AreReferences, Graphs
<1>2. AreEdges(E, K)
  BY DEF AreEdges, ReferenceEdges
<1>3. /\ c \in K /\ C \in SUBSET K /\ c \notin C /\ FirstOf(keys, m) = C \cup {c}
  <2>1. \A i \in 1..n : i \in DOMAIN keys /\ i # m
    OBVIOUS
  <2>2. \A i \in 1..m : i \in 1..n \/ i = m
    OBVIOUS
  <2>3. m \in 1..m /\ \A i \in 1..n : i \in 1..m
    OBVIOUS
  <2> QED
    BY <2>1, <2>2, <2>3 DEF FirstOf, Distinct
<1>4. own \in Seq(From(E, c))
  <2>1. ASSUME NEW i \in DOMAIN targets
        PROVE  [source |-> c, target |-> targets[i]] \in From(E, c)
    BY <1>3 DEF From, ReferenceEdges
  <2>2. Len(targets) \in Nat /\ DOMAIN targets = 1..Len(targets)
    OBVIOUS
  <2> HIDE DEF E, c
  <2> QED
    BY <2>1, <2>2
<1>5. own \in Seq(E)
  <2>1. From(E, c) \subseteq E
    BY DEF From
  <2> HIDE DEF own, E, c
  <2> QED
    BY <1>4, <2>1
<1>6. f = closeSource(h, c, Len(past))
  BY DEF addReferences
<1> HIDE DEF E, C, c, own, past, h
<1>7. /\ h \in Graphs(K, E) /\ BacklinksExact(h, K, E)
      /\ h.edges = past \o own /\ h.keys = g.keys /\ h.outgoing = g.outgoing
  BY <1>1, <1>2, <1>5, AddEdgesIs DEF h, past
<1>8. /\ f \in Graphs(K, E)
      /\ f.edges = h.edges /\ f.keys = h.keys /\ f.backlinks = h.backlinks
      /\ OutgoingExact(f.outgoing, h.edges, C \cup {c}, K, E)
  BY ZenonT(40), <1>1, <1>2, <1>3, <1>4, <1>6, <1>7, CloseSourceIs
<1>9. BacklinksExact(f, K, E)
  BY <1>7, <1>8, Zenon DEF BacklinksExact, Backlinks
<1>10. \A i \in 1..Len(f.edges) : f.edges[i].source \in C \cup {c}
  <2>1. \A e \in Members(past) : e.source \in C \cup {c}
    BY <1>1 DEF Members
  <2>2. \A e \in Members(own) : e.source \in C \cup {c}
    BY <1>4 DEF Members, From
  <2>3. f.edges = past \o own
    BY <1>7, <1>8
  <2> DEFINE all == past \o own
  <2>4. Len(all) = Len(past) + Len(own) /\ Len(past) \in Nat /\ Len(own) \in Nat
        /\ (\A i \in 1..Len(past) : all[i] = past[i] /\ past[i] \in Members(past))
        /\ (\A i \in 1..Len(all) : i > Len(past) =>
               all[i] = own[i - Len(past)] /\ i - Len(past) \in 1..Len(own))
    BY <1>1, <1>5 DEF Members
  <2>5. \A i \in 1..Len(own) : own[i] \in Members(own)
    BY <1>5 DEF Members
  <2> HIDE DEF all
  <2>6. ASSUME NEW i \in 1..Len(all) PROVE all[i].source \in C \cup {c}
    <3>1. CASE i \in 1..Len(past)
      BY <2>1, <2>4, <3>1
    <3>2. CASE i > Len(past)
      <4> DEFINE d == i - Len(past)
      <4>1. all[i] = own[d] /\ d \in 1..Len(own)
        BY <2>4, <3>2
      <4> HIDE DEF d
      <4> QED
        BY <2>2, <2>5, <4>1
    <3> QED
      BY <2>4, <3>1, <3>2
  <2> QED
    BY <2>3, <2>6 DEF all
<1>11. OutgoingExact(f.outgoing, f.edges, FirstOf(keys, m), K, E)
  BY <1>3, <1>8, Zenon
<1>12. AreReferences(f, keys, K, m)
  BY <1>1, <1>3, <1>7, <1>8, <1>9, <1>10, <1>11 DEF AreReferences, E
<1>13. Extends(f, g, OwnReferences(keys[m], targets))
  <2>1. f.edges = g.edges \o OwnReferences(keys[m], targets)
    BY <1>7, <1>8, Zenon DEF OwnReferences, own, past, c
  <2> QED
    BY <2>1 DEF Extends
<1> QED
  BY <1>12, <1>13

(***************************************************************************)
(* The references of the first n documents, all together and one by one.   *)
(***************************************************************************)
Gathered(g, keys, refs, K, n) ==
    /\ g.edges = FlattenSeq([i \in 1..n |-> OwnReferences(keys[i], refs[i])])
    /\ \A i \in 1..n : Kept(g.edges, From(ReferenceEdges(K), keys[i]))
                          = OwnReferences(keys[i], refs[i])

LEMMA OwnReferencesType ==
    ASSUME NEW K, NEW k \in K, NEW targets \in Seq(K)
    PROVE  OwnReferences(k, targets) \in Seq(From(ReferenceEdges(K), k))
<1>1. ASSUME NEW i \in DOMAIN targets
      PROVE  [source |-> k, target |-> targets[i]] \in From(ReferenceEdges(K), k)
  BY DEF From, ReferenceEdges
<1>2. Len(targets) \in Nat /\ DOMAIN targets = 1..Len(targets)
  OBVIOUS
<1> QED
  BY <1>1, <1>2 DEF OwnReferences

LEMMA GatheredStart ==
    ASSUME NEW K, NEW keys, NEW refs
    PROVE  Gathered(newDocumentGraph(keys), keys, refs, K, 0)
<1>1. newDocumentGraph(keys).edges = << >>
  BY DEF newDocumentGraph
<1>2. [i \in 1..0 |-> OwnReferences(keys[i], refs[i])] = << >>
  <2>1. 1..0 = {}
    OBVIOUS
  <2> QED
    BY <2>1
<1> QED
  BY <1>1, <1>2, FlattenNone DEF Gathered

LEMMA GatheredNext ==
    ASSUME NEW K, NEW keys \in Seq(K), Distinct(keys), NEW n \in Nat, NEW m, m = n + 1,
           m \in DOMAIN keys, NEW g, AreReferences(g, keys, K, n), NEW refs,
           \A i \in 1..m : refs[i] \in Seq(K), Gathered(g, keys, refs, K, n),
           NEW f, f = addReferences(g, keys[m], refs[m])
    PROVE  Gathered(f, keys, refs, K, m)
<1> DEFINE E == ReferenceEdges(K)
           c == keys[m]
           of(i) == OwnReferences(keys[i], refs[i])
           own == of(m)
           past == g.edges
           s == [i \in 1..n |-> of(i)]
           t == [i \in 1..m |-> of(i)]
<1>1. /\ past \in Seq(E) /\ \A i \in 1..Len(past) : past[i].source \in FirstOf(keys, n)
  BY DEF AreReferences, Graphs
<1>2. \A i \in 1..m : i \in DOMAIN keys /\ keys[i] \in K
  OBVIOUS
<1>3. \A i \in 1..m : of(i) \in Seq(From(E, keys[i]))
  BY <1>2, OwnReferencesType
<1>4. m \in 1..m /\ (\A i \in 1..n : i \in 1..m /\ i # m) /\ \A i \in 1..m : i \in 1..n \/ i = m
  OBVIOUS
<1>5. \A k, z : z \in Seq(From(E, k)) => z \in Seq(E)
  <2> SUFFICES ASSUME NEW k, NEW z \in Seq(From(E, k)) PROVE z \in Seq(E)
    OBVIOUS
  <2>1. From(E, k) \subseteq E
    BY DEF From
  <2> HIDE DEF E
  <2> QED
    BY <2>1
<1>6. past = FlattenSeq(s) /\ \A i \in 1..n : Kept(past, From(E, keys[i])) = of(i)
  BY DEF Gathered
<1>10. f.edges = past \o own
  <2> DEFINE targets == refs[m]
  <2>1. targets \in Seq(K) /\ f = addReferences(g, keys[m], targets)
    BY <1>4
  <2> HIDE DEF targets
  <2>2. AreReferences(f, keys, K, m) /\ Extends(f, g, OwnReferences(keys[m], targets))
    BY <2>1, ReferencesAdded
  <2> QED
    BY <2>2 DEF Extends, past, own, of, targets
<1> HIDE DEF E, of, own, past
<1>7. f.edges = FlattenSeq(t)
  <2>1. t \in [1..(n + 1) -> Seq(E)] /\ s = [j \in 1..n |-> t[j]] /\ t[n + 1] = own
    BY <1>3, <1>4, <1>5 DEF own
  <2> HIDE DEF s, t
  <2>2. FlattenSeq(t) = FlattenSeq(s) \o t[n + 1]
    BY <2>1, FlattenNext
  <2> QED
    BY <1>6, <1>10, <2>1, <2>2
<1>8. own \in Seq(E) /\ own \in Seq(From(E, c))
  BY <1>3, <1>4, <1>5 DEF own
<1>9. ASSUME NEW i \in 1..m PROVE Kept(past \o own, From(E, keys[i])) = of(i)
  <2> DEFINE A == From(E, keys[i])
  <2>1. Kept(past \o own, A) = Kept(past, A) \o Kept(own, A)
    BY <1>1, <1>8, KeptConcat
  <2>2. CASE i = m
    <3> DEFINE V == {e \in E : e.source \in FirstOf(keys, n)}
    <3>1. past \in Seq(V)
      <4>1. \A j \in 1..Len(past) : past[j] \in V
        BY <1>1
      <4> HIDE DEF V
      <4> QED
        BY <1>1, <4>1
    <3>2. c \notin FirstOf(keys, n)
      BY <1>2, <1>4 DEF FirstOf, Distinct
    <3>3. V \cap A = {}
      BY <2>2, <3>2 DEF From
    <3> HIDE DEF V
    <3>4. Kept(past, A) = << >>
      BY <3>1, <3>3, KeptNothing
    <3>5. Kept(own, A) = own
      <4>1. A \subseteq A /\ own \in Seq(A)
        BY <1>8, <2>2
      <4> HIDE DEF A
      <4> QED
        BY <4>1, KeptAll
    <3>6. << >> \o own = own
      BY <1>8
    <3> HIDE DEF A
    <3> QED
      BY <2>1, <2>2, <3>4, <3>5, <3>6, Zenon DEF own, A
  <2>3. CASE i \in 1..n
    <3>1. keys[i] # c
      BY <1>2, <1>4, <2>3 DEF Distinct
    <3>2. From(E, c) \cap A = {}
      BY <3>1 DEF From
    <3>3. Kept(own, A) = << >>
      BY <1>8, <3>2, KeptNothing
    <3>4. Kept(past, A) = of(i) /\ of(i) \in Seq(E)
      BY <1>3, <1>5, <1>6, <2>3
    <3> DEFINE o == of(i)
    <3> HIDE DEF A, o
    <3>5. o \o << >> = o
      BY <3>4 DEF o
    <3> QED
      BY <2>1, <3>3, <3>4, <3>5, Zenon DEF o, A
  <2> QED
    BY <1>4, <2>2, <2>3
<1> QED
  BY <1>7, <1>9, <1>10 DEF Gathered, E, of, t, own

LEMMA ReferencesIndexed ==
    ASSUME NEW K, NEW keys \in Seq(K), Members(keys) = K, NEW g,
           AreReferences(g, keys, K, Len(keys))
    PROVE  Indexed(g, K, ReferenceEdges(K))
<1> DEFINE E == ReferenceEdges(K)
<1>1. AreEdges(E, K)
  BY DEF AreEdges, ReferenceEdges
<1>2. \A k \in K : k \in FirstOf(keys, Len(keys))
  BY DEF FirstOf, Members
<1>3. \A k \in K : outgoingEdges(g, k) = Kept(g.edges, From(E, k))
  BY <1>2 DEF AreReferences, OutgoingExact, outgoingEdges
<1> QED
  BY <1>1, <1>3 DEF AreReferences, BacklinksExact, Indexed, Graphs

-----------------------------------------------------------------------------
(***************************************************************************)
(* Parts of a sequence without repetitions.                                *)
(***************************************************************************)
LEMMA ConcatDistinct ==
    ASSUME NEW V, NEW s \in Seq(V), NEW t \in Seq(V)
    PROVE  /\ Members(s \o t) = Members(s) \cup Members(t)
           /\ Distinct(s \o t) => Distinct(s) /\ Members(s) \cap Members(t) = {}
<1> DEFINE u == s \o t
           m == Len(s)
           n == Len(t)
<1>1. /\ DOMAIN s = 1..m /\ DOMAIN t = 1..n /\ DOMAIN u = 1..(m + n) /\ m \in Nat /\ n \in Nat
      /\ \A i \in 1..m : u[i] = s[i]
      /\ \A i \in 1..(m + n) : i > m => u[i] = t[i - m]
  OBVIOUS
<1> HIDE DEF u
<1>2. \A i \in 1..n : m + i \in 1..(m + n) /\ u[m + i] = t[i]
  <2> SUFFICES ASSUME NEW i \in 1..n PROVE m + i \in 1..(m + n) /\ u[m + i] = t[i]
    OBVIOUS
  <2>1. m + i \in 1..(m + n) /\ m + i > m /\ (m + i) - m = i
    BY <1>1
  <2> QED
    BY <1>1, <2>1
<1>3. Members(u) \subseteq Members(s) \cup Members(t)
  <2> SUFFICES ASSUME NEW i \in 1..(m + n) PROVE u[i] \in Members(s) \cup Members(t)
    BY <1>1 DEF Members
  <2>1. CASE i <= m
    BY <1>1, <2>1 DEF Members
  <2>2. CASE i > m
    <3> DEFINE d == i - m
    <3>1. u[i] = t[d] /\ d \in 1..n
      BY <1>1, <2>2
    <3> HIDE DEF d
    <3> QED
      BY <1>1, <3>1 DEF Members
  <2> QED
    BY <1>1, <2>1, <2>2
<1>4. Members(s) \subseteq Members(u)
  <2>1. \A i \in 1..m : i \in 1..(m + n)
    BY <1>1
  <2> QED
    BY <1>1, <2>1 DEF Members
<1>5. Members(t) \subseteq Members(u)
  BY <1>1, <1>2 DEF Members
<1>6. ASSUME Distinct(u) PROVE Distinct(s) /\ Members(s) \cap Members(t) = {}
  <2>1. \A i \in 1..m : i \in 1..(m + n)
    BY <1>1
  <2>2. Distinct(s)
    BY <1>1, <1>6, <2>1 DEF Distinct
  <2>3. \A i \in 1..m, j \in 1..n : m + j # i
    BY <1>1
  <2>4. \A i \in 1..m, j \in 1..n : s[i] # t[j]
    BY <1>1, <1>2, <1>6, <2>1, <2>3 DEF Distinct
  <2> QED
    BY <1>1, <2>2, <2>4 DEF Members
<1> QED
  BY <1>3, <1>4, <1>5, <1>6 DEF u

PartsDistinct(s) ==
    /\ \A i \in DOMAIN s : Members(s[i]) \subseteq Members(FlattenSeq(s))
    /\ Distinct(FlattenSeq(s)) =>
          \A i, j \in DOMAIN s : Members(s[i]) \cap Members(s[j]) # {} => i = j

LEMMA DistinctParts ==
    ASSUME NEW V, NEW s \in Seq(Seq(V))
    PROVE  PartsDistinct(s)
<1> DEFINE W == Seq(V)
           X == {p \in Seq(W) : PartsDistinct(p)}
<1>1. << >> \in X
  <2> DEFINE nil == << >>
  <2>1. nil \in Seq(W) /\ DOMAIN nil = {}
    OBVIOUS
  <2> HIDE DEF nil, W
  <2>2. PartsDistinct(nil)
    BY <2>1 DEF PartsDistinct
  <2> QED
    BY <2>1, <2>2 DEF nil
<1>2. ASSUME NEW p \in Seq(W), p \in X, NEW x \in W PROVE Append(p, x) \in X
  <2> DEFINE q == Append(p, x)
             m == Len(p)
             a == FlattenSeq(p)
             b == FlattenSeq(q)
  <2>1. a \in Seq(V) /\ x \in Seq(V) /\ b = a \o x
    BY FlattenType, FlattenAppend
  <2>2. /\ q \in Seq(W) /\ m \in Nat /\ DOMAIN p = 1..m /\ DOMAIN q = 1..(m + 1) /\ q[m + 1] = x
        /\ \A i \in 1..m : q[i] = p[i]
    <3> HIDE DEF W
    <3> QED
      OBVIOUS
  <2>3. PartsDistinct(p)
    BY <1>2
  <2> HIDE DEF a, b, q, m, W, X
  <2>4. Members(b) = Members(a) \cup Members(x)
        /\ (Distinct(b) => Distinct(a) /\ Members(a) \cap Members(x) = {})
    <3>1. Members(a \o x) = Members(a) \cup Members(x)
          /\ (Distinct(a \o x) => Distinct(a) /\ Members(a) \cap Members(x) = {})
      BY <2>1, ConcatDistinct
    <3> QED
      BY <2>1, <3>1
  <2>5. \A i \in 1..(m + 1) : i \in 1..m \/ i = m + 1
    BY <2>2
  <2>6. \A i \in 1..m : Members(p[i]) \subseteq Members(a)
    BY <2>2, <2>3 DEF PartsDistinct, a
  <2>7. \A i \in 1..(m + 1) : Members(q[i]) \subseteq Members(b)
    BY <2>2, <2>4, <2>5, <2>6
  <2>8. ASSUME Distinct(b), NEW i \in 1..(m + 1), NEW j \in 1..(m + 1),
               Members(q[i]) \cap Members(q[j]) # {}
        PROVE  i = j
    <3>1. CASE i \in 1..m /\ j \in 1..m
      BY <2>2, <2>3, <2>4, <2>8, <3>1 DEF PartsDistinct, a
    <3>2. CASE i \in 1..m /\ j = m + 1
      BY <2>2, <2>4, <2>6, <2>8, <3>2
    <3>3. CASE i = m + 1 /\ j \in 1..m
      BY <2>2, <2>4, <2>6, <2>8, <3>3
    <3> QED
      BY <2>5, <3>1, <3>2, <3>3
  <2>9. PartsDistinct(q)
    BY <2>2, <2>7, <2>8 DEF PartsDistinct, b
  <2> QED
    BY <2>2, <2>9 DEF X, q
<1>3. Seq(W) \subseteq X
  <2> HIDE DEF X, W
  <2> QED
    BY <1>1, <1>2, SequenceInduction
<1> QED
  BY <1>3

(***************************************************************************)
(* The metadata of a document.                                             *)
(***************************************************************************)
KnowledgeDocuments ==
    [document : Keys \cup {Elsewhere, NoKey}, aliases : Seq(Words), tags : Seq(Words),
     references : Seq(Keys \cup {Elsewhere, NoKey})]

LEMMA MetadataIs ==
    ASSUME NEW metadata \in Metadata, NEW K, NEW g, Members(g.keys) = K,
           ValidMetadata(g, metadata)
    PROVE  /\ \A i \in DOMAIN metadata :
                 /\ metadata[i].document \in K /\ metadata[i].references \in Seq(K)
                 /\ metadata[i].aliases \in Seq(Words)
                 /\ Members(metadata[i].aliases) \cap K = {}
                 /\ MetadataOf(metadata, metadata[i].document) = metadata[i]
           /\ \A i, j \in DOMAIN metadata :
                 Members(metadata[i].aliases) \cap Members(metadata[j].aliases) # {} => i = j
           /\ \A k : MetadataOf(metadata, k) = NoMetadata
                        \/ \E i \in DOMAIN metadata : metadata[i].document = k
                                                       /\ MetadataOf(metadata, k) = metadata[i]
<1>1. metadata \in Seq(KnowledgeDocuments)
  BY MetadataAssumption DEF KnowledgeDocuments
<1>2. \A i \in DOMAIN metadata : metadata[i] \in KnowledgeDocuments
  BY <1>1
<1>3. ASSUME NEW i \in DOMAIN metadata
      PROVE  /\ metadata[i].document \in K /\ metadata[i].references \in Seq(K)
             /\ metadata[i].aliases \in Seq(Words)
             /\ Members(metadata[i].aliases) \cap K = {}
  <2> DEFINE refs == metadata[i].references
             A == Keys \cup {Elsewhere, NoKey}
  <2>1. refs \in Seq(A) /\ metadata[i].aliases \in Seq(Words)
    BY <1>2 DEF KnowledgeDocuments
  <2>2. ValidDocument(g, metadata[i])
    BY DEF ValidMetadata
  <2>3. metadata[i].document \in K /\ Members(metadata[i].aliases) \cap K = {}
        /\ Members(refs) \subseteq K
    BY <2>2 DEF ValidDocument
  <2> HIDE DEF refs, A
  <2>4. refs \in Seq(K)
    <3>1. \A n \in DOMAIN refs : refs[n] \in K
      BY <2>3 DEF Members
    <3> QED
      BY <2>1, <3>1
  <2> QED
    BY <2>1, <2>3, <2>4 DEF refs
<1>4. \A i, j \in DOMAIN metadata : metadata[i].document = metadata[j].document => i = j
  BY DEF ValidMetadata, Distinct
<1>5. ASSUME NEW k
      PROVE  /\ \A i \in DOMAIN metadata : metadata[i].document = k
                   => MetadataOf(metadata, k) = metadata[i]
             /\ MetadataOf(metadata, k) = NoMetadata
                   \/ \E i \in DOMAIN metadata : metadata[i].document = k
                                                  /\ MetadataOf(metadata, k) = metadata[i]
  <2> DEFINE own == {i \in DOMAIN metadata : metadata[i].document = k}
  <2>1. own # {} => TheOnly(own) \in own
    BY DEF TheOnly
  <2>2. MetadataOf(metadata, k) = IF own = {} THEN NoMetadata ELSE metadata[TheOnly(own)]
    BY DEF MetadataOf
  <2>3. \A i \in own : TheOnly(own) = i
    BY <1>4, <2>1
  <2> QED
    BY <2>1, <2>2, <2>3
<1>6. \A i, j \in DOMAIN metadata :
          Members(metadata[i].aliases) \cap Members(metadata[j].aliases) # {} => i = j
  <2> DEFINE s == [i \in DOMAIN metadata |-> metadata[i].aliases]
  <2>1. s \in Seq(Seq(Words))
    <3> DEFINE W == Seq(Words)
    <3>1. \A i \in DOMAIN metadata : metadata[i].aliases \in W
      BY <1>3
    <3>2. Len(metadata) \in Nat /\ DOMAIN metadata = 1..Len(metadata)
      BY <1>1
    <3> HIDE DEF W
    <3>3. s \in Seq(W)
      BY <3>1, <3>2
    <3> QED
      BY <3>3 DEF W
  <2>2. Distinct(FlattenSeq(s))
    BY DEF ValidMetadata, AliasesDistinct
  <2>3. DOMAIN s = DOMAIN metadata /\ \A i \in DOMAIN metadata : s[i] = metadata[i].aliases
    OBVIOUS
  <2> HIDE DEF s
  <2>4. PartsDistinct(s)
    BY <2>1, DistinctParts
  <2> QED
    BY <2>2, <2>3, <2>4 DEF PartsDistinct
<1> QED
  BY <1>3, <1>5, <1>6

(***************************************************************************)
(* The index of a graph that is finished.                                  *)
(***************************************************************************)
LEMMA ReferencesFollow ==
    ASSUME NEW K, NEW keys \in Seq(K), Members(keys) = K, Distinct(keys), NEW refs,
           \A i \in 1..Len(keys) : refs[i] \in Seq(K), NEW a, a[0] = newDocumentGraph(keys),
           \A i \in 1..Len(keys) :
              AreReferences(a[i - 1], keys, K, i - 1)
                 => a[i] = addReferences(a[i - 1], keys[i], refs[i])
    PROVE  \A i \in 0..Len(keys) : AreReferences(a[i], keys, K, i)
<1> DEFINE S == {i \in Nat : i \in 0..Len(keys) => AreReferences(a[i], keys, K, i)}
<1>1. 0 \in S
  BY ReferencesStart
<1>2. ASSUME NEW n \in Nat, n \in S PROVE n + 1 \in S
  <2> SUFFICES ASSUME n + 1 \in 0..Len(keys) PROVE AreReferences(a[n + 1], keys, K, n + 1)
    OBVIOUS
  <2> DEFINE m == n + 1
  <2>1. m \in 1..Len(keys) /\ m - 1 = n /\ n \in 0..Len(keys) /\ m = n + 1
    OBVIOUS
  <2>2. m \in DOMAIN keys
    BY <2>1
  <2>3. AreReferences(a[n], keys, K, n)
    BY <1>2, <2>1
  <2> HIDE DEF m, S
  <2>4. a[m] = addReferences(a[n], keys[m], refs[m]) /\ refs[m] \in Seq(K)
    BY <2>1, <2>3
  <2>5. AreReferences(a[m], keys, K, m)
    BY <2>1, <2>2, <2>3, <2>4, ReferencesAdded
  <2> QED
    BY <2>5 DEF m
<1>3. Nat \subseteq S
  <2> HIDE DEF S
  <2> QED
    BY <1>1, <1>2, NatSetInduction
<1> QED
  BY <1>3

LEMMA GatheredFollow ==
    ASSUME NEW K, NEW keys \in Seq(K), Distinct(keys), NEW refs,
           \A i \in 1..Len(keys) : refs[i] \in Seq(K), NEW a, a[0] = newDocumentGraph(keys),
           \A i \in 0..Len(keys) : AreReferences(a[i], keys, K, i),
           \A i \in 1..Len(keys) : a[i] = addReferences(a[i - 1], keys[i], refs[i])
    PROVE  Gathered(a[Len(keys)], keys, refs, K, Len(keys))
<1> DEFINE S == {i \in Nat : i \in 0..Len(keys) => Gathered(a[i], keys, refs, K, i)}
<1>1. 0 \in S
  BY GatheredStart
<1>2. ASSUME NEW n \in Nat, n \in S PROVE n + 1 \in S
  <2> SUFFICES ASSUME n + 1 \in 0..Len(keys) PROVE Gathered(a[n + 1], keys, refs, K, n + 1)
    OBVIOUS
  <2> DEFINE m == n + 1
  <2>1. m \in 1..Len(keys) /\ m - 1 = n /\ n \in 0..Len(keys) /\ m = n + 1
        /\ \A i \in 1..m : i \in 1..Len(keys)
    OBVIOUS
  <2>2. m \in DOMAIN keys
    BY <2>1
  <2>3. Gathered(a[n], keys, refs, K, n) /\ AreReferences(a[n], keys, K, n)
    BY <1>2, <2>1
  <2> HIDE DEF m, S
  <2>4. a[m] = addReferences(a[n], keys[m], refs[m]) /\ \A i \in 1..m : refs[i] \in Seq(K)
    BY <2>1
  <2>5. Gathered(a[m], keys, refs, K, m)
    BY <2>1, <2>2, <2>3, <2>4, GatheredNext
  <2> QED
    BY <2>5 DEF m
<1>3. Nat \subseteq S
  <2> HIDE DEF S
  <2> QED
    BY <1>1, <1>2, NatSetInduction
<1>4. Len(keys) \in Nat /\ Len(keys) \in 0..Len(keys)
  OBVIOUS
<1> QED
  BY <1>3, <1>4

AreGiven(k, K, keys, metadata) ==
    /\ References(k)
          = FlattenSeq([i \in DOMAIN keys |->
               OwnReferences(keys[i], MetadataOf(metadata, keys[i]).references)])
    /\ \A d \in K : ReferencesFrom(k, d) = OwnReferences(d, MetadataOf(metadata, d).references)

LEMMA ReferencesAre ==
    ASSUME NEW metadata \in Metadata, NEW K, NEW g, g.keys \in Seq(K), Members(g.keys) = K,
           Distinct(g.keys), ValidMetadata(g, metadata),
           NEW k, k = KnowledgeIndex(g, metadata)
    PROVE  Indexed(k.references, K, ReferenceEdges(K)) /\ AreGiven(k, K, g.keys, metadata)
<1> DEFINE keys == g.keys
           m == Len(keys)
           I == 0..m
           V == Graphs(K, ReferenceEdges(K))
           refs == [i \in 1..m |-> MetadataOf(metadata, keys[i]).references]
           F(v, i) == addReferences(v, keys[i], refs[i])
           z == newDocumentGraph(keys)
           h == [x \in V \X I |-> IF F(x[1], x[2]) \in V THEN F(x[1], x[2]) ELSE z]
           P(a) == a = [i \in 0..Len(g.keys) |->
                          IF i = 0 THEN newDocumentGraph(g.keys)
                          ELSE addReferences(a[i - 1], g.keys[i],
                                             MetadataOf(metadata, g.keys[i]).references)]
           add == CHOOSE a : P(a)
<1>1. k.references = add[m]
  BY DEF KnowledgeIndex, Sources
<1>2. /\ m \in Nat /\ IsInitial(I) /\ keys \in Seq(K) /\ Members(keys) = K /\ Distinct(keys)
      /\ m \in I /\ 0 \in I /\ \A i \in 1..m : i - 1 \in I /\ i \in I /\ i # 0
      /\ \A i \in I : i # 0 => i \in 1..m
  BY DEF IsInitial
<1>3. ASSUME NEW i \in 1..m PROVE refs[i] \in Seq(K)
  <2>1. CASE MetadataOf(metadata, keys[i]) = NoMetadata
    <3>1. refs[i] = NoMetadata.references
      BY <2>1
    <3>2. NoMetadata.references = << >>
      BY DEF NoMetadata
    <3>3. << >> \in Seq(K)
      OBVIOUS
    <3> HIDE DEF refs
    <3> QED
      BY <3>1, <3>2, <3>3, Zenon
  <2>2. CASE \E j \in DOMAIN metadata : MetadataOf(metadata, keys[i]) = metadata[j]
    BY <2>2, MetadataIs
  <2> QED
    BY <2>1, <2>2, MetadataIs
<1>4. z \in V
  BY <1>2, ReferencesStart DEF AreReferences
<1>5. PICK a \in [I -> V] : Steps(a, I, z, h)
  <2>1. \A v \in V, i \in I : i # 0 => h[<<v, i>>] \in V
    <3> HIDE DEF F, V, I, z
    <3> QED
      BY <1>4
  <2> HIDE DEF h, I, V, z
  <2> QED
    BY <1>2, <1>4, <2>1, StepsExist
<1>6. a[0] = z
  BY <1>2, <1>5 DEF Steps
<1>7. ASSUME NEW i \in 1..m, F(a[i - 1], i) \in V PROVE a[i] = F(a[i - 1], i)
  <2>1. a[i] = h[<<a[i - 1], i>>] /\ a[i - 1] \in V
    BY <1>2, <1>5 DEF Steps
  <2> HIDE DEF F, V, I, z, m
  <2> QED
    BY <1>2, <1>7, <2>1
<1>8. ASSUME NEW b, NEW i \in 1..m, AreReferences(b, keys, K, i - 1)
      PROVE  F(b, i) \in V /\ AreReferences(F(b, i), keys, K, i)
  <2> DEFINE n == i - 1
             f == F(b, i)
  <2>1. n \in Nat /\ i = n + 1 /\ i \in DOMAIN keys
    BY <1>2
  <2>2. f = addReferences(b, keys[i], refs[i]) /\ refs[i] \in Seq(K)
    BY <1>3
  <2>3. AreReferences(b, keys, K, n)
    BY <1>8
  <2> HIDE DEF n, f, refs, keys
  <2>4. AreReferences(f, keys, K, i)
    BY <1>2, <2>1, <2>2, <2>3, ReferencesAdded
  <2> QED
    BY <2>4 DEF AreReferences, f
<1>9. \A i \in I : AreReferences(a[i], keys, K, i)
  <2>1. \A i \in 1..m : AreReferences(a[i - 1], keys, K, i - 1)
            => a[i] = addReferences(a[i - 1], keys[i], refs[i])
    BY <1>7, <1>8
  <2> HIDE DEF refs, keys
  <2> QED
    BY <1>2, <1>3, <1>6, <2>1, ReferencesFollow
<1>10. P(a)
  <2>1. \A i \in I : a[i] = IF i = 0 THEN z ELSE F(a[i - 1], i)
    BY <1>2, <1>6, <1>7, <1>8, <1>9
  <2>2. \A i \in I : i # 0 => F(a[i - 1], i)
                        = addReferences(a[i - 1], g.keys[i], MetadataOf(metadata, g.keys[i]).references)
    BY <1>2
  <2>3. \A i \in I : a[i] = IF i = 0 THEN newDocumentGraph(g.keys)
                        ELSE addReferences(a[i - 1], g.keys[i], MetadataOf(metadata, g.keys[i]).references)
    <3> HIDE DEF F, I
    <3> QED
      BY <2>1, <2>2
  <2>4. a = [i \in I |-> a[i]]
    BY <1>5
  <2> QED
    BY <2>3, <2>4
<1>11. P(add)
  <2> HIDE DEF P
  <2> QED
    BY <1>10, Zenon
<1>12. add[0] = z /\ \A i \in 1..m : add[i] = addReferences(add[i - 1], keys[i], refs[i])
  <2> HIDE DEF add
  <2> QED
    BY <1>2, <1>11
<1>13. \A i \in I : AreReferences(add[i], keys, K, i)
  <2> HIDE DEF add, refs, keys, P
  <2> QED
    BY <1>2, <1>3, <1>12, ReferencesFollow
<1>14. Gathered(add[m], keys, refs, K, m)
  <2> HIDE DEF add, refs, keys, P, m
  <2> QED
    BY <1>2, <1>3, <1>12, <1>13, GatheredFollow DEF m
<1>15. Indexed(add[m], K, ReferenceEdges(K))
  <2> HIDE DEF add, refs, P
  <2> QED
    BY <1>2, <1>13, ReferencesIndexed
<1>16. \A i \in 1..m : refs[i] = MetadataOf(metadata, keys[i]).references
  OBVIOUS
<1>17. References(k) = FlattenSeq([i \in DOMAIN keys |->
                          OwnReferences(keys[i], MetadataOf(metadata, keys[i]).references)])
  <2>1. [i \in 1..m |-> OwnReferences(keys[i], refs[i])]
          = [i \in DOMAIN keys |-> OwnReferences(keys[i], MetadataOf(metadata, keys[i]).references)]
    <3>1. DOMAIN keys = 1..m
      BY <1>2
    <3> HIDE DEF refs, keys, m
    <3> QED
      BY <1>16, <3>1
  <2>2. References(k) = add[m].edges
    BY <1>1 DEF References
  <2> HIDE DEF add, refs, keys, m
  <2> QED
    BY <1>14, <2>1, <2>2, Zenon DEF Gathered
<1>18. ASSUME NEW d \in K
       PROVE  ReferencesFrom(k, d) = OwnReferences(d, MetadataOf(metadata, d).references)
  <2>1. PICK i \in 1..m : keys[i] = d
    BY <1>2 DEF Members
  <2>2. outgoingEdges(add[m], d) = Kept(add[m].edges, From(ReferenceEdges(K), d))
    <3> HIDE DEF add, m
    <3> QED
      BY <1>15 DEF Indexed
  <2>3. ReferencesFrom(k, d) = outgoingEdges(add[m], d)
    BY <1>1 DEF ReferencesFrom
  <2>4. refs[i] = MetadataOf(metadata, d).references
    BY <1>16, <2>1
  <2> HIDE DEF add, refs, keys, m
  <2> QED
    BY <1>14, <2>1, <2>2, <2>3, <2>4 DEF Gathered
<1> QED
  BY <1>1, <1>15, <1>17, <1>18 DEF AreGiven

-----------------------------------------------------------------------------
(***************************************************************************)
(* The index is none, or that of the graph of the call that ended last.    *)
(***************************************************************************)
IndexInv ==
    index = NoIndex
        \/ /\ Ended
           /\ \E metadata \in Metadata : /\ ValidMetadata(graph, metadata)
                                         /\ index = KnowledgeIndex(graph, metadata)

KnowledgeInv == WorkspaceInv /\ IndexInv

LEMMA KnowledgeStep == KnowledgeInv /\ [KnowledgeNext]_knowledgeVars => KnowledgeInv'
<1> SUFFICES ASSUME KnowledgeInv, [KnowledgeNext]_knowledgeVars PROVE KnowledgeInv'
  OBVIOUS
<1>1. CASE Next /\ index' = NoIndex
  BY <1>1, WorkspaceStep DEF KnowledgeInv, IndexInv
<1>2. CASE \E metadata \in Metadata : BuildKnowledgeIndex(metadata)
  <2>1. PICK metadata \in Metadata : BuildKnowledgeIndex(metadata)
    BY <1>2
  <2>2. UNCHANGED vars /\ Ended
        /\ index' = IF ValidMetadata(graph, metadata) THEN KnowledgeIndex(graph, metadata)
                    ELSE NoIndex
    BY <2>1 DEF BuildKnowledgeIndex, Ended
  <2>3. WorkspaceInv'
    BY <2>2, WorkspaceStep DEF KnowledgeInv
  <2>4. graph' = graph /\ result' = result
    BY <2>2 DEF vars
  <2>5. IndexInv'
    BY <2>2, <2>4 DEF IndexInv, Ended
  <2> QED
    BY <2>3, <2>5 DEF KnowledgeInv
<1>3. CASE UNCHANGED knowledgeVars
  <2>1. UNCHANGED vars /\ index' = index
    BY <1>3 DEF knowledgeVars
  <2>2. WorkspaceInv'
    BY <2>1, WorkspaceStep DEF KnowledgeInv
  <2>3. graph' = graph /\ result' = result
    BY <2>1 DEF vars
  <2> QED
    BY <2>1, <2>2, <2>3 DEF KnowledgeInv, IndexInv, Ended
<1> QED
  BY <1>1, <1>2, <1>3 DEF KnowledgeNext

LEMMA KnowledgeInvHolds == KnowledgeSpec => []KnowledgeInv
<1>1. KnowledgeInit => KnowledgeInv
  BY WorkspaceStarts DEF KnowledgeInit, KnowledgeInv, IndexInv
<1> QED
  BY <1>1, KnowledgeStep, PTL DEF KnowledgeSpec

LEMMA GraphIndexed ==
    ASSUME WorkspaceInv, Ended
    PROVE  /\ Indexed(graph, Known, EdgeSet(documents)) /\ Distinct(graph.keys)
           /\ graph.keys \in Seq(Known) /\ IsFiniteSet(Known) /\ Cardinality(Known) = Len(graph.keys)
<1>1. AreDocuments(documents)
  BY EndedIs
<1>2. graph \in Graphs(Known, EdgeSet(documents)) /\ graph.keys = KeysOf(documents)
      /\ graph.edges \in Seq(EdgeSet(documents))
  BY GraphIs
<1>3. Members(graph.keys) = Known /\ graph.keys \in Seq(Known) /\ IsFiniteSet(Known)
      /\ Cardinality(Known) = Len(graph.keys)
  BY <1>1, <1>2, KeysOfIs, KnownIs
<1>4. Distinct(graph.keys)
  BY <1>1, <1>2 DEF AreDocuments, KeysOf, Distinct
<1>5. AreEdges(EdgeSet(documents), Known)
  BY EdgeSetIs, KnownIs
<1> QED
  BY <1>2, <1>3, <1>4, <1>5, GraphIs DEF Indexed

LEMMA IndexIs ==
    ASSUME KnowledgeInv, index.built
    PROVE  /\ Ended /\ Indexed(index.references, Known, ReferenceEdges(Known))
           /\ \E metadata \in Metadata : /\ ValidMetadata(graph, metadata)
                                         /\ index = KnowledgeIndex(graph, metadata)
<1>1. index # NoIndex
  BY DEF NoIndex
<1>2. Ended /\ WorkspaceInv
  BY <1>1 DEF KnowledgeInv, IndexInv
<1>3. PICK metadata \in Metadata : /\ ValidMetadata(graph, metadata)
                                   /\ index = KnowledgeIndex(graph, metadata)
  BY <1>1 DEF KnowledgeInv, IndexInv
<1>4. Members(graph.keys) = Known /\ Distinct(graph.keys) /\ graph.keys \in Seq(Known)
  BY <1>2, GraphIndexed DEF Indexed
<1> QED
  BY <1>2, <1>3, <1>4, ReferencesAre

LEMMA AllSuccessorsType ==
    ASSUME KnowledgeInv, index.built
    PROVE  AllSuccessors(index) \in Lists(Known)
<1> DEFINE E == EdgeSet(documents)
           R == ReferenceEdges(Known)
           g == index.references
<1>1. WorkspaceInv /\ Ended /\ Indexed(g, Known, R)
  BY IndexIs DEF KnowledgeInv
<1>2. Indexed(graph, Known, E)
  BY <1>1, GraphIndexed
<1>3. Members(graph.keys) = Known
  BY <1>2 DEF Indexed
<1>4. Successors(graph) \in Lists(Known)
  BY <1>2, SuccessorsType
<1>5. ASSUME NEW d \in Known
      PROVE  Successors(graph)[d] \o Targets(ReferencesFrom(index, d)) \in Seq(Known)
  <2> DEFINE a == Successors(graph)[d]
             b == Targets(ReferencesFrom(index, d))
  <2>1. a \in Seq(Known)
    BY <1>4 DEF Lists
  <2>2. b \in Seq(Known)
    BY <1>1, OutgoingType DEF ReferencesFrom
  <2> HIDE DEF a, b
  <2>3. a \o b \in Seq(Known)
    BY <2>1, <2>2
  <2> QED
    BY <2>3 DEF a, b
<1> HIDE DEF E, R, g
<1> QED
  BY <1>3, <1>5 DEF AllSuccessors, Lists

LEMMA RootsReached ==
    ASSUME WorkspaceInv, Ended, NEW roots \in RootLists, ValidRoots(graph.keys, roots)
    PROVE  reachableFromRoots(graph, roots)
              = Within(Successors(graph), Members(roots))[Cardinality(Known)]
<1> DEFINE next == Successors(graph)
           D == Known
           A == Keys \cup {Elsewhere, NoKey}
<1>1. IsFiniteSet(D) /\ next \in Lists(D) /\ Members(graph.keys) = D
  BY GraphIndexed, SuccessorsType DEF Indexed
<1>2. roots \in Seq(A)
  BY ArgumentAssumption
<1> HIDE DEF next, D, A
<1>3. \A n \in DOMAIN roots : roots[n] \in D
  BY <1>1 DEF ValidRoots, Members
<1>4. roots \in Seq(D)
  BY <1>2, <1>3
<1>5. IsBreadthFirst(Search(next, roots), next, Members(roots))
  BY <1>1, <1>4, SearchIsBreadthFirst
<1>6. DOMAIN next = D
  BY <1>1 DEF Lists
<1> QED
  BY <1>5, <1>6 DEF IsBreadthFirst, reachableFromRoots, next, D

LEMMA RelatedAreJoined ==
    ASSUME WorkspaceInv, Ended, NEW k \in Known
    PROVE  RelatedDocuments(graph, k) = Kept(graph.keys, JoinedTo(graph, k))
<1> DEFINE A == markRelatedDocuments(graph, k) \ {k}
           B == JoinedTo(graph, k)
<1>1. B = Known \cap A
  BY GraphIndexed, JoinedToIs
<1>2. \A i \in DOMAIN graph.keys : graph.keys[i] \in Known
  BY GraphIndexed
<1>3. RelatedDocuments(graph, k) = Kept(graph.keys, A)
  BY DEF RelatedDocuments
<1> HIDE DEF A, B
<1>4. Kept(graph.keys, A) = Kept(graph.keys, B)
  BY <1>1, <1>2, KeptAgree
<1> QED
  BY <1>3, <1>4 DEF B

LEMMA KnowledgeRelatedAreJoined ==
    ASSUME KnowledgeInv, index.built, NEW k \in Known
    PROVE  KnowledgeRelated(index, k)
              = Kept(graph.keys, JoinedTo(graph, k) \cup JoinedTo(index.references, k))
<1> DEFINE A == markRelatedDocuments(graph, k)
           B == markRelatedDocuments(index.references, k)
           C == JoinedTo(graph, k)
           D == JoinedTo(index.references, k)
<1>1. WorkspaceInv /\ Ended
  BY IndexIs DEF KnowledgeInv
<1>2. C = Known \cap (A \ {k})
  BY <1>1, GraphIndexed, JoinedToIs
<1>3. D = Known \cap (B \ {k})
  BY IndexIs, JoinedToIs
<1>4. \A i \in DOMAIN graph.keys : graph.keys[i] \in Known
  BY <1>1, GraphIndexed
<1>5. KnowledgeRelated(index, k) = Kept(graph.keys, (A \cup B) \ {k})
  BY DEF KnowledgeRelated
<1> HIDE DEF A, B, C, D
<1>6. Kept(graph.keys, (A \cup B) \ {k}) = Kept(graph.keys, C \cup D)
  BY <1>2, <1>3, <1>4, KeptAgree
<1> QED
  BY <1>5, <1>6 DEF C, D

LEMMA TraversalsAreExact == KnowledgeInv => TraversalsExact
<1> SUFFICES ASSUME KnowledgeInv, Ended PROVE TraversalsExact
  BY DEF TraversalsExact, Ended
<1>1. WorkspaceInv
  BY DEF KnowledgeInv
<1>2. IsFiniteSet(Known) /\ Successors(graph) \in Lists(Known)
  BY <1>1, GraphIndexed, SuccessorsType
<1>3. ASSUME NEW k \in Known
      PROVE  SearchFrom(Successors(graph), ReachableFrom(graph, k), k)
  <2> DEFINE next == Successors(graph)
             D == Known
  <2>1. IsFiniteSet(D) /\ next \in Lists(D) /\ k \in D
    BY <1>2
  <2> HIDE DEF next, D
  <2>2. IsBreadthFirst(<<k>> \o Tail(Search(next, <<k>>)), next, {k})
    BY <2>1, SearchFromOne
  <2> QED
    BY <2>2 DEF SearchFrom, ReachableFrom, next
<1>4. ASSUME index.built, NEW k \in Known
      PROVE  SearchFrom(AllSuccessors(index), KnowledgeReachableFrom(index, k), k)
  <2> DEFINE next == AllSuccessors(index)
             D == Known
  <2>1. IsFiniteSet(D) /\ next \in Lists(D) /\ k \in D
    BY <1>2, <1>4, AllSuccessorsType
  <2> HIDE DEF next, D
  <2>2. IsBreadthFirst(<<k>> \o Tail(Search(next, <<k>>)), next, {k})
    BY <2>1, SearchFromOne
  <2> QED
    BY <2>2 DEF SearchFrom, KnowledgeReachableFrom, next
<1>5. \A k \in Known : RelatedDocuments(graph, k) = Kept(graph.keys, JoinedTo(graph, k))
  BY <1>1, RelatedAreJoined
<1>6. \A roots \in RootLists : ValidRoots(graph.keys, roots) =>
         reachableFromRoots(graph, roots)
            = Within(Successors(graph), Members(roots))[Cardinality(Known)]
  BY <1>1, RootsReached
<1>7. index.built => \A k \in Known :
         KnowledgeRelated(index, k)
            = Kept(graph.keys, JoinedTo(graph, k) \cup JoinedTo(index.references, k))
  BY KnowledgeRelatedAreJoined
<1> QED
  BY <1>3, <1>4, <1>5, <1>6, <1>7, Zenon DEF TraversalsExact

\* ReachableFrom lists each document that edges (and references) lead to, once,
\* the nearer ones first; reachableFromRoots finds what any of the roots leads
\* to; and the related documents are those an edge (or a reference) joins in
\* either direction.  All of it whatever the resolver answered.
THEOREM TraversalsExactHolds == KnowledgeSpec => []TraversalsExact
<1> QED
  BY KnowledgeInvHolds, TraversalsAreExact, PTL

(***************************************************************************)
(* What the queries of an index answer from either end.                    *)
(***************************************************************************)
LEMMA AliasesAgree ==
    ASSUME KnowledgeInv, index.built
    PROVE  /\ \A k \in Known : \A a \in Members(index.aliases[k]) :
                 a \in DOMAIN index.aliasOwners /\ index.aliasOwners[a] = k
           /\ \A a \in DOMAIN index.aliasOwners :
                 a \notin Known /\ a \in Members(index.aliases[index.aliasOwners[a]])
<1>1. PICK metadata \in Metadata : /\ ValidMetadata(graph, metadata)
                                   /\ index = KnowledgeIndex(graph, metadata)
  BY IndexIs
<1>2. WorkspaceInv /\ Ended /\ Members(graph.keys) = Known
  BY IndexIs, GraphIndexed DEF KnowledgeInv, Indexed
<1> DEFINE names == UNION {Members(metadata[i].aliases) : i \in DOMAIN metadata}
           owner(a) == CHOOSE i \in DOMAIN metadata : a \in Members(metadata[i].aliases)
<1>3. /\ index.aliases = [k \in Known |-> MetadataOf(metadata, k).aliases]
      /\ index.aliasOwners = [a \in names |-> metadata[owner(a)].document]
  BY <1>1, <1>2 DEF KnowledgeIndex
<1>4. /\ \A i \in DOMAIN metadata :
            /\ metadata[i].document \in Known
            /\ Members(metadata[i].aliases) \cap Known = {}
            /\ MetadataOf(metadata, metadata[i].document) = metadata[i]
      /\ \A i, j \in DOMAIN metadata :
            Members(metadata[i].aliases) \cap Members(metadata[j].aliases) # {} => i = j
      /\ \A k : MetadataOf(metadata, k) = NoMetadata
                   \/ \E i \in DOMAIN metadata : metadata[i].document = k
                                                  /\ MetadataOf(metadata, k) = metadata[i]
  <2> DEFINE K == Known
  <2>1. Members(graph.keys) = K /\ ValidMetadata(graph, metadata)
    BY <1>1, <1>2
  <2> HIDE DEF K, names, owner
  <2>2. ASSUME NEW i \in DOMAIN metadata
        PROVE  /\ metadata[i].document \in K
               /\ Members(metadata[i].aliases) \cap K = {}
               /\ MetadataOf(metadata, metadata[i].document) = metadata[i]
    <3>1. metadata[i].document \in K
      BY <2>1, MetadataIs
    <3>2. Members(metadata[i].aliases) \cap K = {}
      BY <2>1, MetadataIs
    <3>3. MetadataOf(metadata, metadata[i].document) = metadata[i]
      BY <2>1, MetadataIs
    <3> QED
      BY <3>1, <3>2, <3>3
  <2>4. \A i, j \in DOMAIN metadata :
           Members(metadata[i].aliases) \cap Members(metadata[j].aliases) # {} => i = j
    BY <2>1, MetadataIs
  <2>3. \A k : MetadataOf(metadata, k) = NoMetadata
                  \/ \E i \in DOMAIN metadata : metadata[i].document = k
                                                 /\ MetadataOf(metadata, k) = metadata[i]
    BY <2>1, MetadataIs
  <2> QED
    BY <2>2, <2>3, <2>4 DEF K
<1>5. ASSUME NEW a \in names
      PROVE  /\ owner(a) \in DOMAIN metadata /\ a \in Members(metadata[owner(a)].aliases)
             /\ \A i \in DOMAIN metadata : a \in Members(metadata[i].aliases) => owner(a) = i
  <2>1. \E i \in DOMAIN metadata : a \in Members(metadata[i].aliases)
    OBVIOUS
  <2>2. owner(a) \in DOMAIN metadata /\ a \in Members(metadata[owner(a)].aliases)
    BY <2>1
  <2> HIDE DEF owner
  <2> QED
    BY <1>4, <2>2
<1>6. \A i \in DOMAIN metadata : Members(metadata[i].aliases) \subseteq names
  OBVIOUS
<1> HIDE DEF names, owner
<1>7. ASSUME NEW k \in Known, NEW a \in Members(index.aliases[k])
      PROVE  a \in DOMAIN index.aliasOwners /\ index.aliasOwners[a] = k
  <2>1. index.aliases[k] = MetadataOf(metadata, k).aliases
    BY <1>3
  <2>2. Members(NoMetadata.aliases) = {}
    BY DEF NoMetadata, Members
  <2>3. MetadataOf(metadata, k) # NoMetadata
    BY <1>7, <2>1, <2>2
  <2>4. PICK i \in DOMAIN metadata : metadata[i].document = k
                                      /\ MetadataOf(metadata, k) = metadata[i]
    BY <1>4, <2>3
  <2>5. a \in Members(metadata[i].aliases)
    BY <2>1, <2>4
  <2> QED
    BY <1>3, <1>5, <1>6, <2>4, <2>5
<1>8. ASSUME NEW a \in DOMAIN index.aliasOwners
      PROVE  a \notin Known /\ a \in Members(index.aliases[index.aliasOwners[a]])
  <2>1. a \in names /\ index.aliasOwners[a] = metadata[owner(a)].document
    BY <1>3
  <2>2. owner(a) \in DOMAIN metadata /\ a \in Members(metadata[owner(a)].aliases)
    BY <1>5, <2>1
  <2>3. index.aliases[index.aliasOwners[a]] = metadata[owner(a)].aliases
    BY <1>3, <1>4, <2>1, <2>2
  <2> QED
    BY <1>4, <2>2, <2>3
<1> QED
  BY <1>7, <1>8

LeadingTo(g, k) == Kept(g.edges, {e \in Members(g.edges) : e.target = k})

LEMMA BacklinksAmong ==
    ASSUME NEW K, NEW Edge, NEW g, Indexed(g, K, Edge), NEW k \in K
    PROVE  Backlinks(g, k) = LeadingTo(g, k)
<1> DEFINE s == g.edges
<1>1. s \in Seq(Edge) /\ Backlinks(g, k) = Kept(s, To(Edge, k))
  BY DEF Indexed
<1> HIDE DEF s
<1>2. \A i \in DOMAIN s : s[i] \in To(Edge, k) <=> s[i] \in {e \in Members(s) : e.target = k}
  BY <1>1 DEF To, Members
<1>3. Kept(s, To(Edge, k)) = Kept(s, {e \in Members(s) : e.target = k})
  BY <1>2, KeptAgree
<1> QED
  BY <1>1, <1>3 DEF LeadingTo, s

LEMMA GivenIs ==
    ASSUME KnowledgeInv, index.built, NEW metadata \in Metadata,
           ValidMetadata(graph, metadata), index = KnowledgeIndex(graph, metadata),
           NEW d \in Known
    PROVE  ReferencesGiven(d) = OwnReferences(d, MetadataOf(metadata, d).references)
<1> DEFINE own == {m \in Members(metadata) : m.document = d}
           targets == IF own = {} THEN << >> ELSE TheOnly(own).references
<1>1. index.given = metadata
  BY DEF KnowledgeIndex
<1>2. ReferencesGiven(d) = OwnReferences(d, targets)
  BY <1>1 DEF ReferencesGiven, OwnReferences
<1>3. Members(graph.keys) = Known
  BY IndexIs, GraphIndexed DEF KnowledgeInv, Indexed
<1>4. \A i \in DOMAIN metadata : metadata[i].document = d
                                  => MetadataOf(metadata, d) = metadata[i]
  <2> DEFINE K == Known
  <2>1. Members(graph.keys) = K
    BY <1>3
  <2> HIDE DEF K
  <2>2. \A i \in DOMAIN metadata : MetadataOf(metadata, metadata[i].document) = metadata[i]
    BY <2>1, MetadataIs
  <2> QED
    BY <2>2
<1>5. targets = MetadataOf(metadata, d).references
  <2>1. CASE own = {}
    <3>1. {i \in DOMAIN metadata : metadata[i].document = d} = {}
      BY <2>1 DEF Members
    <3>2. MetadataOf(metadata, d) = NoMetadata
      BY <3>1 DEF MetadataOf
    <3>3. NoMetadata.references = << >>
      BY DEF NoMetadata
    <3> QED
      BY <2>1, <3>2, <3>3
  <2>2. CASE own # {}
    <3>1. TheOnly(own) \in own
      BY <2>2 DEF TheOnly
    <3>2. PICK i \in DOMAIN metadata : metadata[i] = TheOnly(own) /\ metadata[i].document = d
      BY <3>1 DEF Members
    <3>3. MetadataOf(metadata, d) = TheOnly(own)
      BY <1>4, <3>2
    <3> QED
      BY <2>2, <3>3
  <2> QED
    BY <2>1, <2>2
<1> HIDE DEF targets
<1> QED
  BY <1>2, <1>5

LEMMA ReferencesAgree ==
    ASSUME KnowledgeInv, index.built
    PROVE  /\ References(index)
                 = FlattenSeq([i \in DOMAIN graph.keys |-> ReferencesGiven(graph.keys[i])])
           /\ \A k \in Known :
                 /\ ReferencesFrom(index, k) = ReferencesGiven(k)
                 /\ ReferencedBy(index, k)
                       = Kept(References(index), {e \in Members(References(index)) : e.target = k})
<1>1. PICK metadata \in Metadata : /\ ValidMetadata(graph, metadata)
                                   /\ index = KnowledgeIndex(graph, metadata)
  BY IndexIs
<1>2. /\ WorkspaceInv /\ Ended /\ Indexed(index.references, Known, ReferenceEdges(Known))
      /\ Members(graph.keys) = Known /\ graph.keys \in Seq(Known) /\ Distinct(graph.keys)
  BY IndexIs, GraphIndexed DEF KnowledgeInv, Indexed
<1> DEFINE Given(d) == OwnReferences(d, MetadataOf(metadata, d).references)
<1>3. \A d \in Known : ReferencesGiven(d) = Given(d)
  BY <1>1, GivenIs
<1>4. AreGiven(index, Known, graph.keys, metadata)
  <2> DEFINE K == Known
  <2>1. graph.keys \in Seq(K) /\ Members(graph.keys) = K
    BY <1>2
  <2> HIDE DEF K
  <2>2. Indexed(index.references, K, ReferenceEdges(K)) /\ AreGiven(index, K, graph.keys, metadata)
    BY <1>1, <1>2, <2>1, ReferencesAre
  <2> QED
    BY <2>2 DEF K
<1>5. /\ References(index) = FlattenSeq([i \in DOMAIN graph.keys |-> Given(graph.keys[i])])
      /\ \A d \in Known : ReferencesFrom(index, d) = Given(d)
  BY <1>4 DEF AreGiven
<1> HIDE DEF Given
<1>6. [i \in DOMAIN graph.keys |-> Given(graph.keys[i])]
        = [i \in DOMAIN graph.keys |-> ReferencesGiven(graph.keys[i])]
  <2>1. \A i \in DOMAIN graph.keys : graph.keys[i] \in Known
    BY <1>2
  <2> QED
    BY <1>3, <2>1
<1>7. ASSUME NEW k \in Known
      PROVE  ReferencedBy(index, k)
                = Kept(References(index), {e \in Members(References(index)) : e.target = k})
  <2>1. Backlinks(index.references, k) = LeadingTo(index.references, k)
    BY <1>2, BacklinksAmong
  <2> QED
    BY <2>1 DEF LeadingTo, References, ReferencedBy
<1> QED
  BY <1>3, <1>5, <1>6, <1>7

LEMMA KnowledgeIsExact == KnowledgeInv => KnowledgeExact
BY AliasesAgree, ReferencesAgree DEF KnowledgeExact

\* For every metadata that BuildKnowledgeIndex accepts, an alias leads to the
\* document that lists it and back, the references of a document are those its
\* metadata gave in that order, all of them are in the order of the graph's
\* documents, and those to a document are found from its end.
THEOREM KnowledgeExactHolds == KnowledgeSpec => []KnowledgeExact
<1> QED
  BY KnowledgeInvHolds, KnowledgeIsExact, PTL

-----------------------------------------------------------------------------
(***************************************************************************)
(* The diagnostics of the relationships that were looked at.               *)
(***************************************************************************)
FragmentDiagnosis(docs, source, r, target, fragment) ==
    LET status == fragmentStatus(TextIn(docs, target), fragment)
    IN IF status = "resolved" THEN << >>
       ELSE <<Diagnostic(status, source, r.offset, target, fragment)>>

DiagnosisOf(docs, source, r, answer) ==
    IF r.local THEN FragmentDiagnosis(docs, source, r, source, r.to)
    ELSE IF answer.kind = "missing"
         THEN <<Diagnostic("document", source, r.offset, answer.target, answer.fragment)>>
    ELSE IF answer.kind # "resolved" \/ answer.fragment = NoFragment THEN << >>
    ELSE FragmentDiagnosis(docs, source, r, answer.target, answer.fragment)

DiagnosisIn(docs, ans, i, j) ==
    DiagnosisOf(docs, docs[i].key, Rel(docs, i)[j], TheOnly(AnsweredIn(ans, docs[i].key, j)))

Diagnostics(docs, kinds) ==
    [kind : kinds, source : KnownIn(docs), offset : Nat, target : Keys \cup {Elsewhere, NoKey},
     fragment : Names \cup Fragments \cup {NoFragment}]

ScanKinds == FragmentKinds \cup {"document"}

\* Each of a list is about a relationship there is.
Located(docs, s) ==
    \A n \in DOMAIN s : \E i \in DOMAIN docs : \E j \in DOMAIN Rel(docs, i) :
        s[n].source = docs[i].key /\ s[n].offset = j

OneDiagnosis(diag, source, offset, diagnosis) ==
    \E x \in DOMAIN diag : Asked(diag, source, offset) = {x} /\ diagnosis = <<diag[x]>>

IsDiagnosed(docs, ans, diag, past, next) ==
    \A i \in DOMAIN docs : \A j \in DOMAIN Rel(docs, i) :
        IF Done(i, j, past, next) /\ DiagnosisIn(docs, ans, i, j) # << >>
        THEN OneDiagnosis(diag, docs[i].key, j, DiagnosisIn(docs, ans, i, j))
        ELSE Asked(diag, docs[i].key, j) = {}

LEMMA StatusIs ==
    ASSUME NEW t \in ParsedTexts, NEW f
    PROVE  fragmentStatus(t, f) \in FragmentKinds \cup {"resolved"}
<1> DEFINE hs == {h \in DOMAIN t.headings : t.headings[h] = f}
           is == {i \in DOMAIN t.ids : t.ids[i] = f}
           n == Cardinality(hs) + Cardinality(is)
<1>1. t.headings \in Seq(Names) /\ t.ids \in Seq(Names)
  BY DEF ParsedTexts
<1>2. ASSUME NEW s \in Seq(Names)
      PROVE  Cardinality({i \in DOMAIN s : s[i] = f}) \in Nat
  <2> DEFINE S == {i \in DOMAIN s : s[i] = f}
             m == Len(s)
  <2>1. S \subseteq 1..m /\ m \in Nat
    OBVIOUS
  <2> HIDE DEF S, m
  <2>2. IsFiniteSet(1..m)
    BY <2>1, FS_Interval
  <2>3. IsFiniteSet(S)
    BY <2>1, <2>2, FS_Subset
  <2>4. Cardinality(S) \in Nat
    BY <2>3, FS_CardinalityType
  <2> QED
    BY <2>4 DEF S
<1>3. n \in Nat
  <2>1. Cardinality(hs) \in Nat /\ Cardinality(is) \in Nat
    BY <1>1, <1>2
  <2> HIDE DEF hs, is
  <2> QED
    BY <2>1
<1>4. fragmentStatus(t, f) =
        CASE f = BadFragment            -> "invalid"
          [] f # BadFragment /\ n = 0   -> "missing"
          [] f # BadFragment /\ n = 1   -> "resolved"
          [] f # BadFragment /\ n > 1   -> "ambiguous"
  BY DEF fragmentStatus
<1> HIDE DEF n
<1>5. n = 0 \/ n = 1 \/ n > 1
  BY <1>3
<1> QED
  BY <1>3, <1>4, <1>5 DEF FragmentKinds

LEMMA DiagnosisType ==
    ASSUME NEW docs, AreDocuments(docs), NEW i \in DOMAIN docs, NEW r \in Relationships,
           NEW a, ~r.local => a \in GoodAnswers(docs)
    PROVE  \/ DiagnosisOf(docs, docs[i].key, r, a) = << >>
           \/ \E x \in Diagnostics(docs, ScanKinds) :
                 /\ DiagnosisOf(docs, docs[i].key, r, a) = <<x>>
                 /\ x.source = docs[i].key /\ x.offset = r.offset
<1> DEFINE key == docs[i].key
           V == Diagnostics(docs, ScanKinds)
<1>1. key \in KnownIn(docs) /\ r.to \in Names /\ r.offset \in Nat /\ KnownIn(docs) \subseteq Keys
  BY RelIs, KeysOfIs DEF Relationships
<1>2. ASSUME NEW k \in ScanKinds, NEW t \in Keys \cup {Elsewhere, NoKey},
             NEW f \in Names \cup Fragments \cup {NoFragment}
      PROVE  \E x \in V : /\ <<Diagnostic(k, key, r.offset, t, f)>> = <<x>>
                          /\ x.source = key /\ x.offset = r.offset
  <2> DEFINE x == Diagnostic(k, key, r.offset, t, f)
  <2>1. x \in V /\ x.source = key /\ x.offset = r.offset
    BY <1>1 DEF Diagnostic, Diagnostics
  <2> HIDE DEF x, V
  <2> QED
    BY <2>1 DEF x
<1>3. ASSUME NEW t \in KnownIn(docs), NEW f \in Names \cup Fragments \cup {NoFragment}
      PROVE  \/ FragmentDiagnosis(docs, key, r, t, f) = << >>
             \/ \E x \in V : /\ FragmentDiagnosis(docs, key, r, t, f) = <<x>>
                             /\ x.source = key /\ x.offset = r.offset
  <2> DEFINE status == fragmentStatus(TextIn(docs, t), f)
  <2>1. PICK c \in DOMAIN docs : docs[c].key = t
    BY DEF KnownIn
  <2>2. TextIn(docs, t) \in ParsedTexts
    BY <2>1, TextInIs, RelIs
  <2>3. status \in FragmentKinds \cup {"resolved"}
    BY <2>2, StatusIs
  <2>4. t \in Keys \cup {Elsewhere, NoKey}
    BY <1>1
  <2> HIDE DEF V
  <2>5. status # "resolved" => \E x \in V : /\ <<Diagnostic(status, key, r.offset, t, f)>> = <<x>>
                          /\ x.source = key /\ x.offset = r.offset
    BY <1>2, <2>3, <2>4 DEF ScanKinds
  <2> QED
    BY <2>5 DEF FragmentDiagnosis
<1> HIDE DEF V
<1>4. CASE r.local
  BY <1>1, <1>3, <1>4 DEF DiagnosisOf, V
<1>5. CASE ~r.local
  <2>1. /\ a.target \in Keys \cup {Elsewhere, NoKey} /\ a.fragment \in Fragments \cup {NoFragment}
        /\ a.kind = "resolved" => a.target \in KnownIn(docs)
    BY <1>5 DEF GoodAnswers, Answers, Answer
  <2>2. CASE a.kind = "missing"
    <3>1. "document" \in ScanKinds
      BY DEF ScanKinds
    <3>2. DiagnosisOf(docs, key, r, a) = <<Diagnostic("document", key, r.offset, a.target, a.fragment)>>
      BY <1>5, <2>2 DEF DiagnosisOf
    <3> QED
      BY <1>2, <2>1, <3>1, <3>2 DEF V
  <2>3. CASE a.kind # "missing" /\ (a.kind # "resolved" \/ a.fragment = NoFragment)
    BY <1>5, <2>3 DEF DiagnosisOf
  <2>4. CASE a.kind = "resolved" /\ a.fragment # NoFragment
    BY <1>3, <1>5, <2>1, <2>4 DEF DiagnosisOf, V
  <2> QED
    BY <2>2, <2>3, <2>4
<1> QED
  BY <1>4, <1>5

Put(t, s, x) == t = Append(s, x)

PutAt(t, s, x) ==
    /\ \A source, offset : source # x.source \/ offset # x.offset =>
          Asked(t, source, offset) = Asked(s, source, offset)
    /\ \A k \in DOMAIN s : k \in DOMAIN t /\ t[k] = s[k]
    /\ \A k \in DOMAIN t : k \in DOMAIN s \/ t[k] = x
    /\ Asked(s, x.source, x.offset) = {} =>
          \E k \in DOMAIN t : Asked(t, x.source, x.offset) = {k} /\ t[k] = x

LEMMA PutIs ==
    ASSUME NEW V, NEW s \in Seq(V), NEW x \in V, NEW t, Put(t, s, x)
    PROVE  t \in Seq(V) /\ PutAt(t, s, x)
<1> DEFINE n == Len(s)
<1>1. /\ n \in Nat /\ DOMAIN s = 1..n /\ DOMAIN t = 1..(n + 1) /\ t \in Seq(V)
      /\ t[n + 1] = x /\ \A k \in 1..n : t[k] = s[k]
  BY DEF Put
<1> HIDE DEF n
<1>2. \A k \in 1..(n + 1) : k \in 1..n \/ k = n + 1
  BY <1>1
<1>3. n + 1 \in 1..(n + 1) /\ \A k \in 1..n : k \in 1..(n + 1)
  BY <1>1
<1>4. \A source, offset : source # x.source \/ offset # x.offset =>
          Asked(t, source, offset) = Asked(s, source, offset)
  BY <1>1, <1>2, <1>3 DEF Asked
<1>5. Asked(s, x.source, x.offset) = {} => Asked(t, x.source, x.offset) = {n + 1}
  BY <1>1, <1>2, <1>3 DEF Asked
<1> QED
  BY <1>1, <1>2, <1>3, <1>4, <1>5 DEF PutAt

-----------------------------------------------------------------------------
Scanned(docs, ans, diag, past, next) ==
    /\ diag \in Seq(Diagnostics(docs, ScanKinds))
    /\ Located(docs, diag) /\ IsDiagnosed(docs, ans, diag, past, next)

\* What a relationship adds to the diagnostics.
AddsDiagnosis(docs, new, diag, diagnosis, source, offset) ==
    \/ diagnosis = << >> /\ new = diag
    \/ \E x \in Diagnostics(docs, ScanKinds) :
          diagnosis = <<x>> /\ x.source = source /\ x.offset = offset /\ Put(new, diag, x)

LEMMA DiagnosisTaken ==
    ASSUME NEW docs, AreDocuments(docs), NEW ans, NEW more, NEW diag,
           NEW past \in Nat, NEW c, c = past + 1, NEW next \in Nat, NEW after, after = next + 1,
           c \in DOMAIN docs, next \in DOMAIN Rel(docs, c),
           SameAnswers(docs, ans, more, past, next), Scanned(docs, ans, diag, past, next),
           NEW new,
           AddsDiagnosis(docs, new, diag, DiagnosisIn(docs, more, c, next), docs[c].key, next)
    PROVE  Scanned(docs, more, new, past, after)
<1> DEFINE key == docs[c].key
           V == Diagnostics(docs, ScanKinds)
           D(i, j) == DiagnosisIn(docs, more, i, j)
<1>1. \A i, j \in DOMAIN docs : docs[i].key = docs[j].key => i = j
  BY DEF AreDocuments
<1>2. ASSUME NEW i \in DOMAIN docs, NEW j \in DOMAIN Rel(docs, i), i # c \/ j # next
      PROVE  docs[i].key # key \/ j # next
  BY <1>1, <1>2
<1>3. ASSUME NEW i \in DOMAIN docs, NEW j \in DOMAIN Rel(docs, i), i # c \/ j # next
      PROVE  Done(i, j, past, after) <=> Done(i, j, past, next)
  <2>1. j \in Nat
    BY RelIs
  <2> QED
    BY <1>3, <2>1 DEF Done
<1>4. ~Done(c, next, past, next) /\ Done(c, next, past, after)
  BY DEF Done
<1>5. Asked(diag, key, next) = {}
  BY <1>4 DEF Scanned, IsDiagnosed
<1>6. ASSUME NEW i \in DOMAIN docs, NEW j \in DOMAIN Rel(docs, i), Done(i, j, past, next)
      PROVE  DiagnosisIn(docs, ans, i, j) = D(i, j)
  <2>1. AnsweredIn(more, docs[i].key, j) = AnsweredIn(ans, docs[i].key, j)
    BY <1>6 DEF SameAnswers
  <2> QED
    BY <2>1, Zenon DEF DiagnosisIn
<1>7. ASSUME NEW i \in DOMAIN docs, NEW j \in DOMAIN Rel(docs, i), i # c \/ j # next
      PROVE  IF Done(i, j, past, after) /\ D(i, j) # << >>
             THEN OneDiagnosis(diag, docs[i].key, j, D(i, j))
             ELSE Asked(diag, docs[i].key, j) = {}
  <2>1. IF Done(i, j, past, next) /\ DiagnosisIn(docs, ans, i, j) # << >>
        THEN OneDiagnosis(diag, docs[i].key, j, DiagnosisIn(docs, ans, i, j))
        ELSE Asked(diag, docs[i].key, j) = {}
    BY DEF Scanned, IsDiagnosed
  <2>2. Done(i, j, past, after) <=> Done(i, j, past, next)
    BY <1>3, <1>7
  <2>3. Done(i, j, past, next) => DiagnosisIn(docs, ans, i, j) = D(i, j)
    BY <1>6
  <2> HIDE DEF D
  <2>4. CASE Done(i, j, past, next)
    <3>1. DiagnosisIn(docs, ans, i, j) = D(i, j)
      BY <2>3, <2>4
    <3> QED
      BY <2>1, <2>2, <2>4, <3>1
  <2>5. CASE ~Done(i, j, past, next)
    BY <2>1, <2>2, <2>5
  <2> QED
    BY <2>4, <2>5
<1> HIDE DEF D
<1>8. CASE D(c, next) = << >> /\ new = diag
  <2>1. ASSUME NEW i \in DOMAIN docs, NEW j \in DOMAIN Rel(docs, i)
        PROVE  IF Done(i, j, past, after) /\ D(i, j) # << >>
               THEN OneDiagnosis(diag, docs[i].key, j, D(i, j))
               ELSE Asked(diag, docs[i].key, j) = {}
    <3>1. CASE i = c /\ j = next
      BY <1>5, <1>8, <3>1
    <3> QED
      BY <1>7, <3>1
  <2> QED
    BY <1>8, <2>1 DEF Scanned, IsDiagnosed, D
<1>9. ASSUME NEW x \in V, D(c, next) = <<x>>, x.source = key, x.offset = next, Put(new, diag, x)
      PROVE  Scanned(docs, more, new, past, after)
  <2>1. diag \in Seq(V)
    BY DEF Scanned
  <2>2. new \in Seq(V) /\ PutAt(new, diag, x)
    <3> HIDE DEF V
    <3> QED
      BY <1>9, <2>1, PutIs
  <2>3. PICK k \in DOMAIN new : Asked(new, key, next) = {k} /\ new[k] = x
    BY <1>5, <1>9, <2>2 DEF PutAt
  <2>4. ASSUME NEW i \in DOMAIN docs, NEW j \in DOMAIN Rel(docs, i)
        PROVE  IF Done(i, j, past, after) /\ D(i, j) # << >>
               THEN OneDiagnosis(new, docs[i].key, j, D(i, j))
               ELSE Asked(new, docs[i].key, j) = {}
    <3>1. CASE i = c /\ j = next
      <4>1. OneDiagnosis(new, key, next, D(c, next))
        BY <1>9, <2>3 DEF OneDiagnosis
      <4>2. D(c, next) # << >>
        <5>1. <<x>> # << >>
          OBVIOUS
        <5> QED
          BY <1>9, <5>1
      <4> QED
        BY <1>4, <3>1, <4>1, <4>2
    <3>2. CASE i # c \/ j # next
      <4>1. Asked(new, docs[i].key, j) = Asked(diag, docs[i].key, j)
        <5>1. docs[i].key # x.source \/ j # x.offset
          BY <1>2, <1>9, <3>2
        <5> QED
          BY <2>2, <5>1 DEF PutAt
      <4>2. OneDiagnosis(diag, docs[i].key, j, D(i, j)) => OneDiagnosis(new, docs[i].key, j, D(i, j))
        BY <2>2, <4>1 DEF OneDiagnosis, PutAt
      <4> QED
        BY <1>7, <3>2, <4>1, <4>2
    <3> QED
      BY <3>1, <3>2
  <2>5. Located(docs, new)
    <3> SUFFICES ASSUME NEW n \in DOMAIN new
                 PROVE  \E i \in DOMAIN docs : \E j \in DOMAIN Rel(docs, i) :
                            new[n].source = docs[i].key /\ new[n].offset = j
      BY DEF Located
    <3>1. CASE new[n] = x
      BY <1>9, <3>1
    <3>2. CASE n \in DOMAIN diag
      <4>1. new[n] = diag[n]
        BY <2>2, <3>2 DEF PutAt
      <4> QED
        BY <3>2, <4>1 DEF Scanned, Located
    <3> QED
      BY <2>2, <3>1, <3>2 DEF PutAt
  <2> QED
    BY <2>2, <2>4, <2>5 DEF Scanned, IsDiagnosed, D
<1> QED
  BY <1>8, <1>9 DEF AddsDiagnosis, D

LEMMA DiagnosisPassed ==
    ASSUME NEW docs, AreDocuments(docs), NEW ans, NEW diag, NEW past \in Nat, NEW c, c = past + 1,
           c \in DOMAIN docs, NEW next, next = Len(Rel(docs, c)) + 1,
           Scanned(docs, ans, diag, past, next)
    PROVE  Scanned(docs, ans, diag, c, 1)
<1>1. ASSUME NEW i \in DOMAIN docs, NEW j \in DOMAIN Rel(docs, i)
      PROVE  Done(i, j, c, 1) <=> Done(i, j, past, next)
  <2> DEFINE n == Len(Rel(docs, c))
  <2>1. j \in 1..Len(Rel(docs, i)) /\ n \in Nat /\ Len(Rel(docs, i)) \in Nat
    BY RelIs
  <2>2. i \in Nat
    BY DEF AreDocuments
  <2>3. i = c => j <= n
    BY <2>1
  <2>4. next = n + 1
    OBVIOUS
  <2> HIDE DEF n
  <2>5. j \in Nat /\ j >= 1
    BY <2>1
  <2> QED
    BY <2>1, <2>2, <2>3, <2>4, <2>5 DEF Done
<1>2. ASSUME NEW i \in DOMAIN docs, NEW j \in DOMAIN Rel(docs, i)
      PROVE  IF Done(i, j, c, 1) /\ DiagnosisIn(docs, ans, i, j) # << >>
             THEN OneDiagnosis(diag, docs[i].key, j, DiagnosisIn(docs, ans, i, j))
             ELSE Asked(diag, docs[i].key, j) = {}
  <2>1. IF Done(i, j, past, next) /\ DiagnosisIn(docs, ans, i, j) # << >>
        THEN OneDiagnosis(diag, docs[i].key, j, DiagnosisIn(docs, ans, i, j))
        ELSE Asked(diag, docs[i].key, j) = {}
    BY DEF Scanned, IsDiagnosed
  <2> QED
    BY <1>1, <2>1
<1> QED
  BY <1>2 DEF Scanned, IsDiagnosed

-----------------------------------------------------------------------------
(***************************************************************************)
(* What a call to ValidateWorkspace has diagnosed so far, and in the end.  *)
(***************************************************************************)
Reported(scanned) ==
    /\ Scanned(documents, answers, scanned, Len(documents), 1)
    /\ diagnostics = scanned \o appendUnresolvedReferences
                        \o appendOrphanDiagnostics \o appendManagedTOCDiagnostics

DiagnosticsInv ==
    /\ call = "validate" => Scanned(documents, answers, diagnostics, passed, link)
    /\ result = "report" => \E scanned : Reported(scanned)

LEMMA AddedDiagnosis ==
    ASSUME NEW docs, NEW diag \in Seq(Diagnostics(docs, ScanKinds)), NEW diagnosis, NEW source,
           NEW offset,
           \/ diagnosis = << >>
           \/ \E x \in Diagnostics(docs, ScanKinds) :
                 diagnosis = <<x>> /\ x.source = source /\ x.offset = offset,
           NEW new, new = diag \o diagnosis
    PROVE  AddsDiagnosis(docs, new, diag, diagnosis, source, offset)
<1> DEFINE V == Diagnostics(docs, ScanKinds)
<1>0. diag \in Seq(V)
  OBVIOUS
<1> HIDE DEF V
<1>1. CASE diagnosis = << >>
  <2>1. diag \o << >> = diag
    BY <1>0
  <2> QED
    BY <1>1, <2>1 DEF AddsDiagnosis
<1>2. ASSUME NEW x \in V, diagnosis = <<x>>, x.source = source, x.offset = offset
      PROVE  AddsDiagnosis(docs, new, diag, diagnosis, source, offset)
  <2>1. diag \o <<x>> = Append(diag, x)
    BY <1>0
  <2>2. Put(new, diag, x)
    BY <1>2, <2>1 DEF Put
  <2> QED
    BY <1>2, <2>2 DEF AddsDiagnosis, V
<1> QED
  BY <1>1, <1>2 DEF V

LEMMA LookedAt ==
    ASSUME WorkspaceInv, DiagnosticsInv, call = "validate", Asking, Frame, link' = link + 1,
           NEW c, NEW r, r = Current, At(c, r), SameAnswers(documents, answers, answers', c, link),
           AddsDiagnosis(documents, diagnostics', diagnostics,
                         DiagnosisIn(documents, answers', c + 1, link), Source, link)
    PROVE  DiagnosticsInv'
<1> DEFINE i == c + 1
           after == link + 1
<1>1. /\ AreDocuments(documents) /\ c \in Nat /\ i = c + 1 /\ i \in DOMAIN documents
      /\ link \in Nat /\ after = link + 1 /\ link \in DOMAIN Rel(documents, i)
      /\ Source = documents[i].key /\ result = "none" /\ passed = c /\ link' = after
  BY DEF WorkspaceInv, Types, At
<1>2. Scanned(documents, answers, diagnostics, c, link)
  BY <1>1 DEF DiagnosticsInv
<1>3. AddsDiagnosis(documents, diagnostics', diagnostics,
                    DiagnosisIn(documents, answers', i, link), documents[i].key, link)
  BY <1>1, Zenon
<1>4. passed' = c
  BY <1>1, Advanced
<1>5. UNCHANGED <<documents, call, result>>
  BY DEF Frame
<1> HIDE DEF i, after
<1>6. Scanned(documents, answers', diagnostics', c, after)
  BY <1>1, <1>2, <1>3, DiagnosisTaken
<1> QED
  BY <1>1, <1>4, <1>5, <1>6 DEF DiagnosticsInv

LEMMA FragmentDiagnosisIs ==
    \A source, r, target, fragment :
        fragmentDiagnostic(source, r, target, fragment)
            = FragmentDiagnosis(documents, source, r, target, fragment)
BY DEF fragmentDiagnostic, FragmentDiagnosis, TextOf

LEMMA ScanLocalDiagnosed ==
    ASSUME WorkspaceInv, DiagnosticsInv, ScanLocal
    PROVE  DiagnosticsInv'
<1>1. /\ call = "validate" /\ Asking /\ Current.local /\ Frame /\ link' = link + 1
      /\ answers' = answers
      /\ diagnostics' = diagnostics \o fragmentDiagnostic(Source, Current, Source, Current.to)
  BY DEF ScanLocal, Advance, Frame, argVars
<1> DEFINE c == doc - 1
           r == Current
           i == c + 1
           d == DiagnosisIn(documents, answers, i, link)
<1>2. At(c, r) /\ r = Current
  BY <1>1, AskingAt
<1> HIDE DEF c, r
<1>3. /\ AreDocuments(documents) /\ i \in DOMAIN documents /\ r \in Relationships
      /\ r = Rel(documents, i)[link] /\ r.offset = link /\ Source = documents[i].key /\ r.local
      /\ passed = c
  BY <1>1, <1>2 DEF At, WorkspaceInv, Types
<1> HIDE DEF i
<1>4. /\ d = DiagnosisOf(documents, Source, r, TheOnly(AnsweredIn(answers, documents[i].key, link)))
      /\ d = FragmentDiagnosis(documents, Source, r, Source, r.to)
  BY <1>3 DEF DiagnosisIn, DiagnosisOf
<1>5. diagnostics' = diagnostics \o d
  BY <1>1, <1>2, <1>4, FragmentDiagnosisIs
<1>6. \/ d = << >>
      \/ \E x \in Diagnostics(documents, ScanKinds) : d = <<x>> /\ x.source = Source /\ x.offset = link
  <2> DEFINE a == TheOnly(AnsweredIn(answers, documents[i].key, link))
  <2>1. d = DiagnosisOf(documents, documents[i].key, r, a)
    BY <1>3, <1>4
  <2> HIDE DEF a, d
  <2>2. ASSUME NEW p \in DOMAIN documents, NEW q \in Relationships, q.local, NEW b
        PROVE  \/ DiagnosisOf(documents, documents[p].key, q, b) = << >>
               \/ \E x \in Diagnostics(documents, ScanKinds) :
                     /\ DiagnosisOf(documents, documents[p].key, q, b) = <<x>>
                     /\ x.source = documents[p].key /\ x.offset = q.offset
    BY SMTT(40), <1>3, <2>2, DiagnosisType
  <2>3. \/ DiagnosisOf(documents, documents[i].key, r, a) = << >>
        \/ \E x \in Diagnostics(documents, ScanKinds) :
              /\ DiagnosisOf(documents, documents[i].key, r, a) = <<x>>
              /\ x.source = documents[i].key /\ x.offset = r.offset
    BY SMTT(40), <1>3, <2>2
  <2> QED
    BY <1>3, <2>1, <2>3
<1>7. diagnostics \in Seq(Diagnostics(documents, ScanKinds))
  BY <1>1 DEF DiagnosticsInv, Scanned
<1>8. AddsDiagnosis(documents, diagnostics', diagnostics, d, Source, link)
  <2> HIDE DEF d
  <2> QED
    BY <1>5, <1>6, <1>7, AddedDiagnosis
<1>9. SameAnswers(documents, answers, answers', c, link)
  BY <1>1 DEF SameAnswers
<1>10. AddsDiagnosis(documents, diagnostics', diagnostics,
                     DiagnosisIn(documents, answers', c + 1, link), Source, link)
  BY <1>1, <1>8, Zenon DEF d, i
<1> QED
  BY <1>1, <1>2, <1>9, <1>10, LookedAt

LEMMA AnswerDiagnosed ==
    ASSUME WorkspaceInv, DiagnosticsInv, call = "validate", Asking, ~Current.local, Frame,
           link' = link + 1, NEW a \in GoodAnswers(documents), Record(a),
           diagnostics' = diagnostics \o DiagnosisOf(documents, Source, Current, a)
    PROVE  DiagnosticsInv'
<1> DEFINE c == doc - 1
           r == Current
           i == c + 1
           d == DiagnosisOf(documents, Source, r, a)
<1>1. At(c, r) /\ r = Current
  BY AskingAt
<1> HIDE DEF c, r
<1>2. /\ AreDocuments(documents) /\ i \in DOMAIN documents /\ r \in Relationships
      /\ r = Rel(documents, i)[link] /\ r.offset = link /\ Source = documents[i].key /\ ~r.local
  BY <1>1 DEF At, WorkspaceInv, Types
<1>3. /\ SameAnswers(documents, answers, answers', c, link)
      /\ AnsweredIn(answers', documents[i].key, link) = {a}
  BY <1>1, AnswerLearned
<1> HIDE DEF i
<1>4. DiagnosisIn(documents, answers', i, link) = d
  <2>1. TheOnly({a}) = a
    BY DEF TheOnly
  <2> QED
    BY <1>2, <1>3, <2>1 DEF DiagnosisIn
<1>5. \/ d = << >>
      \/ \E x \in Diagnostics(documents, ScanKinds) : d = <<x>> /\ x.source = Source /\ x.offset = link
  <2>1. \/ DiagnosisOf(documents, documents[i].key, r, a) = << >>
        \/ \E x \in Diagnostics(documents, ScanKinds) :
              /\ DiagnosisOf(documents, documents[i].key, r, a) = <<x>>
              /\ x.source = documents[i].key /\ x.offset = r.offset
    BY <1>2, DiagnosisType
  <2> QED
    BY <1>2, <2>1
<1>6. diagnostics \in Seq(Diagnostics(documents, ScanKinds))
  BY DEF DiagnosticsInv, Scanned
<1>7. diagnostics' = diagnostics \o d
  BY <1>1
<1>8. AddsDiagnosis(documents, diagnostics', diagnostics, d, Source, link)
  <2> HIDE DEF d
  <2> QED
    BY <1>5, <1>6, <1>7, AddedDiagnosis
<1>9. AddsDiagnosis(documents, diagnostics', diagnostics,
                    DiagnosisIn(documents, answers', c + 1, link), Source, link)
  BY <1>4, <1>8, Zenon DEF i
<1> QED
  BY <1>1, <1>3, <1>9, LookedAt

-----------------------------------------------------------------------------
LEMMA AcceptedDiagnosed ==
    ASSUME WorkspaceInv, DiagnosticsInv, NEW a \in Answers,
           acceptIgnored(a) \/ acceptMissingResolution(a) \/ acceptResolvedResolution(a)
    PROVE  DiagnosticsInv'
<1> DEFINE d == DiagnosisOf(documents, Source, Current, a)
           V == Diagnostics(documents, ScanKinds)
<1>1. /\ call = "validate" /\ Asking /\ ~Current.local /\ Frame /\ link' = link + 1 /\ Record(a)
  BY DEF acceptIgnored, acceptMissingResolution, acceptResolvedResolution, Advance, Frame, argVars
<1>2. diagnostics \in Seq(V)
  BY <1>1 DEF DiagnosticsInv, Scanned
<1>3. CASE acceptIgnored(a)
  <2>1. d = << >> /\ a \in GoodAnswers(documents)
    BY <1>1, <1>3 DEF acceptIgnored, Ignored, Answer, DiagnosisOf, GoodAnswers
  <2>2. diagnostics' = diagnostics
    BY <1>3 DEF acceptIgnored
  <2> HIDE DEF V, d
  <2>3. diagnostics' = diagnostics \o d
    BY <1>2, <2>1, <2>2
  <2> QED
    BY <1>1, <2>1, <2>3, AnswerDiagnosed DEF d
<1>4. CASE acceptMissingResolution(a)
  <2> DEFINE x == Diagnostic("document", Source, Current.offset, a.target, a.fragment)
  <2>1. d = <<x>> /\ a \in GoodAnswers(documents)
    BY <1>1, <1>4 DEF acceptMissingResolution, DiagnosisOf, GoodAnswers
  <2>2. diagnostics' = Append(diagnostics, x)
    BY <1>4 DEF acceptMissingResolution
  <2>3. x \in V
    <3>1. At(doc - 1, Current)
      BY <1>1, AskingAt
    <3>2. Source \in KnownIn(documents) /\ Current.offset \in Nat
      BY <3>1 DEF At, KnownIn
    <3>3. a.target \in Keys \cup {Elsewhere, NoKey} /\ a.fragment \in Fragments \cup {NoFragment}
      BY DEF Answers, Answer
    <3> QED
      BY <3>2, <3>3 DEF Diagnostic, Diagnostics, ScanKinds
  <2> HIDE DEF V, d, x
  <2>4. diagnostics' = diagnostics \o d
    BY <1>2, <2>1, <2>2, <2>3
  <2> QED
    BY <1>1, <2>1, <2>4, AnswerDiagnosed DEF d
<1>5. CASE acceptResolvedResolution(a)
  <2>1. a.kind = "resolved" /\ a.target \in Known
    BY <1>5 DEF acceptResolvedResolution
  <2>2. a \in GoodAnswers(documents)
    BY <2>1 DEF GoodAnswers, Known, KnownIn
  <2>3. d = IF a.fragment = NoFragment THEN << >>
            ELSE fragmentDiagnostic(Source, Current, a.target, a.fragment)
    BY <1>1, <2>1, FragmentDiagnosisIs DEF DiagnosisOf
  <2>4. diagnostics' = diagnostics \o d
    BY <1>5, <2>3 DEF acceptResolvedResolution
  <2> QED
    BY <1>1, <2>2, <2>4, AnswerDiagnosed
<1> QED
  BY <1>3, <1>4, <1>5

LEMMA EndDocumentDiagnosed ==
    ASSUME WorkspaceInv, DiagnosticsInv, EndDocument
    PROVE  DiagnosticsInv'
<1> DEFINE c == doc - 1
           n == Len(Rel(documents, doc)) + 1
<1>1. /\ call # "none" /\ doc \in DOMAIN documents /\ link = Len(Links) + 1
      /\ doc' = doc + 1 /\ link' = 1
      /\ UNCHANGED <<call, documents, diagnostics, result, answers>>
  BY DEF EndDocument, Running, argVars
<1>2. AreDocuments(documents) /\ doc \in Nat /\ result = "none"
  BY <1>1 DEF WorkspaceInv, Types, Positions
<1>3. doc >= 1
  BY <1>1, <1>2 DEF AreDocuments
<1>4. c \in Nat /\ doc = c + 1 /\ passed = c /\ passed' = doc /\ link = n
  BY <1>1, <1>2, <1>3 DEF passed, Links, Rel
<1> HIDE DEF c
<1>5. ASSUME call = "validate" PROVE Scanned(documents, answers, diagnostics, doc, 1)
  <2>1. Scanned(documents, answers, diagnostics, c, n)
    BY <1>4, <1>5 DEF DiagnosticsInv
  <2> QED
    BY <1>1, <1>2, <1>4, <2>1, DiagnosisPassed
<1> QED
  BY <1>1, <1>2, <1>4, <1>5 DEF DiagnosticsInv

LEMMA ReportDiagnosed ==
    ASSUME WorkspaceInv, DiagnosticsInv, Report
    PROVE  DiagnosticsInv'
<1>1. /\ call = "validate" /\ doc = Len(documents) + 1 /\ call' = "none"
      /\ UNCHANGED <<documents, options, graph, answers>>
      /\ diagnostics' = diagnostics \o appendUnresolvedReferences
                          \o appendOrphanDiagnostics \o appendManagedTOCDiagnostics
  BY DEF Report, argVars
<1>2. AreDocuments(documents) /\ link = 1 /\ passed = Len(documents)
  <2>1. AreDocuments(documents) /\ (doc \notin DOMAIN documents => link = 1)
    BY DEF WorkspaceInv, Types, Positions
  <2>2. Len(documents) \in Nat /\ DOMAIN documents = 1..Len(documents)
    BY <2>1 DEF AreDocuments
  <2> QED
    BY <1>1, <2>1, <2>2 DEF passed
<1>3. Scanned(documents, answers, diagnostics, Len(documents), 1)
  BY <1>1, <1>2 DEF DiagnosticsInv
<1>4. /\ appendUnresolvedReferences' = appendUnresolvedReferences
      /\ appendOrphanDiagnostics' = appendOrphanDiagnostics
      /\ appendManagedTOCDiagnostics' = appendManagedTOCDiagnostics
  BY <1>1 DEF appendUnresolvedReferences, appendOrphanDiagnostics, appendManagedTOCDiagnostics,
              TextOf, Stale
<1>5. (\E scanned : Reported(scanned))'
  BY <1>1, <1>3, <1>4 DEF Reported
<1> QED
  BY <1>1, <1>5 DEF DiagnosticsInv

LEMMA ScanStarts ==
    ASSUME NEW docs, AreDocuments(docs)
    PROVE  Scanned(docs, << >>, << >>, 0, 1)
<1>1. ASSUME NEW i \in DOMAIN docs, NEW j \in DOMAIN Rel(docs, i)
      PROVE  ~Done(i, j, 0, 1) /\ Asked(<< >>, docs[i].key, j) = {}
  <2>1. j \in Nat /\ j >= 1
    BY RelIs
  <2>2. i \in Nat /\ i >= 1
    BY DEF AreDocuments
  <2> QED
    BY <2>1, <2>2 DEF Done, Asked
<1>2. IsDiagnosed(docs, << >>, << >>, 0, 1)
  BY <1>1 DEF IsDiagnosed
<1>3. << >> \in Seq(Diagnostics(docs, ScanKinds)) /\ Located(docs, << >>)
  BY DEF Located
<1> QED
  BY <1>2, <1>3 DEF Scanned

LEMMA ValidateWorkspaceDiagnosed ==
    ASSUME WorkspaceInv, NEW keys \in DocumentLists, NEW roots \in RootLists,
           NEW managed \in ManagedLists, ValidateWorkspace(keys, roots, managed)
    PROVE  DiagnosticsInv'
<1>1. WorkspaceInv'
  BY ValidateWorkspaceStep
<1>2. AreDocuments(documents')
  BY <1>1 DEF WorkspaceInv, Types
<1>3. /\ call' = "validate" /\ result' = "none" /\ doc' = 1 /\ link' = 1 /\ answers' = << >>
      /\ diagnostics' = << >>
  BY DEF ValidateWorkspace, Begin
<1>4. passed' = 0
  BY <1>3 DEF passed
<1>5. Scanned(documents', answers', diagnostics', 0, 1)
  BY <1>2, <1>3, ScanStarts
<1> QED
  BY <1>3, <1>4, <1>5 DEF DiagnosticsInv

LEMMA NothingDiagnosed ==
    ASSUME call' # "validate", result' # "report"
    PROVE  DiagnosticsInv'
BY DEF DiagnosticsInv

LEMMA DiagnosticsStay ==
    ASSUME DiagnosticsInv,
           UNCHANGED <<call, documents, options, doc, link, graph, diagnostics, result, answers>>
    PROVE  DiagnosticsInv'
<1>1. passed' = passed
  BY DEF passed
<1>2. /\ appendUnresolvedReferences' = appendUnresolvedReferences
      /\ appendOrphanDiagnostics' = appendOrphanDiagnostics
      /\ appendManagedTOCDiagnostics' = appendManagedTOCDiagnostics
  BY DEF appendUnresolvedReferences, appendOrphanDiagnostics, appendManagedTOCDiagnostics,
         TextOf, Stale
<1>3. (\E scanned : Reported(scanned))' <=> (\E scanned : Reported(scanned))
  BY <1>2 DEF Reported
<1> QED
  BY <1>1, <1>3 DEF DiagnosticsInv

LEMMA DiagnosticsStep == WorkspaceInv /\ DiagnosticsInv /\ [Next]_vars => DiagnosticsInv'
<1> SUFFICES ASSUME WorkspaceInv, DiagnosticsInv, [Next]_vars PROVE DiagnosticsInv'
  OBVIOUS
<1>0. call # "none" => result = "none"
  BY DEF WorkspaceInv, Types
<1>1. CASE \E keys \in DocumentLists : BuildDocumentGraph(keys)
  BY <1>1, NothingDiagnosed DEF BuildDocumentGraph, Begin
<1>2. CASE \E keys \in DocumentLists, roots \in RootLists, managed \in ManagedLists :
              ValidateWorkspace(keys, roots, managed) \/ Refuse(keys, roots, managed)
  <2> SUFFICES ASSUME NEW keys \in DocumentLists, NEW roots \in RootLists,
                      NEW managed \in ManagedLists, Refuse(keys, roots, managed)
               PROVE  DiagnosticsInv'
    BY <1>2, ValidateWorkspaceDiagnosed
  <2>1. call' # "validate" /\ result' # "report"
    BY DEF Refuse
  <2> QED
    BY <2>1, NothingDiagnosed
<1>3. CASE GraphLocal \/ GraphSkip \/ EndGraph
  <2>1. call' # "validate" /\ result' # "report"
    BY <1>0, <1>3 DEF GraphLocal, GraphSkip, EndGraph, Advance
  <2> QED
    BY <2>1, NothingDiagnosed
<1>4. CASE ScanLocal \/ EndDocument \/ Report
  BY <1>4, ScanLocalDiagnosed, EndDocumentDiagnosed, ReportDiagnosed
<1>5. CASE \E a \in Answers :
              \/ GraphResolved(a) \/ GraphRejects(a) \/ acceptIgnored(a)
              \/ acceptMissingResolution(a) \/ acceptResolvedResolution(a)
              \/ rejectResolution(a)
  <2> SUFFICES ASSUME NEW a \in Answers, GraphResolved(a) \/ GraphRejects(a) \/ rejectResolution(a)
               PROVE  DiagnosticsInv'
    BY <1>5, AcceptedDiagnosed
  <2>1. call' # "validate" /\ result' # "report"
    BY <1>0 DEF GraphResolved, GraphRejects, rejectResolution, Advance, Fail
  <2> QED
    BY <2>1, NothingDiagnosed
<1>6. CASE ReportFails
  BY <1>6, NothingDiagnosed DEF ReportFails, Fail
<1>7. CASE \E i \in DOMAIN repairs : ApplyRepair(repairs[i])
  BY <1>7, DiagnosticsStay DEF ApplyRepair, argVars
<1>8. CASE \E key \in Keys, text \in Writes : Write(key, text)
  BY <1>8, DiagnosticsStay DEF Write, argVars
<1>9. CASE UNCHANGED vars
  BY <1>9, DiagnosticsStay DEF vars, argVars
<1> QED
  BY <1>1, <1>2, <1>3, <1>4, <1>5, <1>6, <1>7, <1>8, <1>9 DEF Next

LEMMA DiagnosticsInvHolds == Spec => [](WorkspaceInv /\ DiagnosticsInv)
<1>1. Init => DiagnosticsInv
  BY DEF Init, DiagnosticsInv
<1> QED
  BY <1>1, WorkspaceInvHolds, DiagnosticsStep, PTL DEF Spec

-----------------------------------------------------------------------------
(***************************************************************************)
(* Every answer is about a relationship.                                   *)
(***************************************************************************)
LEMMA AnswerLocated ==
    ASSUME WorkspaceInv, Located(documents, answers), Asking, NEW a \in Answers, Record(a),
           UNCHANGED documents
    PROVE  Located(documents, answers)'
<1> DEFINE c == doc - 1
           i == c + 1
           x == [source |-> documents[i].key, offset |-> link, answer |-> a]
<1>1. At(c, Current)
  BY AskingAt
<1> HIDE DEF c
<1>2. /\ i \in DOMAIN documents /\ link \in DOMAIN Rel(documents, i) /\ link \in Nat
      /\ AreDocuments(documents) /\ answers \in Seq(Answered)
      /\ Source = documents[i].key /\ Current.offset = link
  BY <1>1 DEF At, WorkspaceInv, Types, Progress
<1>3. documents[i].key \in Keys
  BY <1>2, RelIs, KeysOfIs
<1>4. x \in Answered /\ x.source = documents[i].key /\ x.offset = link
  BY <1>2, <1>3 DEF Answered
<1>5. Put(answers', answers, x)
  BY <1>2 DEF Record, Put
<1> HIDE DEF i, x
<1>6. PutAt(answers', answers, x)
  BY <1>2, <1>4, <1>5, PutIs
<1>7. ASSUME NEW n \in DOMAIN answers'
      PROVE  \E p \in DOMAIN documents : \E j \in DOMAIN Rel(documents, p) :
                 answers'[n].source = documents[p].key /\ answers'[n].offset = j
  <2>1. CASE n \in DOMAIN answers
    <3>1. answers'[n] = answers[n]
      BY <1>6, <2>1 DEF PutAt
    <3> QED
      BY <2>1, <3>1 DEF Located
  <2>2. CASE answers'[n] = x
    BY <1>2, <1>4, <2>2
  <2> QED
    BY <1>6, <2>1, <2>2 DEF PutAt
<1> QED
  BY <1>7 DEF Located

LEMMA AnswersLocatedStep ==
    WorkspaceInv /\ Located(documents, answers) /\ [Next]_vars => Located(documents, answers)'
<1> SUFFICES ASSUME WorkspaceInv, Located(documents, answers), [Next]_vars
             PROVE  Located(documents, answers)'
  OBVIOUS
<1>1. answers' = << >> => Located(documents, answers)'
  BY DEF Located
<1>2. UNCHANGED <<documents, answers>> => Located(documents, answers)'
  BY DEF Located
<1>3. CASE GraphSkip
  <2>1. Ignored \in Answers
    BY IgnoredIs DEF GoodAnswers
  <2> QED
    BY <1>3, <2>1, AnswerLocated DEF GraphSkip, Advance, argVars
<1>4. CASE \E a \in Answers :
              \/ GraphResolved(a) \/ GraphRejects(a) \/ acceptIgnored(a)
              \/ acceptMissingResolution(a) \/ acceptResolvedResolution(a)
              \/ rejectResolution(a)
  <2> SUFFICES ASSUME NEW a \in Answers,
                      \/ GraphResolved(a) \/ GraphRejects(a) \/ acceptIgnored(a)
                      \/ acceptMissingResolution(a) \/ acceptResolvedResolution(a)
                      \/ rejectResolution(a)
               PROVE  Located(documents, answers)'
    BY <1>4
  <2>1. CASE GraphRejects(a) \/ rejectResolution(a)
    BY <1>1, <2>1 DEF GraphRejects, rejectResolution, Fail
  <2>2. CASE GraphResolved(a) \/ acceptIgnored(a) \/ acceptMissingResolution(a)
               \/ acceptResolvedResolution(a)
    <3>1. Asking /\ Record(a) /\ UNCHANGED documents
      BY <2>2 DEF GraphResolved, acceptIgnored, acceptMissingResolution,
                  acceptResolvedResolution, Advance, argVars
    <3> QED
      BY <3>1, AnswerLocated
  <2> QED
    BY <2>1, <2>2
<1>5. CASE \E keys \in DocumentLists : BuildDocumentGraph(keys)
  BY <1>1, <1>5 DEF BuildDocumentGraph, Begin
<1>6. CASE \E keys \in DocumentLists, roots \in RootLists, managed \in ManagedLists :
              ValidateWorkspace(keys, roots, managed) \/ Refuse(keys, roots, managed)
  BY <1>1, <1>6 DEF ValidateWorkspace, Begin, Refuse
<1>7. CASE GraphLocal \/ ScanLocal
  BY <1>2, <1>7 DEF GraphLocal, ScanLocal, Advance, argVars
<1>8. CASE EndDocument \/ EndGraph \/ Report \/ ReportFails
  BY <1>1, <1>2, <1>8 DEF EndDocument, EndGraph, Report, ReportFails, Fail, argVars
<1>9. CASE (\E i \in DOMAIN repairs : ApplyRepair(repairs[i]))
             \/ (\E key \in Keys, text \in Writes : Write(key, text)) \/ UNCHANGED vars
  BY <1>2, <1>9 DEF ApplyRepair, Write, vars, argVars
<1> QED
  BY <1>3, <1>4, <1>5, <1>6, <1>7, <1>8, <1>9 DEF Next

LEMMA AnswersLocated == Spec => []Located(documents, answers)
<1>1. Init => Located(documents, answers)
  BY DEF Init, Located
<1> QED
  BY <1>1, WorkspaceInvHolds, AnswersLocatedStep, PTL DEF Spec

(***************************************************************************)
(* How many of a diagnosis there are, and where the edges come from.       *)
(***************************************************************************)
LEMMA HowManyJoined ==
    ASSUME NEW V, NEW B, NEW s \in Seq(V)
    PROVE  \A t \in Seq(V) : /\ s \o t \in Seq(V)
                             /\ HowManyIn(s \o t, B) = HowManyIn(s, B) + HowManyIn(t, B)
<1> DEFINE X == {t \in Seq(V) : HowManyIn(s \o t, B) = HowManyIn(s, B) + HowManyIn(t, B)}
<1>0. \A t \in Seq(V) : HowManyIn(t, B) \in Nat /\ s \o t \in Seq(V)
  <2> SUFFICES ASSUME NEW t \in Seq(V) PROVE HowManyIn(t, B) \in Nat /\ s \o t \in Seq(V)
    OBVIOUS
  <2> DEFINE n == Len(t)
             S == {i \in DOMAIN t : t[i] \in B}
  <2>1. S \subseteq 1..n /\ IsFiniteSet(1..n)
    BY FS_Interval
  <2> HIDE DEF S, n
  <2>2. Cardinality(S) \in Nat
    BY <2>1, FS_Subset, FS_CardinalityType
  <2> QED
    BY <2>2 DEF HowManyIn, S
<1>1. << >> \in X
  <2> DEFINE nil == << >>
  <2>1. nil \in Seq(V) /\ s \o nil = s
    OBVIOUS
  <2>2. HowManyIn(nil, B) = 0
    BY HowManyOfNone
  <2> HIDE DEF nil
  <2>3. HowManyIn(s \o nil, B) = HowManyIn(s, B) + HowManyIn(nil, B)
    BY <1>0, <2>1, <2>2
  <2> QED
    BY <2>1, <2>3 DEF nil
<1>2. ASSUME NEW t \in Seq(V), t \in X, NEW x \in V PROVE Append(t, x) \in X
  <2> DEFINE b == Append(t, x)
             u == s \o t
             v == Append(u, x)
             k == IF x \in B THEN 1 ELSE 0
  <2>1. b \in Seq(V) /\ s \o b = v /\ u \in Seq(V)
    OBVIOUS
  <2>2. HowManyIn(b, B) = HowManyIn(t, B) + k
    BY HowManyAppend
  <2>3. HowManyIn(u, B) = HowManyIn(s, B) + HowManyIn(t, B)
    BY <1>2
  <2> HIDE DEF u
  <2>4. HowManyIn(v, B) = HowManyIn(u, B) + k
    BY <2>1, HowManyAppend
  <2>5. HowManyIn(s, B) \in Nat /\ HowManyIn(t, B) \in Nat /\ k \in Nat
    BY <1>0
  <2> HIDE DEF b, v, k
  <2>6. HowManyIn(s \o b, B) = HowManyIn(s, B) + HowManyIn(b, B)
    BY <2>1, <2>2, <2>3, <2>4, <2>5
  <2> QED
    BY <2>1, <2>6 DEF b
<1>3. Seq(V) \subseteq X
  <2> HIDE DEF X
  <2> QED
    BY <1>1, <1>2, SequenceInduction
<1> QED
  BY <1>0, <1>3

LEMMA HowManyNone ==
    ASSUME NEW s, NEW B, \A i \in DOMAIN s : s[i] \notin B
    PROVE  HowManyIn(s, B) = 0
<1>1. {i \in DOMAIN s : s[i] \in B} = {}
  OBVIOUS
<1> QED
  BY <1>1, FS_EmptySet DEF HowManyIn

LEMMA HowManyDistinct ==
    ASSUME NEW s, NEW B, NEW x, B \cap Members(s) \subseteq {x}, Distinct(s)
    PROVE  HowManyIn(s, B) = IF x \in B /\ x \in Members(s) THEN 1 ELSE 0
<1> DEFINE S == {i \in DOMAIN s : s[i] \in B}
<1>1. CASE x \in B /\ x \in Members(s)
  <2>1. PICK i \in DOMAIN s : s[i] = x
    BY <1>1 DEF Members
  <2>2. S = {i}
    BY <1>1, <2>1 DEF Members, Distinct
  <2>3. Cardinality({i}) = 1
    BY FS_Singleton
  <2> QED
    BY <1>1, <2>2, <2>3 DEF HowManyIn
<1>2. CASE ~(x \in B /\ x \in Members(s))
  <2>1. \A i \in DOMAIN s : s[i] \notin B
    BY <1>2 DEF Members
  <2> QED
    BY <1>2, <2>1, HowManyNone
<1> QED
  BY <1>1, <1>2

LEMMA MembersOfFlatten ==
    ASSUME NEW V, NEW s \in Seq(Seq(V)), NEW x \in Members(FlattenSeq(s))
    PROVE  \E i \in DOMAIN s : x \in Members(s[i])
<1> DEFINE W == Seq(V)
           Parts(p) == \A y \in Members(FlattenSeq(p)) : \E i \in DOMAIN p : y \in Members(p[i])
           X == {p \in Seq(W) : Parts(p)}
<1>1. << >> \in X
  <2> DEFINE nil == << >>
  <2>1. nil \in Seq(W) /\ Members(nil) = {} /\ FlattenSeq(nil) = nil
    BY FlattenNone DEF Members
  <2> HIDE DEF nil, W
  <2> QED
    BY <2>1 DEF nil
<1>2. ASSUME NEW p \in Seq(W), p \in X, NEW y \in W PROVE Append(p, y) \in X
  <2> DEFINE q == Append(p, y)
             m == Len(p)
             a == FlattenSeq(p)
             b == FlattenSeq(q)
  <2>1. a \in Seq(V) /\ y \in Seq(V) /\ b = a \o y
    BY FlattenType, FlattenAppend
  <2>2. /\ q \in Seq(W) /\ m \in Nat /\ DOMAIN p = 1..m /\ DOMAIN q = 1..(m + 1) /\ q[m + 1] = y
        /\ \A i \in 1..m : q[i] = p[i]
    <3> HIDE DEF W
    <3> QED
      OBVIOUS
  <2>3. Parts(p)
    BY <1>2
  <2>4. m + 1 \in 1..(m + 1) /\ \A i \in 1..m : i \in 1..(m + 1)
    BY <2>2
  <2> HIDE DEF a, b, q, m, W, X
  <2>5. Members(b) = Members(a) \cup Members(y)
    BY <2>1, ConcatDistinct
  <2>6. Parts(q)
    BY <2>2, <2>3, <2>4, <2>5 DEF a, b
  <2> QED
    BY <2>2, <2>6 DEF X, q
<1>3. Seq(W) \subseteq X
  <2> HIDE DEF X, W
  <2> QED
    BY <1>1, <1>2, SequenceInduction
<1> QED
  BY <1>3

-----------------------------------------------------------------------------
(***************************************************************************)
(* What the edges and the diagnoses of one relationship have to do with    *)
(* each other.                                                             *)
(***************************************************************************)
Undiagnosed(e) == e.found \/ e.fragment = NoFragment

SameStory(edges, diagnosis, source, offset, missing) ==
    \/ edges = << >> /\ diagnosis = << >> /\ ~missing
    \/ \E x : edges = << >> /\ diagnosis = <<x>> /\ x.kind = "document" /\ missing
    \/ \E e : /\ edges = <<e>> /\ diagnosis = << >> /\ ~missing
              /\ e.source = source /\ e.offset = offset /\ Undiagnosed(e)
    \/ \E e, x : /\ edges = <<e>> /\ diagnosis = <<x>> /\ ~missing
                 /\ e.source = source /\ e.offset = offset /\ ~Undiagnosed(e)
                 /\ x.kind \in FragmentKinds
                 /\ x.target = e.target /\ x.fragment = e.fragment

LEMMA FragmentStory ==
    ASSUME NEW docs, AreDocuments(docs), NEW i \in DOMAIN docs, NEW r \in Relationships,
           NEW t \in KnownIn(docs), NEW f \in Names \cup Fragments
    PROVE  SameStory(<<EdgeTo(docs, docs[i].key, r, t, f)>>,
                     FragmentDiagnosis(docs, docs[i].key, r, t, f), docs[i].key, r.offset, FALSE)
<1> DEFINE key == docs[i].key
           status == fragmentStatus(TextIn(docs, t), f)
           e == EdgeTo(docs, key, r, t, f)
           x == Diagnostic(status, key, r.offset, t, f)
<1>1. f # NoFragment
  BY KeyAssumption
<1>2. status \in FragmentKinds \cup {"resolved"}
  <2>1. PICK c \in DOMAIN docs : docs[c].key = t
    BY DEF KnownIn
  <2>2. TextIn(docs, t) \in ParsedTexts
    BY <2>1, TextInIs, RelIs
  <2> QED
    BY <2>2, StatusIs
<1>3. /\ e.source = key /\ e.offset = r.offset /\ e.target = t /\ e.fragment = f
      /\ e.found <=> status = "resolved"
  BY <1>1 DEF EdgeTo
<1>4. x.kind = status /\ x.target = t /\ x.fragment = f
  BY DEF Diagnostic
<1>5. FragmentDiagnosis(docs, key, r, t, f) = IF status = "resolved" THEN << >> ELSE <<x>>
  BY DEF FragmentDiagnosis
<1> HIDE DEF e, x, status
<1>6. CASE status = "resolved"
  BY <1>3, <1>5, <1>6 DEF SameStory, Undiagnosed, e
<1>7. CASE status # "resolved"
  <2>1. ~Undiagnosed(e)
    BY <1>1, <1>3, <1>7 DEF Undiagnosed
  <2>2. x.kind \in FragmentKinds
    BY <1>2, <1>4, <1>7
  <2>3. SameStory(<<e>>, <<x>>, key, r.offset, FALSE)
    BY <1>3, <1>4, <2>1, <2>2 DEF SameStory
  <2> QED
    BY <1>5, <1>7, <2>3 DEF e
<1> QED
  BY <1>6, <1>7

LEMMA StoryOf ==
    ASSUME NEW docs, AreDocuments(docs), NEW i \in DOMAIN docs, NEW r \in Relationships,
           NEW a, ~r.local => a \in GoodAnswers(docs)
    PROVE  SameStory(EdgeOf(docs, docs[i].key, r, a), DiagnosisOf(docs, docs[i].key, r, a),
                     docs[i].key, r.offset, ~r.local /\ a.kind = "missing")
<1> DEFINE key == docs[i].key
           E == EdgeOf(docs, key, r, a)
           D == DiagnosisOf(docs, key, r, a)
<1>1. key \in KnownIn(docs) /\ r.to \in Names
  BY RelIs DEF Relationships
<1>2. CASE r.local
  <2>1. /\ E = <<EdgeTo(docs, key, r, key, r.to)>>
        /\ D = FragmentDiagnosis(docs, key, r, key, r.to)
    BY <1>2 DEF EdgeOf, DiagnosisOf
  <2>2. SameStory(<<EdgeTo(docs, key, r, key, r.to)>>,
                  FragmentDiagnosis(docs, key, r, key, r.to), key, r.offset, FALSE)
    BY <1>1, FragmentStory
  <2>3. (~r.local /\ a.kind = "missing") = FALSE
    BY <1>2
  <2> QED
    BY <2>1, <2>2, <2>3, Zenon
<1>3. CASE ~r.local /\ a.kind = "missing"
  <2> DEFINE x == Diagnostic("document", key, r.offset, a.target, a.fragment)
  <2>1. E = << >> /\ D = <<x>> /\ x.kind = "document"
    BY <1>3 DEF EdgeOf, DiagnosisOf, Diagnostic
  <2> HIDE DEF x, E, D
  <2>2. SameStory(E, D, key, r.offset, ~r.local /\ a.kind = "missing")
    BY <1>3, <2>1 DEF SameStory
  <2> QED
    BY <2>2 DEF E, D
<1>4. CASE ~r.local /\ a.kind # "missing" /\ a.kind # "resolved"
  BY <1>4 DEF EdgeOf, DiagnosisOf, SameStory
<1>5. CASE ~r.local /\ a.kind = "resolved"
  <2>1. a.target \in KnownIn(docs) /\ a.fragment \in Fragments \cup {NoFragment}
    BY <1>5 DEF GoodAnswers, Answers, Answer
  <2>2. E = <<EdgeTo(docs, key, r, a.target, a.fragment)>>
    BY <1>5 DEF EdgeOf
  <2>3. CASE a.fragment = NoFragment
    <3> DEFINE e == EdgeTo(docs, key, r, a.target, a.fragment)
    <3>1. e.source = key /\ e.offset = r.offset /\ e.fragment = NoFragment
      BY <2>3 DEF EdgeTo
    <3>2. D = << >>
      BY <1>5, <2>3 DEF DiagnosisOf
    <3> HIDE DEF e, D
    <3>3. SameStory(<<e>>, D, key, r.offset, ~r.local /\ a.kind = "missing")
      BY <1>5, <3>1, <3>2 DEF SameStory, Undiagnosed
    <3> QED
      BY <2>2, <3>3 DEF D, e
  <2>4. CASE a.fragment # NoFragment
    <3>1. D = FragmentDiagnosis(docs, key, r, a.target, a.fragment)
      BY <1>5, <2>4 DEF DiagnosisOf
    <3>2. SameStory(<<EdgeTo(docs, key, r, a.target, a.fragment)>>,
                    FragmentDiagnosis(docs, key, r, a.target, a.fragment), key, r.offset, FALSE)
      BY <2>1, <2>4, FragmentStory
    <3>3. (~r.local /\ a.kind = "missing") = FALSE
      BY <1>5
    <3> QED
      BY <2>2, <3>1, <3>2, <3>3, Zenon
  <2> QED
    BY <2>3, <2>4
<1> QED
  BY <1>2, <1>3, <1>4, <1>5

MissingIn(docs, ans, i, j) ==
    ~Rel(docs, i)[j].local /\ TheOnly(AnsweredIn(ans, docs[i].key, j)).kind = "missing"

StoryIn(docs, ans, i, j) ==
    SameStory(EdgeIn(docs, ans, i, j), DiagnosisIn(docs, ans, i, j), docs[i].key, j,
              MissingIn(docs, ans, i, j))

LEMMA StoryInIs ==
    ASSUME NEW docs, AreDocuments(docs), NEW ans, NEW next, IsAsked(docs, ans, Len(docs), next),
           NEW i \in DOMAIN docs, NEW j \in DOMAIN Rel(docs, i)
    PROVE  StoryIn(docs, ans, i, j)
<1> DEFINE r == Rel(docs, i)[j]
           a == TheOnly(AnsweredIn(ans, docs[i].key, j))
<1>1. r \in Relationships /\ r.offset = j
  BY RelIs
<1>2. Done(i, j, Len(docs), next)
  BY DEF AreDocuments, Done
<1>3. ~r.local => a \in GoodAnswers(docs)
  BY <1>2, OnlyAnswer DEF IsAsked
<1>4. /\ EdgeIn(docs, ans, i, j) = EdgeOf(docs, docs[i].key, r, a)
      /\ DiagnosisIn(docs, ans, i, j) = DiagnosisOf(docs, docs[i].key, r, a)
      /\ MissingIn(docs, ans, i, j) = (~r.local /\ a.kind = "missing")
  BY DEF EdgeIn, DiagnosisIn, MissingIn
<1> HIDE DEF r, a
<1>5. SameStory(EdgeOf(docs, docs[i].key, r, a), DiagnosisOf(docs, docs[i].key, r, a),
                docs[i].key, r.offset, ~r.local /\ a.kind = "missing")
  BY <1>1, <1>3, StoryOf
<1> QED
  BY <1>1, <1>4, <1>5, Zenon DEF StoryIn

\* The diagnoses of these kinds about one relationship.
OfKind(s, kinds, source, offset) ==
    {n \in DOMAIN s : s[n].kind \in kinds /\ s[n].source = source /\ s[n].offset = offset}

CountIs(s, kinds, source, offset, diagnosis) ==
    /\ diagnosis = << >> => OfKind(s, kinds, source, offset) = {}
    /\ \A x : diagnosis = <<x>> =>
         \E n \in DOMAIN s : /\ s[n] = x /\ x.source = source /\ x.offset = offset
                             /\ OfKind(s, kinds, source, offset)
                                  = IF x.kind \in kinds THEN {n} ELSE {}

LEMMA ScanCount ==
    ASSUME NEW docs, AreDocuments(docs), NEW ans, NEW s, Scanned(docs, ans, s, Len(docs), 1),
           NEW i \in DOMAIN docs, NEW j \in DOMAIN Rel(docs, i), NEW kinds
    PROVE  CountIs(s, kinds, docs[i].key, j, DiagnosisIn(docs, ans, i, j))
<1> DEFINE key == docs[i].key
           D == DiagnosisIn(docs, ans, i, j)
<1>1. Done(i, j, Len(docs), 1)
  BY DEF AreDocuments, Done
<1>2. IF D # << >> THEN OneDiagnosis(s, key, j, D) ELSE Asked(s, key, j) = {}
  BY <1>1 DEF Scanned, IsDiagnosed
<1>3. OfKind(s, kinds, key, j) = {n \in Asked(s, key, j) : s[n].kind \in kinds}
  BY DEF OfKind, Asked
<1> HIDE DEF D
<1>4. ASSUME NEW x, D = <<x>>
      PROVE  \E n \in DOMAIN s : /\ s[n] = x /\ x.source = key /\ x.offset = j
                                 /\ OfKind(s, kinds, key, j) = IF x.kind \in kinds THEN {n} ELSE {}
  <2>1. <<x>> # << >>
    OBVIOUS
  <2>2. PICK n \in DOMAIN s : Asked(s, key, j) = {n} /\ D = <<s[n]>>
    BY <1>2, <1>4, <2>1 DEF OneDiagnosis
  <2>3. s[n] = x
    BY <1>4, <2>2
  <2>4. s[n].source = key /\ s[n].offset = j
    BY <2>2 DEF Asked
  <2> QED
    BY <1>3, <2>2, <2>3, <2>4
<1>5. D = << >> => OfKind(s, kinds, key, j) = {}
  BY <1>2, <1>3
<1> QED
  BY <1>4, <1>5 DEF D, CountIs

-----------------------------------------------------------------------------
(***************************************************************************)
(* What the end of a call adds to the diagnostics.                         *)
(***************************************************************************)
TailKinds == {"reference", "orphan", "unrecognized", "stale"}

Concerning(kinds, source, offset) ==
    {d \in Diagnostics(documents, ScanKinds \cup TailKinds) :
        d.kind \in kinds /\ d.source = source /\ d.offset = offset}

LEMMA ReferencesReported ==
    ASSUME WorkspaceInv
    PROVE  appendUnresolvedReferences \in Seq(Diagnostics(documents, {"reference"}))
<1> DEFINE V == Diagnostics(documents, {"reference"})
           W == Seq(V)
           of(d) == [n \in DOMAIN UnresolvedReferences(d.text) |->
                        Diagnostic("reference", d.key, UnresolvedReferences(d.text)[n], d.key,
                                   NoFragment)]
           s == [i \in DOMAIN documents |-> of(documents[i])]
<1>1. AreDocuments(documents) /\ DOMAIN documents = 1..Len(documents) /\ Len(documents) \in Nat
  BY DEF WorkspaceInv, Types, AreDocuments
<1>2. ASSUME NEW i \in DOMAIN documents PROVE of(documents[i]) \in W
  <2> DEFINE t == documents[i].text
             k == documents[i].key
             m == t.unresolved
  <2>1. k \in KnownIn(documents) /\ k \in Keys /\ m \in Nat
    BY <1>1, RelIs, KeysOfIs DEF ParsedTexts
  <2>2. \A n \in 1..m : Diagnostic("reference", k, n, k, NoFragment) \in V
    BY <2>1 DEF Diagnostic, Diagnostics
  <2>3. of(documents[i]) = [n \in 1..m |-> Diagnostic("reference", k, n, k, NoFragment)]
    BY <2>1 DEF UnresolvedReferences
  <2> HIDE DEF V, m, of
  <2> QED
    BY <2>1, <2>2, <2>3
<1>3. s \in Seq(W)
  <2> HIDE DEF W, of
  <2> QED
    BY <1>1, <1>2
<1>4. appendUnresolvedReferences = FlattenSeq(s)
  BY DEF appendUnresolvedReferences
<1> HIDE DEF s, V
<1>5. FlattenSeq(s) \in Seq(V)
  BY <1>3, FlattenType
<1> QED
  BY <1>4, <1>5 DEF V

LEMMA TablesReported ==
    ASSUME WorkspaceInv
    PROVE  appendManagedTOCDiagnostics \in Seq(Diagnostics(documents, {"unrecognized", "stale"}))
<1> DEFINE V == Diagnostics(documents, {"unrecognized", "stale"})
           W == Seq(V)
           U == Seq({"unrecognized", "stale"})
           diagnosed(m) == LET text == TextOf(m.document) IN
                              CASE text.tables[m.heading] = NoTable -> <<"unrecognized">>
                                [] Stale(text, m.heading)           -> <<"stale">>
                                [] OTHER                            -> << >>
           of(m) == [i \in DOMAIN diagnosed(m) |->
                       Diagnostic(diagnosed(m)[i], m.document, m.heading, m.document, NoFragment)]
           managed == options.managed
           s == [i \in DOMAIN managed |-> of(managed[i])]
<1>1. /\ AreDocuments(documents)
      /\ managed \in Seq([document : KnownIn(documents), heading : Nat])
  BY DEF WorkspaceInv, Types, AreOptions
<1>2. \A m : diagnosed(m) \in U
  <2> SUFFICES ASSUME NEW m PROVE diagnosed(m) \in U
    OBVIOUS
  <2>1. <<"unrecognized">> \in U /\ <<"stale">> \in U /\ << >> \in U
    OBVIOUS
  <2>2. \/ diagnosed(m) = <<"unrecognized">> \/ diagnosed(m) = <<"stale">>
        \/ diagnosed(m) = << >>
    OBVIOUS
  <2> HIDE DEF diagnosed, U
  <2> QED
    BY <2>1, <2>2
<1> HIDE DEF diagnosed
<1>3. ASSUME NEW m \in [document : KnownIn(documents), heading : Nat]
      PROVE  of(m) \in W
  <2> DEFINE u == diagnosed(m)
             n == Len(u)
  <2>1. u \in U
    BY <1>2
  <2>2. m.document \in KnownIn(documents) /\ m.document \in Keys /\ m.heading \in Nat
    BY <1>1, KeysOfIs
  <2>3. \A k \in {"unrecognized", "stale"} :
            Diagnostic(k, m.document, m.heading, m.document, NoFragment) \in V
    BY <2>2 DEF Diagnostic, Diagnostics
  <2> HIDE DEF u, V
  <2>4. n \in Nat /\ DOMAIN u = 1..n /\ \A i \in 1..n : u[i] \in {"unrecognized", "stale"}
    BY <2>1
  <2>5. of(m) = [i \in 1..n |-> Diagnostic(u[i], m.document, m.heading, m.document, NoFragment)]
    BY <2>4 DEF u
  <2> HIDE DEF n, of
  <2> QED
    BY <2>3, <2>4, <2>5
<1>4. s \in Seq(W)
  <2> DEFINE M == [document : KnownIn(documents), heading : Nat]
             n == Len(managed)
  <2>1. managed \in Seq(M) /\ \A m \in M : of(m) \in W
    BY <1>1, <1>3
  <2> HIDE DEF M, W, of, managed
  <2>2. n \in Nat /\ DOMAIN managed = 1..n /\ \A i \in 1..n : managed[i] \in M
    BY <2>1
  <2> HIDE DEF n
  <2> QED
    BY <2>1, <2>2
<1>5. appendManagedTOCDiagnostics = FlattenSeq(s)
  BY DEF appendManagedTOCDiagnostics, diagnosed
<1> HIDE DEF s, V
<1>6. FlattenSeq(s) \in Seq(V)
  BY <1>4, FlattenType
<1> QED
  BY <1>5, <1>6 DEF V

Orphans == Kept(graph.keys, Members(graph.keys) \ reachableFromRoots(graph, options.roots))

LEMMA OrphansAre ==
    ASSUME WorkspaceInv, Ended
    PROVE  /\ Orphans \in Seq(Known) /\ Known \subseteq Keys
           /\ \A k \in Known : HowManyIn(Orphans, {k})
                 = IF k \in Within(Successors(graph), Members(options.roots))[Cardinality(Known)]
                   THEN 0 ELSE 1
<1> DEFINE next == Successors(graph)
           roots == options.roots
           keys == graph.keys
           D == Known
           reached == reachableFromRoots(graph, roots)
<1>1. /\ IsFiniteSet(D) /\ next \in Lists(D) /\ Members(keys) = D
      /\ keys = KeysOf(documents) /\ AreDocuments(documents)
  BY GraphIndexed, SuccessorsType, GraphIs, EndedIs DEF Indexed
<1>2. roots \in Seq(D) /\ D \subseteq Keys
  BY EndedIs, KnownIs, KeysOfIs DEF AreOptions
<1>3. keys \in Seq(D) /\ Distinct(keys)
  <2>1. Distinct(KeysOf(documents))
    BY <1>1 DEF AreDocuments, Distinct, KeysOf
  <2> QED
    BY <1>1, <2>1, KnownIs, KeysOfIs
<1>4. reached = Within(next, Members(roots))[Cardinality(D)]
  <2>1. DOMAIN next = D
    BY <1>1 DEF Lists
  <2>2. IsBreadthFirst(Search(next, roots), next, Members(roots))
    <3> HIDE DEF next, roots, D
    <3> QED
      BY <1>1, <1>2, SearchIsBreadthFirst
  <2>3. reached = Members(Search(next, roots))
    BY DEF reachableFromRoots
  <2> HIDE DEF next, roots, D, reached
  <2> QED
    BY <2>1, <2>2, <2>3 DEF IsBreadthFirst
<1>5. Orphans = Kept(keys, Members(keys) \ reached)
  BY DEF Orphans
<1> HIDE DEF next, roots, keys, D, reached
<1>6. Orphans \in Seq(D)
  BY <1>3, <1>5, KeptIs
<1>7. ASSUME NEW k \in D
      PROVE  HowManyIn(Orphans, {k}) = IF k \in reached THEN 0 ELSE 1
  <2> DEFINE A == Members(keys) \ reached
             B == A \cap {k}
  <2>1. HowManyIn(Orphans, {k}) = HowManyIn(keys, B)
    BY <1>3, <1>5, HowManyKept
  <2>2. HowManyIn(keys, B) = IF k \in B /\ k \in Members(keys) THEN 1 ELSE 0
    <3>1. B \cap Members(keys) \subseteq {k}
      OBVIOUS
    <3> HIDE DEF B
    <3> QED
      BY <1>3, <3>1, HowManyDistinct
  <2>3. k \in B /\ k \in Members(keys) <=> k \notin reached
    BY <1>1
  <2> HIDE DEF B
  <2> QED
    BY <2>1, <2>2, <2>3
<1> QED
  BY <1>2, <1>4, <1>6, <1>7 DEF next, roots, D

LEMMA OrphansReported ==
    ASSUME WorkspaceInv, Ended
    PROVE  /\ appendOrphanDiagnostics \in Seq(Diagnostics(documents, {"orphan"}))
           /\ \A k \in Known :
                HowManyIn(appendOrphanDiagnostics, Concerning({"orphan"}, k, 0))
                    = IF IsOrphan(k) THEN 1 ELSE 0
<1> DEFINE V == Diagnostics(documents, {"orphan"})
           o == Orphans
           n == Len(o)
           d == [i \in DOMAIN o |-> Diagnostic("orphan", o[i], 0, o[i], NoFragment)]
<1>1. appendOrphanDiagnostics = IF options.roots = << >> THEN << >> ELSE d
  BY DEF appendOrphanDiagnostics, Orphans
<1>2. o \in Seq(Known) /\ Known \subseteq Keys /\ Known = KnownIn(documents)
  BY OrphansAre, KnownIs
<1>3. \A k \in Known : HowManyIn(o, {k})
          = IF k \in Within(Successors(graph), Members(options.roots))[Cardinality(Known)]
            THEN 0 ELSE 1
  BY OrphansAre
<1> HIDE DEF o
<1>4. \A k \in Known : /\ Diagnostic("orphan", k, 0, k, NoFragment) \in V
                       /\ Diagnostic("orphan", k, 0, k, NoFragment)
                             \in Diagnostics(documents, ScanKinds \cup TailKinds)
  BY <1>2 DEF Diagnostic, Diagnostics, TailKinds
<1>5. n \in Nat /\ DOMAIN o = 1..n /\ \A i \in 1..n : o[i] \in Known
  BY <1>2
<1>6. d \in Seq(V)
  <2> HIDE DEF V, n
  <2> QED
    BY <1>4, <1>5
<1>7. << >> \in Seq(V)
  OBVIOUS
<1>8. ASSUME NEW k \in Known
      PROVE  HowManyIn(d, Concerning({"orphan"}, k, 0)) = HowManyIn(o, {k})
  <2>1. \A j \in Known : Diagnostic("orphan", j, 0, j, NoFragment) \in Concerning({"orphan"}, k, 0)
                            <=> j \in {k}
    BY <1>4 DEF Concerning, Diagnostic
  <2>2. DOMAIN d = DOMAIN o
        /\ \A i \in DOMAIN o : d[i] = Diagnostic("orphan", o[i], 0, o[i], NoFragment)
    OBVIOUS
  <2> HIDE DEF d
  <2>3. {i \in DOMAIN d : d[i] \in Concerning({"orphan"}, k, 0)} = {i \in DOMAIN o : o[i] \in {k}}
    BY <1>5, <2>1, <2>2
  <2> QED
    BY <2>3 DEF HowManyIn
<1> HIDE DEF d, V
<1>9. appendOrphanDiagnostics \in Seq(V)
  BY <1>1, <1>6, <1>7
<1>10. ASSUME NEW k \in Known
       PROVE  HowManyIn(appendOrphanDiagnostics, Concerning({"orphan"}, k, 0))
                = IF IsOrphan(k) THEN 1 ELSE 0
  <2>1. CASE options.roots = << >>
    BY <1>1, <2>1, HowManyOfNone DEF IsOrphan
  <2>2. CASE options.roots # << >>
    BY <1>1, <1>3, <1>8, <2>2 DEF IsOrphan
  <2> QED
    BY <2>1, <2>2
<1> QED
  BY <1>9, <1>10 DEF V

-----------------------------------------------------------------------------
LEMMA HowManyType ==
    ASSUME NEW V, NEW s \in Seq(V), NEW B
    PROVE  HowManyIn(s, B) \in Nat
<1> DEFINE n == Len(s)
           S == {i \in DOMAIN s : s[i] \in B}
<1>1. S \subseteq 1..n /\ IsFiniteSet(1..n)
  BY FS_Interval
<1> HIDE DEF S, n
<1>2. Cardinality(S) \in Nat
  BY <1>1, FS_Subset, FS_CardinalityType
<1> QED
  BY <1>2 DEF HowManyIn, S

LEMMA NoneOfKind ==
    ASSUME NEW K, NEW kinds, kinds \cap K = {}, NEW s \in Seq(Diagnostics(documents, K)),
           NEW source, NEW offset
    PROVE  HowManyIn(s, Concerning(kinds, source, offset)) = 0
<1> DEFINE V == Diagnostics(documents, K)
<1>1. \A d \in V : d.kind \in K
  BY DEF Diagnostics
<1>2. s \in Seq(V)
  OBVIOUS
<1> HIDE DEF V
<1>3. \A i \in DOMAIN s : s[i] \in V
  BY <1>2
<1>4. \A i \in DOMAIN s : s[i] \notin Concerning(kinds, source, offset)
  BY <1>1, <1>3 DEF Concerning
<1> QED
  BY <1>4, HowManyNone

LEMMA WiderKinds ==
    ASSUME NEW K, K \subseteq ScanKinds \cup TailKinds, NEW s \in Seq(Diagnostics(documents, K))
    PROVE  s \in Seq(Diagnostics(documents, ScanKinds \cup TailKinds))
<1> DEFINE V == Diagnostics(documents, K)
           W == Diagnostics(documents, ScanKinds \cup TailKinds)
<1>1. V \subseteq W
  BY DEF Diagnostics
<1>2. s \in Seq(V)
  OBVIOUS
<1> HIDE DEF V, W
<1>3. s \in Seq(W)
  BY <1>1, <1>2
<1> QED
  BY <1>3 DEF W

\* The whole report, part by part.
LEMMA ReportIs ==
    ASSUME WorkspaceInv, Ended, NEW s, Reported(s), NEW kinds, NEW source, NEW offset
    PROVE  LET B == Concerning(kinds, source, offset)
           IN /\ Diagnosed(kinds, source, offset)
                   = HowManyIn(s, B) + HowManyIn(appendUnresolvedReferences, B)
                        + HowManyIn(appendOrphanDiagnostics, B)
                        + HowManyIn(appendManagedTOCDiagnostics, B)
              /\ HowManyIn(s, B) \in Nat
              /\ HowManyIn(appendOrphanDiagnostics, B) \in Nat
              /\ Members(diagnostics) = Members(s) \cup Members(appendUnresolvedReferences)
                                          \cup Members(appendOrphanDiagnostics)
                                          \cup Members(appendManagedTOCDiagnostics)
<1> DEFINE B == Concerning(kinds, source, offset)
           V == Diagnostics(documents, ScanKinds \cup TailKinds)
           a == appendUnresolvedReferences
           o == appendOrphanDiagnostics
           c == appendManagedTOCDiagnostics
           sa == s \o a
           sao == sa \o o
<1>1. s \in Seq(V)
  BY WiderKinds DEF Reported, Scanned
<1>2. a \in Seq(V)
  BY ReferencesReported, WiderKinds DEF TailKinds
<1>3. o \in Seq(V)
  BY OrphansReported, WiderKinds DEF TailKinds
<1>4. c \in Seq(V)
  BY TablesReported, WiderKinds DEF TailKinds
<1>5. diagnostics = sao \o c
  BY DEF Reported
<1>6. Diagnosed(kinds, source, offset) = HowManyIn(diagnostics, B)
  <2>1. \A d \in V : d \in B <=> d.kind \in kinds /\ d.source = source /\ d.offset = offset
    BY DEF Concerning
  <2> HIDE DEF V, B, a, o, c
  <2>2. diagnostics \in Seq(V)
    BY <1>1, <1>2, <1>3, <1>4, <1>5
  <2>3. \A i \in DOMAIN diagnostics : diagnostics[i] \in V
    BY <2>2
  <2>4. {i \in DOMAIN diagnostics : /\ diagnostics[i].kind \in kinds
                                    /\ diagnostics[i].source = source
                                    /\ diagnostics[i].offset = offset}
          = {i \in DOMAIN diagnostics : diagnostics[i] \in B}
    BY <2>1, <2>3
  <2> QED
    BY <2>4 DEF Diagnosed, HowManyIn
<1> HIDE DEF B, V, a, o, c
<1>7. sa \in Seq(V) /\ HowManyIn(sa, B) = HowManyIn(s, B) + HowManyIn(a, B)
      /\ Members(sa) = Members(s) \cup Members(a)
  BY <1>1, <1>2, HowManyJoined, ConcatDistinct
<1> HIDE DEF sa
<1>8. sao \in Seq(V) /\ HowManyIn(sao, B) = HowManyIn(sa, B) + HowManyIn(o, B)
      /\ Members(sao) = Members(sa) \cup Members(o)
  BY <1>3, <1>7, HowManyJoined, ConcatDistinct
<1> HIDE DEF sao
<1>9. HowManyIn(diagnostics, B) = HowManyIn(sao, B) + HowManyIn(c, B)
      /\ Members(diagnostics) = Members(sao) \cup Members(c)
  BY <1>4, <1>5, <1>8, HowManyJoined, ConcatDistinct
<1>10. HowManyIn(s, B) \in Nat /\ HowManyIn(o, B) \in Nat
  BY <1>1, <1>3, HowManyType
<1>11. /\ Diagnosed(kinds, source, offset)
            = HowManyIn(s, B) + HowManyIn(a, B) + HowManyIn(o, B) + HowManyIn(c, B)
       /\ Members(diagnostics) = Members(s) \cup Members(a) \cup Members(o) \cup Members(c)
  BY <1>6, <1>7, <1>8, <1>9
<1> QED
  BY <1>10, <1>11 DEF B, a, o, c

LEMMA DiagnosedScanned ==
    ASSUME WorkspaceInv, Ended, NEW s, Reported(s), NEW kinds, kinds \subseteq ScanKinds,
           NEW source, NEW offset
    PROVE  Diagnosed(kinds, source, offset) = Cardinality(OfKind(s, kinds, source, offset))
<1> DEFINE B == Concerning(kinds, source, offset)
           V == Diagnostics(documents, ScanKinds)
<1>1. HowManyIn(appendUnresolvedReferences, B) = 0
  <2>1. kinds \cap {"reference"} = {}
    BY DEF ScanKinds, FragmentKinds
  <2> QED
    BY <2>1, ReferencesReported, NoneOfKind
<1>2. HowManyIn(appendOrphanDiagnostics, B) = 0
  <2>1. kinds \cap {"orphan"} = {}
    BY DEF ScanKinds, FragmentKinds
  <2> QED
    BY <2>1, OrphansReported, NoneOfKind
<1>3. HowManyIn(appendManagedTOCDiagnostics, B) = 0
  <2>1. kinds \cap {"unrecognized", "stale"} = {}
    BY DEF ScanKinds, FragmentKinds
  <2> QED
    BY <2>1, TablesReported, NoneOfKind
<1>4. HowManyIn(s, B) = Cardinality(OfKind(s, kinds, source, offset))
  <2>1. s \in Seq(V)
    BY DEF Reported, Scanned
  <2>2. \A d \in V : d \in B <=> d.kind \in kinds /\ d.source = source /\ d.offset = offset
    BY DEF Concerning, Diagnostics
  <2> HIDE DEF B, V
  <2>3. \A n \in DOMAIN s : s[n] \in V
    BY <2>1
  <2>4. {n \in DOMAIN s : s[n] \in B} = OfKind(s, kinds, source, offset)
    BY <2>2, <2>3 DEF OfKind
  <2> QED
    BY <2>4 DEF HowManyIn
<1>5. /\ Diagnosed(kinds, source, offset)
           = HowManyIn(s, B) + HowManyIn(appendUnresolvedReferences, B)
                + HowManyIn(appendOrphanDiagnostics, B)
                + HowManyIn(appendManagedTOCDiagnostics, B)
      /\ HowManyIn(s, B) \in Nat
  BY ReportIs
<1> HIDE DEF B
<1> QED
  BY <1>1, <1>2, <1>3, <1>4, <1>5

LEMMA DiagnosedOrphan ==
    ASSUME WorkspaceInv, Ended, NEW s, Reported(s), NEW k \in Known
    PROVE  Diagnosed({"orphan"}, k, 0) = IF IsOrphan(k) THEN 1 ELSE 0
<1> DEFINE B == Concerning({"orphan"}, k, 0)
<1>1. HowManyIn(appendUnresolvedReferences, B) = 0
  <2>1. {"orphan"} \cap {"reference"} = {}
    OBVIOUS
  <2> QED
    BY <2>1, ReferencesReported, NoneOfKind
<1>2. HowManyIn(appendOrphanDiagnostics, B) = IF IsOrphan(k) THEN 1 ELSE 0
  BY OrphansReported
<1>3. HowManyIn(appendManagedTOCDiagnostics, B) = 0
  <2>1. {"orphan"} \cap {"unrecognized", "stale"} = {}
    OBVIOUS
  <2> QED
    BY <2>1, TablesReported, NoneOfKind
<1>4. HowManyIn(s, B) = 0
  <2>1. {"orphan"} \cap ScanKinds = {}
    BY DEF ScanKinds, FragmentKinds
  <2>2. s \in Seq(Diagnostics(documents, ScanKinds))
    BY DEF Reported, Scanned
  <2> QED
    BY <2>1, <2>2, NoneOfKind
<1>5. /\ Diagnosed({"orphan"}, k, 0)
           = HowManyIn(s, B) + HowManyIn(appendUnresolvedReferences, B)
                + HowManyIn(appendOrphanDiagnostics, B)
                + HowManyIn(appendManagedTOCDiagnostics, B)
      /\ HowManyIn(appendOrphanDiagnostics, B) \in Nat
  BY ReportIs
<1> HIDE DEF B
<1> QED
  BY <1>1, <1>2, <1>3, <1>4, <1>5

-----------------------------------------------------------------------------
(***************************************************************************)
(* The edges of the graph, relationship by relationship.                   *)
(***************************************************************************)
LEMMA FlattenedAre ==
    ASSUME NEW V, NEW s \in Seq(Seq(V)), NEW x
    PROVE  x \in Members(FlattenSeq(s)) <=> \E i \in DOMAIN s : x \in Members(s[i])
<1>1. \A i \in DOMAIN s : Members(s[i]) \subseteq Members(FlattenSeq(s))
  BY DistinctParts DEF PartsDistinct
<1>2. x \in Members(FlattenSeq(s)) => \E i \in DOMAIN s : x \in Members(s[i])
  BY MembersOfFlatten
<1> QED
  BY <1>1, <1>2

LEMMA OwnAre ==
    ASSUME WorkspaceInv, Ended, NEW i \in DOMAIN documents, NEW e
    PROVE  LET own == OwnIn(documents, answers, i, Len(Rel(documents, i)))
           IN /\ own \in Seq(EdgeSet(documents))
              /\ e \in Members(own) <=>
                    \E j \in DOMAIN Rel(documents, i) : e \in Members(EdgeIn(documents, answers, i, j))
<1> DEFINE n == Len(Rel(documents, i))
           E == EdgeSet(documents)
           s == [j \in 1..n |-> EdgeIn(documents, answers, i, j)]
<1>1. n \in Nat /\ DOMAIN Rel(documents, i) = 1..n
  BY EndedIs, RelIs
<1>2. \A j \in 1..n : Done(i, j, Len(documents), link)
  BY EndedIs DEF Done
<1>3. AreDocuments(documents) /\ IsAsked(documents, answers, Len(documents), link)
  BY EndedIs
<1>4. \A t \in Seq(From(E, documents[i].key)) : t \in Seq(E)
  <2> DEFINE F == From(E, documents[i].key)
  <2>1. F \subseteq E
    BY DEF From
  <2> HIDE DEF F, E
  <2> QED
    BY <2>1 DEF F
<1>5. \A j \in 1..n : EdgeIn(documents, answers, i, j) \in Seq(E)
  BY <1>1, <1>2, <1>3, <1>4, EdgeInType
<1>6. OwnIn(documents, answers, i, n) \in Seq(E)
  <2>1. n \in 0..n
    BY <1>1
  <2> QED
    BY <1>2, <1>3, <1>4, <2>1, OwnType
<1>7. s \in Seq(Seq(E))
  <2> DEFINE W == Seq(E)
  <2>1. \A j \in 1..n : s[j] \in W
    BY <1>5
  <2>2. s = [j \in 1..n |-> s[j]]
    OBVIOUS
  <2> HIDE DEF W, s, n
  <2>3. s \in [1..n -> W]
    BY <2>1, <2>2
  <2>4. s \in Seq(W)
    BY <1>1, <2>3
  <2> QED
    BY <2>4 DEF W
<1>8. DOMAIN s = 1..n /\ \A j \in 1..n : s[j] = EdgeIn(documents, answers, i, j)
  OBVIOUS
<1>9. e \in Members(FlattenSeq(s)) <=> \E j \in DOMAIN s : e \in Members(s[j])
  BY <1>7, FlattenedAre
<1>10. OwnIn(documents, answers, i, n) = FlattenSeq(s)
  BY DEF OwnIn
<1> HIDE DEF s
<1>11. e \in Members(OwnIn(documents, answers, i, n)) <=>
         \E j \in 1..n : e \in Members(EdgeIn(documents, answers, i, j))
  BY <1>8, <1>9, <1>10
<1> QED
  BY <1>1, <1>6, <1>11

LEMMA EdgesAre ==
    ASSUME WorkspaceInv, Ended, NEW e
    PROVE  e \in Members(graph.edges) <=>
              \E i \in DOMAIN documents : \E j \in DOMAIN Rel(documents, i) :
                  e \in Members(EdgeIn(documents, answers, i, j))
<1> DEFINE n == Len(documents)
           E == EdgeSet(documents)
           own(i) == OwnIn(documents, answers, i, Len(Rel(documents, i)))
           s == [i \in 1..n |-> own(i)]
<1>1. n \in Nat /\ DOMAIN documents = 1..n
  BY EndedIs
<1>2. \A i \in 1..n : own(i) \in Seq(E)
  BY <1>1, OwnAre
<1>3. s \in Seq(Seq(E))
  <2> DEFINE W == Seq(E)
  <2>1. \A i \in 1..n : s[i] \in W
    BY <1>2
  <2>2. s = [i \in 1..n |-> s[i]]
    OBVIOUS
  <2> HIDE DEF W, s, n
  <2>3. s \in [1..n -> W]
    BY <2>1, <2>2
  <2>4. s \in Seq(W)
    BY <1>1, <2>3
  <2> QED
    BY <2>4 DEF W
<1>4. DOMAIN s = 1..n /\ \A i \in 1..n : s[i] = own(i)
  OBVIOUS
<1>5. e \in Members(FlattenSeq(s)) <=> \E i \in DOMAIN s : e \in Members(s[i])
  BY <1>3, FlattenedAre
<1>6. graph.edges = FlattenSeq(s)
  BY GraphIs DEF PastIn
<1>7. \A i \in 1..n : e \in Members(own(i)) <=>
         \E j \in DOMAIN Rel(documents, i) : e \in Members(EdgeIn(documents, answers, i, j))
  BY <1>1, OwnAre
<1> HIDE DEF s, own
<1> QED
  BY <1>1, <1>4, <1>5, <1>6, <1>7

-----------------------------------------------------------------------------
(***************************************************************************)
(* The report and the graph tell the same story, relationship by           *)
(* relationship.                                                           *)
(***************************************************************************)
LEMMA CountAt ==
    ASSUME WorkspaceInv, Ended, NEW s, Reported(s), NEW i \in DOMAIN documents,
           NEW j \in DOMAIN Rel(documents, i), NEW kinds
    PROVE  CountIs(s, kinds, documents[i].key, j, DiagnosisIn(documents, answers, i, j))
<1>1. AreDocuments(documents) /\ Scanned(documents, answers, s, Len(documents), 1)
  BY EndedIs DEF Reported
<1> QED
  BY <1>1, ScanCount, Zenon

LEMMA DiagnosedAt ==
    ASSUME WorkspaceInv, Ended, NEW s, Reported(s), NEW i \in DOMAIN documents,
           NEW j \in DOMAIN Rel(documents, i), NEW kinds, kinds \subseteq ScanKinds
    PROVE  /\ DiagnosisIn(documents, answers, i, j) = << >> =>
                 Diagnosed(kinds, documents[i].key, j) = 0
           /\ \A x : DiagnosisIn(documents, answers, i, j) = <<x>> =>
                 Diagnosed(kinds, documents[i].key, j) = IF x.kind \in kinds THEN 1 ELSE 0
<1> DEFINE key == documents[i].key
<1>0. CountIs(s, kinds, documents[i].key, j, DiagnosisIn(documents, answers, i, j))
  BY CountAt, Zenon
<1>1. /\ DiagnosisIn(documents, answers, i, j) = << >> => OfKind(s, kinds, key, j) = {}
      /\ \A x : DiagnosisIn(documents, answers, i, j) = <<x>> =>
           \E n \in DOMAIN s : OfKind(s, kinds, key, j) = IF x.kind \in kinds THEN {n} ELSE {}
  BY <1>0 DEF CountIs
<1>2. Diagnosed(kinds, key, j) = Cardinality(OfKind(s, kinds, key, j))
  BY DiagnosedScanned
<1>3. ASSUME DiagnosisIn(documents, answers, i, j) = << >>
      PROVE  Diagnosed(kinds, key, j) = 0
  <2>1. OfKind(s, kinds, key, j) = {}
    BY <1>1, <1>3
  <2> QED
    BY <1>2, <2>1, FS_EmptySet
<1>4. ASSUME NEW x, DiagnosisIn(documents, answers, i, j) = <<x>>
      PROVE  Diagnosed(kinds, key, j) = IF x.kind \in kinds THEN 1 ELSE 0
  <2>1. PICK n \in DOMAIN s : OfKind(s, kinds, key, j) = IF x.kind \in kinds THEN {n} ELSE {}
    BY <1>1, <1>4
  <2> QED
    BY <1>2, <2>1, FS_EmptySet, FS_Singleton
<1> QED
  BY <1>3, <1>4

LEMMA StoryTold ==
    ASSUME WorkspaceInv, Ended, NEW i \in DOMAIN documents, NEW j \in DOMAIN Rel(documents, i)
    PROVE  StoryIn(documents, answers, i, j)
  BY EndedIs, StoryInIs

LEMMA EdgesAreDiagnosed ==
    ASSUME WorkspaceInv, Ended, NEW s, Reported(s)
    PROVE  EdgesDiagnosed
<1> SUFFICES ASSUME NEW e \in Members(graph.edges)
             PROVE  /\ Diagnosed(FragmentKinds, e.source, e.offset)
                          = IF e.found \/ e.fragment = NoFragment THEN 0 ELSE 1
                    /\ Diagnosed({"document"}, e.source, e.offset) = 0
  BY DEF EdgesDiagnosed
<1>1. PICK i \in DOMAIN documents :
        \E j \in DOMAIN Rel(documents, i) : e \in Members(EdgeIn(documents, answers, i, j))
  BY EdgesAre
<1>2. PICK j \in DOMAIN Rel(documents, i) : e \in Members(EdgeIn(documents, answers, i, j))
  BY <1>1
<1> DEFINE edges == EdgeIn(documents, answers, i, j)
           diagnosis == DiagnosisIn(documents, answers, i, j)
           key == documents[i].key
           missing == MissingIn(documents, answers, i, j)
<1>3. SameStory(edges, diagnosis, key, j, missing)
  BY StoryTold DEF StoryIn
<1>4. FragmentKinds \subseteq ScanKinds /\ {"document"} \subseteq ScanKinds
      /\ "document" \notin FragmentKinds
  BY DEF ScanKinds, FragmentKinds
<1>5. /\ diagnosis = << >> => Diagnosed(FragmentKinds, key, j) = 0
      /\ \A x : diagnosis = <<x>> =>
            Diagnosed(FragmentKinds, key, j) = IF x.kind \in FragmentKinds THEN 1 ELSE 0
  BY <1>4, DiagnosedAt
<1>6. /\ diagnosis = << >> => Diagnosed({"document"}, key, j) = 0
      /\ \A x : diagnosis = <<x>> =>
            Diagnosed({"document"}, key, j) = IF x.kind \in {"document"} THEN 1 ELSE 0
  BY <1>4, DiagnosedAt
<1>7. e \in Members(edges)
  BY <1>2
<1> HIDE DEF edges, diagnosis, key, missing
<1>8. CASE edges = << >>
  BY <1>7, <1>8 DEF Members
<1>9. CASE \E f : /\ edges = <<f>> /\ diagnosis = << >>
                  /\ f.source = key /\ f.offset = j /\ Undiagnosed(f)
  <2>1. PICK f : /\ edges = <<f>> /\ diagnosis = << >>
                 /\ f.source = key /\ f.offset = j /\ Undiagnosed(f)
    BY <1>9
  <2>2. e = f
    BY <1>7, <2>1 DEF Members
  <2> QED
    BY <1>5, <1>6, <2>1, <2>2 DEF Undiagnosed
<1>10. CASE \E f, x : /\ edges = <<f>> /\ diagnosis = <<x>>
                      /\ f.source = key /\ f.offset = j /\ ~Undiagnosed(f)
                      /\ x.kind \in FragmentKinds
  <2>1. PICK f, x : /\ edges = <<f>> /\ diagnosis = <<x>>
                    /\ f.source = key /\ f.offset = j /\ ~Undiagnosed(f)
                    /\ x.kind \in FragmentKinds
    BY <1>10
  <2>2. e = f
    BY <1>7, <2>1 DEF Members
  <2>3. Diagnosed(FragmentKinds, key, j) = 1
    BY <1>5, <2>1
  <2>4. Diagnosed({"document"}, key, j) = 0
    BY <1>4, <1>6, <2>1
  <2> QED
    BY <2>1, <2>2, <2>3, <2>4 DEF Undiagnosed
<1> QED
  BY <1>3, <1>8, <1>9, <1>10 DEF SameStory

LEMMA DiagnosticsAreOfEdges ==
    ASSUME WorkspaceInv, Ended, NEW s, Reported(s)
    PROVE  DiagnosticsHaveEdges
<1> SUFFICES ASSUME NEW d \in Members(diagnostics), d.kind \in FragmentKinds
             PROVE  \E e \in Members(graph.edges) :
                       /\ e.source = d.source /\ e.offset = d.offset
                       /\ e.target = d.target /\ e.fragment = d.fragment
  BY DEF DiagnosticsHaveEdges
<1>1. d \in Members(s)
  <2>1. \A K : \A t \in Seq(Diagnostics(documents, K)) :
            FragmentKinds \cap K = {} => d \notin Members(t)
    <3> SUFFICES ASSUME NEW K, NEW t \in Seq(Diagnostics(documents, K)), FragmentKinds \cap K = {},
                        d \in Members(t)
                 PROVE  FALSE
      OBVIOUS
    <3> DEFINE V == Diagnostics(documents, K)
    <3>1. \A x \in V : x.kind \in K
      BY DEF Diagnostics
    <3>2. t \in Seq(V)
      OBVIOUS
    <3> HIDE DEF V
    <3>3. d \in V
      BY <3>2, MembersIn
    <3> QED
      BY <3>1, <3>3
  <2>2. FragmentKinds \cap {"reference"} = {} /\ FragmentKinds \cap {"orphan"} = {}
        /\ FragmentKinds \cap {"unrecognized", "stale"} = {}
    BY DEF FragmentKinds
  <2>3. d \notin Members(appendUnresolvedReferences)
    BY <2>1, <2>2, ReferencesReported
  <2>4. d \notin Members(appendOrphanDiagnostics)
    BY <2>1, <2>2, OrphansReported
  <2>5. d \notin Members(appendManagedTOCDiagnostics)
    BY <2>1, <2>2, TablesReported
  <2>6. Members(diagnostics) = Members(s) \cup Members(appendUnresolvedReferences)
                                 \cup Members(appendOrphanDiagnostics)
                                 \cup Members(appendManagedTOCDiagnostics)
    BY ReportIs
  <2> QED
    BY <2>3, <2>4, <2>5, <2>6
<1>2. PICK n \in DOMAIN s : d = s[n]
  BY <1>1 DEF Members
<1>3. AreDocuments(documents) /\ Scanned(documents, answers, s, Len(documents), 1)
  BY EndedIs DEF Reported
<1>4. PICK i \in DOMAIN documents : \E j \in DOMAIN Rel(documents, i) :
        s[n].source = documents[i].key /\ s[n].offset = j
  BY <1>3 DEF Scanned, Located
<1>5. PICK j \in DOMAIN Rel(documents, i) : d.source = documents[i].key /\ d.offset = j
  BY <1>2, <1>4
<1> DEFINE edges == EdgeIn(documents, answers, i, j)
           diagnosis == DiagnosisIn(documents, answers, i, j)
           key == documents[i].key
           missing == MissingIn(documents, answers, i, j)
<1>6. SameStory(edges, diagnosis, key, j, missing)
  BY StoryTold DEF StoryIn
<1>0. CountIs(s, FragmentKinds, documents[i].key, j, DiagnosisIn(documents, answers, i, j))
  BY CountAt, Zenon
<1>7. /\ diagnosis = << >> => OfKind(s, FragmentKinds, key, j) = {}
      /\ \A x : diagnosis = <<x>> =>
           \E m \in DOMAIN s : /\ s[m] = x
                               /\ OfKind(s, FragmentKinds, key, j)
                                    = IF x.kind \in FragmentKinds THEN {m} ELSE {}
  BY <1>0 DEF CountIs
<1>8. n \in OfKind(s, FragmentKinds, key, j)
  BY <1>2, <1>5 DEF OfKind
<1>9. d.source = key /\ d.offset = j
  BY <1>5
<1>10. \A e : e \in Members(edges) => e \in Members(graph.edges)
  BY EdgesAre
<1>11. "document" \notin FragmentKinds
  BY DEF FragmentKinds
<1> HIDE DEF edges, diagnosis, key, missing
<1>12. \A x : diagnosis = <<x>> => x = d
  BY <1>2, <1>7, <1>8
<1>13. CASE diagnosis = << >>
  BY <1>7, <1>8, <1>13
<1>14. CASE \E x : diagnosis = <<x>> /\ x.kind = "document"
  BY <1>11, <1>12, <1>14
<1>15. CASE \E e, x : /\ edges = <<e>> /\ diagnosis = <<x>>
                      /\ e.source = key /\ e.offset = j
                      /\ x.target = e.target /\ x.fragment = e.fragment
  <2>1. PICK e, x : /\ edges = <<e>> /\ diagnosis = <<x>>
                    /\ e.source = key /\ e.offset = j
                    /\ x.target = e.target /\ x.fragment = e.fragment
    BY <1>15
  <2>2. e \in Members(edges)
    <3>1. 1 \in DOMAIN edges /\ edges[1] = e
      BY <2>1
    <3> QED
      BY <3>1 DEF Members
  <2>3. x = d
    BY <1>12, <2>1
  <2> QED
    BY <1>9, <1>10, <2>1, <2>2, <2>3
<1> QED
  BY <1>6, <1>13, <1>14, <1>15 DEF SameStory

LEMMA MissingAreDiagnosed ==
    ASSUME WorkspaceInv, Ended, Located(documents, answers), NEW s, Reported(s),
           NEW n \in DOMAIN answers
    PROVE  Diagnosed({"document"}, answers[n].source, answers[n].offset)
              = IF answers[n].answer.kind = "missing" THEN 1 ELSE 0
<1>1. PICK i \in DOMAIN documents : \E j \in DOMAIN Rel(documents, i) :
        answers[n].source = documents[i].key /\ answers[n].offset = j
  BY DEF Located
<1>2. PICK j \in DOMAIN Rel(documents, i) :
        answers[n].source = documents[i].key /\ answers[n].offset = j
  BY <1>1
<1> DEFINE edges == EdgeIn(documents, answers, i, j)
           diagnosis == DiagnosisIn(documents, answers, i, j)
           key == documents[i].key
           missing == MissingIn(documents, answers, i, j)
<1>3. n \in Asked(answers, key, j)
  BY <1>2 DEF Asked
<1>4. missing <=> answers[n].answer.kind = "missing"
  <2>1. Asked(answers, key, j) # {}
    BY <1>3
  <2>2. ~Rel(documents, i)[j].local /\ OneAnswer(documents, answers, key, j)
    BY <2>1, EndedIs DEF IsAsked
  <2>3. PICK x \in DOMAIN answers : Asked(answers, key, j) = {x}
    BY <2>2 DEF OneAnswer
  <2>4. Asked(answers, key, j) = {n}
    BY <1>3, <2>3
  <2>5. AnsweredIn(answers, key, j) = {answers[n].answer}
    BY <2>4 DEF AnsweredIn
  <2>6. TheOnly(AnsweredIn(answers, key, j)) = answers[n].answer
    BY <2>5 DEF TheOnly
  <2> QED
    BY <2>2, <2>6 DEF MissingIn
<1>5. SameStory(edges, diagnosis, key, j, missing)
  BY StoryTold DEF StoryIn
<1>6. {"document"} \subseteq ScanKinds /\ "document" \notin FragmentKinds
  BY DEF ScanKinds, FragmentKinds
<1>7. /\ diagnosis = << >> => Diagnosed({"document"}, key, j) = 0
      /\ \A x : diagnosis = <<x>> =>
            Diagnosed({"document"}, key, j) = IF x.kind \in {"document"} THEN 1 ELSE 0
  BY <1>6, DiagnosedAt
<1>8. answers[n].source = key /\ answers[n].offset = j
  BY <1>2
<1> HIDE DEF edges, diagnosis, key, missing
<1>9. CASE diagnosis = << >> /\ ~missing
  BY <1>4, <1>7, <1>8, <1>9
<1>10. CASE \E x : diagnosis = <<x>> /\ x.kind = "document" /\ missing
  BY <1>4, <1>7, <1>8, <1>10
<1>11. CASE \E x : diagnosis = <<x>> /\ x.kind \in FragmentKinds /\ ~missing
  <2>1. PICK x : diagnosis = <<x>> /\ x.kind \in FragmentKinds /\ ~missing
    BY <1>11
  <2>2. x.kind \notin {"document"}
    BY <1>6, <2>1
  <2> QED
    BY <1>4, <1>7, <1>8, <2>1, <2>2
<1> QED
  BY <1>5, <1>9, <1>10, <1>11 DEF SameStory

LEMMA ReportIsExact ==
    WorkspaceInv /\ DiagnosticsInv /\ Located(documents, answers) => ReportExact
<1> SUFFICES ASSUME WorkspaceInv, DiagnosticsInv, Located(documents, answers), result = "report"
             PROVE  /\ EdgesDiagnosed /\ DiagnosticsHaveEdges
                    /\ \A i \in DOMAIN answers :
                          Diagnosed({"document"}, answers[i].source, answers[i].offset)
                             = IF answers[i].answer.kind = "missing" THEN 1 ELSE 0
                    /\ \A k \in Known :
                          Diagnosed({"orphan"}, k, 0) = IF IsOrphan(k) THEN 1 ELSE 0
  BY DEF ReportExact
<1>1. Ended
  BY DEF Ended
<1>2. PICK s : Reported(s)
  BY DEF DiagnosticsInv
<1>3. EdgesDiagnosed
  BY <1>1, <1>2, EdgesAreDiagnosed
<1>4. DiagnosticsHaveEdges
  BY <1>1, <1>2, DiagnosticsAreOfEdges
<1>5. \A i \in DOMAIN answers :
         Diagnosed({"document"}, answers[i].source, answers[i].offset)
            = IF answers[i].answer.kind = "missing" THEN 1 ELSE 0
  BY <1>1, <1>2, MissingAreDiagnosed
<1>6. \A k \in Known : Diagnosed({"orphan"}, k, 0) = IF IsOrphan(k) THEN 1 ELSE 0
  BY <1>1, <1>2, DiagnosedOrphan
<1> QED
  BY <1>3, <1>4, <1>5, <1>6

\* However the resolver answers, and whatever else is written meanwhile, the
\* report of ValidateWorkspace agrees with the graph it carries: an edge is
\* diagnosed once if its fragment was not found and otherwise not at all, a
\* fragment is diagnosed only where there is that edge, a link is diagnosed as
\* missing its document exactly if the resolver said so, and a document as an
\* orphan exactly if no edges lead to it from a root.
THEOREM ReportExactHolds == Spec => []ReportExact
  BY DiagnosticsInvHolds, AnswersLocated, ReportIsExact, PTL
-----------------------------------------------------------------------------
(***************************************************************************)
(* The budgets of the recognizers hold, and a parse keeps all or nothing.  *)
(***************************************************************************)
Node == [extension : STRING, match : MatchType]

ExtTypeOK ==
    /\ phase \in {"idle", "calling", "validating", "parsed", "failed"}
    /\ extensions \in Seq(ExtensionType)
    /\ extLimits \in [nodes : Int, bytes : Int]
    /\ called \in Nat
    /\ pending \in Seq(MatchType)
    /\ nodes \in Seq(Node)
    /\ metadataBytes \in Int
    /\ returned \in Seq(Seq(MatchType))

-----------------------------------------------------------------------------
(***************************************************************************)
(* The bytes of a node, and of all of them.                                *)
(***************************************************************************)
LEMMA NodeBytesType ==
    ASSUME NEW size \in Nat, NEW match \in MatchType
    PROVE  NodeBytes(size, match) \in Int
<1> DEFINE m == Len(match.attributes)
           z == size + match.kind
           a == [i \in 1..m |-> match.attributes[i].size]
           P(g) == g = [i \in 0..m |-> IF i = 0 THEN z ELSE g[i - 1] + match.attributes[i].size]
           f == CHOOSE g : P(g)
<1>1. m \in Nat /\ z \in Int /\ \A n \in 1..m : match.attributes[n].size \in Int
  <2>1. match.attributes \in Seq(AttributeType) /\ match.kind \in Nat
    BY DEF MatchType
  <2>2. m \in Nat /\ \A n \in 1..m : match.attributes[n] \in AttributeType
    BY <2>1
  <2>3. \A e \in AttributeType : e.size \in Int
    BY DEF AttributeType
  <2> QED
    BY <2>1, <2>2, <2>3
<1>2. \A n \in 1..m : a[n] = match.attributes[n].size
  OBVIOUS
<1>3. NodeBytes(size, match) = f[m]
  BY DEF NodeBytes
<1> HIDE DEF m, z, a
<1>4. PICK g \in [0..m -> Int] : Totals(g, m, z, a)
  BY <1>1, <1>2, TotalsExist
<1>5. \A h : P(h) <=> Totals(h, m, z, a)
  <2>1. \A n \in 0..m : n # 0 => n \in 1..m
    BY <1>1
  <2> QED
    BY <1>2, <2>1, Zenon DEF Totals
<1> HIDE DEF P
<1>6. Totals(f, m, z, a)
  BY <1>4, <1>5
<1> HIDE DEF f
<1>7. f[m] = g[m]
  BY <1>1, <1>4, <1>6, TotalsAgree
<1> QED
  BY <1>1, <1>3, <1>4, <1>7

NodesBytes == [i \in 1..Len(nodes) |-> BytesOf(nodes[i])]

RetainedTotals ==
    \E g \in [0..Len(nodes) -> Int] :
        Totals(g, Len(nodes), 0, NodesBytes) /\ RetainedBytes = g[Len(nodes)]

AllSized == \A i \in 1..Len(nodes) : BytesOf(nodes[i]) \in Int

LEMMA RetainedIs == ExtTypeOK /\ AllSized => RetainedTotals
<1> SUFFICES ASSUME ExtTypeOK, AllSized PROVE RetainedTotals
  OBVIOUS
<1> DEFINE m == Len(nodes)
           P(g) == g = [i \in 0..m |-> IF i = 0 THEN 0 ELSE g[i - 1] + BytesOf(nodes[i])]
           f == CHOOSE g : P(g)
<1>1. m \in Nat
  BY DEF ExtTypeOK
<1>2. \A n \in 1..m : NodesBytes[n] = BytesOf(nodes[n]) /\ NodesBytes[n] \in Int
  BY DEF NodesBytes, AllSized
<1>3. RetainedBytes = f[m]
  BY DEF RetainedBytes
<1> HIDE DEF m
<1>4. PICK g \in [0..m -> Int] : Totals(g, m, 0, NodesBytes)
  <2> HIDE DEF f
  <2>1. \A n \in 1..m : NodesBytes[n] \in Int
    BY <1>2
  <2>2. \E g \in [0..m -> Int] : Totals(g, m, 0, NodesBytes)
    BY <1>1, <2>1, TotalsExist
  <2> QED
    BY <2>2
<1>5. \A h : P(h) <=> Totals(h, m, 0, NodesBytes)
  <2>1. \A n \in 0..m : n # 0 => n \in 1..m
    BY <1>1
  <2> QED
    BY <1>2, <2>1, Zenon DEF Totals
<1> HIDE DEF P
<1>6. Totals(f, m, 0, NodesBytes)
  BY <1>4, <1>5
<1> HIDE DEF f
<1>7. f[m] = g[m]
  BY <1>1, <1>4, <1>6, TotalsAgree
<1> QED
  BY <1>3, <1>4, <1>7 DEF RetainedTotals, m

-----------------------------------------------------------------------------
(***************************************************************************)
(* The inductive invariant.                                                *)
(***************************************************************************)
Started == phase \in {"calling", "validating", "parsed"}

\* Identifiers are told apart, so that SizeOf is the size of the extension.
Registered ==
    Started =>
        /\ \A i, j \in DOMAIN extensions : extensions[i].id = extensions[j].id => i = j
        /\ Len(returned) = called
        /\ called <= Len(extensions)

NodesRegistered ==
    \A i \in DOMAIN nodes : \E j \in DOMAIN extensions : nodes[i].extension = extensions[j].id

Budgeted ==
    Started =>
        /\ Len(nodes) + Len(pending) <= extLimits.nodes
        /\ RetainedBytes = metadataBytes
        /\ metadataBytes <= extLimits.bytes

\* What is built and what is still to be validated is all that was returned.
ParseKept ==
    /\ phase \in {"calling", "parsed"} => pending = << >> /\ nodes = AllReturned
    /\ phase = "validating" =>
          /\ pending # << >> /\ called > 0
          /\ nodes \o Tagged(extensions[called], pending) = AllReturned

Dropped ==
    /\ phase \in {"idle", "failed"} => nodes = << >> /\ pending = << >> /\ metadataBytes = 0
    /\ phase = "idle" => called = 0 /\ returned = << >>

ExtInv == ExtTypeOK /\ Registered /\ NodesRegistered /\ Budgeted /\ ParseKept /\ Dropped

LEMMA TypeOfExtension ==
    ASSUME NEW e \in ExtensionType
    PROVE  e.id \in STRING /\ e.size \in Nat
BY DEF ExtensionType

LEMMA SizeOfRegistered ==
    ASSUME ExtTypeOK, Registered, Started, NEW j \in DOMAIN extensions
    PROVE  SizeOf(extensions[j].id) = extensions[j].size
<1> DEFINE i == CHOOSE i \in DOMAIN extensions : extensions[i].id = extensions[j].id
<1>1. i \in DOMAIN extensions /\ extensions[i].id = extensions[j].id
  OBVIOUS
<1>2. i = j
  <2> HIDE DEF i
  <2> QED
    BY <1>1 DEF Registered
<1>3. SizeOf(extensions[j].id) = extensions[i].size
  BY DEF SizeOf
<1> HIDE DEF i
<1> QED
  BY <1>2, <1>3

LEMMA AllAreSized == ExtTypeOK /\ Registered /\ Started /\ NodesRegistered => AllSized
<1> SUFFICES ASSUME ExtTypeOK, Registered, Started, NodesRegistered,
                    NEW i \in 1..Len(nodes)
             PROVE  BytesOf(nodes[i]) \in Int
  BY DEF AllSized
<1>1. nodes[i] \in Node /\ i \in DOMAIN nodes
  BY DEF ExtTypeOK
<1>2. PICK j \in DOMAIN extensions : nodes[i].extension = extensions[j].id
  BY <1>1 DEF NodesRegistered
<1>3. extensions[j] \in ExtensionType
  BY DEF ExtTypeOK
<1>4. SizeOf(nodes[i].extension) \in Nat
  BY <1>2, <1>3, SizeOfRegistered, TypeOfExtension
<1>5. nodes[i].match \in MatchType
  BY <1>1 DEF Node
<1> QED
  BY <1>4, <1>5, NodeBytesType DEF BytesOf

LEMMA RetainedHolds == ExtTypeOK /\ Registered /\ Started /\ NodesRegistered => RetainedTotals
BY RetainedIs, AllAreSized

LEMMA RetainedWillHold ==
    (ExtTypeOK /\ Registered /\ Started /\ NodesRegistered)' => RetainedTotals'
BY RetainedHolds, PTL

LEMMA TaggedType ==
    ASSUME NEW e \in ExtensionType, NEW ms \in Seq(MatchType)
    PROVE  Tagged(e, ms) \in Seq(Node) /\ Len(Tagged(e, ms)) = Len(ms)
<1>1. \A i \in 1..Len(ms) : [extension |-> e.id, match |-> ms[i]] \in Node
  BY TypeOfExtension DEF Node
<1>2. Len(ms) \in Nat
  OBVIOUS
<1> QED
  BY <1>1, <1>2 DEF Tagged

-----------------------------------------------------------------------------
LEMMA ParseStep ==
    ASSUME ExtInv, NEW r \in Registrations, NEW c \in ExtensionLimits, ParseWithOptions(r, c)
    PROVE  ExtInv'
<1>1. r \in Seq(ExtensionType) /\ c \in [nodes : Int, bytes : Int]
  BY ExtensionAssumption
<1>2. /\ extensions' = r /\ extLimits' = c /\ called' = 0 /\ pending' = << >> /\ nodes' = << >>
      /\ metadataBytes' = 0 /\ returned' = << >>
      /\ phase' \in {"calling", "failed"}
      /\ phase' = "calling" => ValidOptions(r, c)
  BY DEF ParseWithOptions, ExtInv, Dropped
<1>3. ExtTypeOK'
  BY <1>1, <1>2 DEF ExtInv, ExtTypeOK
<1>4. Registered'
  BY <1>1, <1>2 DEF Registered, Started, ValidOptions
<1>5. NodesRegistered'
  BY <1>2 DEF NodesRegistered
<1>6. AllReturned' = << >>
  BY <1>2, FlattenNone DEF AllReturned
<1>7. Started' => RetainedBytes' = 0
  <2>1. Started' => RetainedTotals'
    BY <1>3, <1>4, <1>5, RetainedWillHold
  <2> QED
    BY <1>2, <2>1 DEF RetainedTotals, Totals
<1>8. Budgeted'
  BY <1>1, <1>2, <1>7 DEF Budgeted, ValidOptions, Started
<1> QED
  BY <1>2, <1>3, <1>4, <1>5, <1>6, <1>8 DEF ExtInv, ParseKept, Dropped

LEMMA ParseFailStep == ASSUME ExtInv, FailParse PROVE ExtInv'
BY DEF ExtInv, FailParse, ExtTypeOK, Registered, NodesRegistered, Budgeted, ParseKept, Dropped, Started

LEMMA AnotherStep == ASSUME ExtInv, AnotherParse PROVE ExtInv'
BY DEF ExtInv, AnotherParse, ExtTypeOK, Registered, NodesRegistered, Budgeted, ParseKept, Dropped,
       Started

\* A step that leaves alone what was built, returned and registered.
LEMMA SameNodes ==
    ASSUME ExtInv, UNCHANGED <<nodes, extensions>>
    PROVE  RetainedBytes' = RetainedBytes /\ NodesRegistered'
BY DEF ExtInv, RetainedBytes, BytesOf, SizeOf, NodesRegistered

LEMMA EndStep == ASSUME ExtInv, EndParse PROVE ExtInv'
<1>1. RetainedBytes' = RetainedBytes /\ NodesRegistered' /\ AllReturned' = AllReturned
  BY SameNodes DEF EndParse, AllReturned
<1> QED
  BY <1>1 DEF ExtInv, EndParse, ExtTypeOK, Registered, Budgeted, ParseKept, Dropped, Started

LEMMA ReturnStep ==
    ASSUME ExtInv, NEW ms \in Matches, RecognizerReturns(ms)
    PROVE  ExtInv'
<1>1. /\ phase = "calling" /\ called < Len(extensions)
      /\ called' = called + 1 /\ pending' = ms
      /\ phase' = IF ms = << >> THEN "calling" ELSE "validating"
      /\ returned' = Append(returned, ms)
      /\ UNCHANGED <<extensions, extLimits, nodes, metadataBytes>>
      /\ ~(Len(ms) > extLimits.nodes - Len(nodes))
  BY DEF RecognizerReturns, More, TooManyMatches
<1>2. ms \in Seq(MatchType)
  BY ExtensionAssumption
<1>3. RetainedBytes' = RetainedBytes /\ NodesRegistered'
  BY <1>1, SameNodes
<1>4. ExtTypeOK'
  BY <1>1, <1>2 DEF ExtInv, ExtTypeOK
<1>5. Registered'
  BY <1>1, <1>2 DEF ExtInv, ExtTypeOK, Registered, Started
<1> DEFINE b == [e \in DOMAIN returned |-> Tagged(extensions[e], returned[e])]
           x == Tagged(extensions[called'], ms)
<1>6. /\ called' \in DOMAIN extensions /\ Len(returned) = called
      /\ \A e \in DOMAIN returned :
            e \in DOMAIN extensions /\ extensions[e] \in ExtensionType
              /\ returned[e] \in Seq(MatchType)
      /\ extensions[called'] \in ExtensionType
  BY <1>1 DEF ExtInv, ExtTypeOK, Registered, Started
<1>7. b \in Seq(Seq(Node)) /\ x \in Seq(Node) /\ Len(b) = Len(returned)
  <2>1. Len(returned) \in Nat /\ DOMAIN returned = 1..Len(returned)
    BY DEF ExtInv, ExtTypeOK
  <2>2. ASSUME NEW e \in DOMAIN returned PROVE b[e] \in Seq(Node)
    BY <1>6, TaggedType
  <2>3. b = [e \in 1..Len(returned) |-> b[e]]
    BY <2>1
  <2>4. x \in Seq(Node)
    BY <1>2, <1>6, TaggedType
  <2> DEFINE W == Seq(Node)
             n == Len(returned)
  <2> HIDE DEF b, x, W, n
  <2>5. n \in Nat /\ \A e \in 1..n : b[e] \in W
    BY <2>1, <2>2 DEF W, n
  <2>6. [e \in 1..n |-> b[e]] \in Seq(W) /\ Len([e \in 1..n |-> b[e]]) = n
    BY <2>5, SequenceIs
  <2> QED
    BY <2>3, <2>4, <2>6, Zenon DEF W, n
<1>8. [e \in DOMAIN returned' |-> Tagged(extensions'[e], returned'[e])] = Append(b, x)
  <2> DEFINE c == [e \in DOMAIN returned' |-> Tagged(extensions'[e], returned'[e])]
  <2>1. /\ DOMAIN returned' = 1..(called + 1) /\ DOMAIN returned = 1..called /\ called \in Nat
        /\ returned'[called + 1] = ms
        /\ \A e \in 1..called : returned'[e] = returned[e]
    BY <1>1, <1>2, <1>6 DEF ExtInv, ExtTypeOK
  <2>2. \A e \in 1..called : c[e] = b[e]
    BY <1>1, <2>1
  <2>3. c[called + 1] = x
    BY <1>1, <2>1
  <2>4. Append(b, x) = [e \in 1..(called + 1) |-> IF e = called + 1 THEN x ELSE b[e]]
    <3> DEFINE W == Seq(Node)
    <3> HIDE DEF b, x, W
    <3>1. b \in Seq(W) /\ x \in W /\ Len(b) = called
      BY <1>6, <1>7 DEF W
    <3>2. Append(b, x) = [e \in 1..(Len(b) + 1) |-> IF e = Len(b) + 1 THEN x ELSE b[e]]
      BY <3>1, AppendIs
    <3> QED
      BY <3>1, <3>2, Zenon
  <2>5. DOMAIN c = 1..(called + 1) /\ c = [e \in DOMAIN c |-> c[e]]
    BY <2>1
  <2> HIDE DEF b, x, c
  <2>6. c = Append(b, x)
    BY <2>1, <2>2, <2>3, <2>4, <2>5
  <2> QED
    BY <2>6 DEF c
<1>9. AllReturned' = AllReturned \o x
  <2>1. AllReturned = FlattenSeq(b) /\ AllReturned' = FlattenSeq(Append(b, x))
    BY <1>8 DEF AllReturned
  <2> HIDE DEF b, x
  <2> QED
    BY <1>7, <2>1, FlattenAppend
<1>10. nodes = AllReturned
  BY <1>1 DEF ExtInv, ParseKept
<1>11. ms = << >> => nodes \o x = nodes
  <2>1. ms = << >> => x = << >>
    BY DEF Tagged
  <2> QED
    BY <2>1 DEF ExtInv, ExtTypeOK
<1>12. ParseKept'
  BY <1>1, <1>6, <1>9, <1>10, <1>11 DEF ParseKept, ExtInv, ExtTypeOK
<1>13. Budgeted'
  BY <1>1, <1>2, <1>3 DEF ExtInv, Budgeted, Started, ExtTypeOK
<1> QED
  BY <1>1, <1>3, <1>4, <1>5, <1>12, <1>13 DEF ExtInv, Dropped

LEMMA AcceptStep == ASSUME ExtInv, AcceptMatch PROVE ExtInv'
<1> DEFINE e == extensions[called]
           node == [extension |-> e.id, match |-> Match]
           m == Len(nodes)
           k == NodeBytes(e.size, Match)
<1>1. /\ phase = "validating" /\ nodes' = Append(nodes, node)
      /\ metadataBytes' = metadataBytes + k
      /\ pending' = Tail(pending)
      /\ phase' = IF Len(pending) = 1 THEN "calling" ELSE "validating"
      /\ UNCHANGED <<extensions, extLimits, called, returned>>
      /\ k <= extLimits.bytes - metadataBytes
  BY DEF AcceptMatch, ValidMatch, Budget
<1>2. /\ pending # << >> /\ called > 0 /\ called \in DOMAIN extensions
      /\ nodes \o Tagged(e, pending) = AllReturned
      /\ Match \in MatchType /\ e \in ExtensionType
  BY SMTT(40), <1>1 DEF ExtInv, ParseKept, Registered, Started, ExtTypeOK, Match
<1>3. node \in Node /\ k \in Int /\ Started
  BY <1>1, <1>2, NodeBytesType, TypeOfExtension DEF Node, Started
<1>4. ExtTypeOK'
  <2>1. Append(nodes, node) \in Seq(Node)
    <3> HIDE DEF node
    <3> QED
      BY <1>3 DEF ExtInv, ExtTypeOK
  <2>2. metadataBytes + k \in Int /\ Tail(pending) \in Seq(MatchType)
    BY <1>2, <1>3 DEF ExtInv, ExtTypeOK
  <2> HIDE DEF node, k
  <2> QED
    BY <1>1, <2>1, <2>2 DEF ExtInv, ExtTypeOK
<1>5. /\ m \in Nat /\ Len(nodes') = m + 1 /\ nodes'[m + 1] = node
      /\ \A i \in 1..m : nodes'[i] = nodes[i]
      /\ DOMAIN nodes = 1..m /\ DOMAIN nodes' = 1..(m + 1)
  <2> HIDE DEF node
  <2> QED
    BY <1>1, <1>3 DEF ExtInv, ExtTypeOK
<1>6. Registered' /\ NodesRegistered'
  BY <1>1, <1>2, <1>5 DEF ExtInv, Registered, NodesRegistered, Started
<1>7. RetainedBytes' = RetainedBytes + k
  <2>1. SizeOf(e.id) = e.size
    BY <1>2, <1>3, SizeOfRegistered DEF ExtInv
  <2>2. \A n : BytesOf(n)' = BytesOf(n)
    BY <1>1, Zenon DEF BytesOf, SizeOf
  <2>3. BytesOf(node) = k
    BY <2>1 DEF BytesOf
  <2>4. (\A i \in 1..m : NodesBytes[i] = NodesBytes'[i]) /\ NodesBytes'[m + 1] = k
    <3>1. \A i \in 1..(m + 1) : NodesBytes'[i] = BytesOf(nodes'[i])
      <4>1. \A i \in 1..(m + 1) : NodesBytes'[i] = BytesOf(nodes[i])'
        BY <1>5 DEF NodesBytes
      <4>2. ASSUME NEW i \in 1..(m + 1) PROVE BytesOf(nodes[i])' = BytesOf(nodes'[i])
        BY <1>1, Zenon DEF BytesOf, SizeOf
      <4> QED
        BY <4>1, <4>2
    <3>2. \A i \in 1..m : NodesBytes[i] = BytesOf(nodes[i])
      BY DEF NodesBytes
    <3>3. m + 1 \in 1..(m + 1) /\ \A i \in 1..m : i \in 1..(m + 1)
      BY <1>5
    <3> HIDE DEF node, k
    <3> QED
      BY <1>5, <2>3, <3>1, <3>2, <3>3
  <2>5. PICK g : Totals(g, m, 0, NodesBytes) /\ RetainedBytes = g[m]
    BY <1>3, RetainedHolds DEF ExtInv, RetainedTotals
  <2>6. PICK h : Totals(h, m + 1, 0, NodesBytes') /\ RetainedBytes' = h[m + 1]
    <3>1. Started'
      BY <1>1 DEF Started
    <3>2. RetainedTotals'
      BY <1>4, <1>6, <3>1, RetainedWillHold
    <3> QED
      BY <1>5, <3>2 DEF RetainedTotals
  <2> DEFINE a == NodesBytes
             b == NodesBytes'
             n == m + 1
  <2>7. n \in Nat /\ m <= m /\ m <= n /\ n - 1 = m /\ n # 0 /\ n \in 0..n
    BY <1>5
  <2> HIDE DEF a, b, n, m, k
  <2>8. g[m] = h[m]
    <3>1. Totals(g, m, 0, a) /\ Totals(h, n, 0, b) /\ \A i \in 1..m : a[i] = b[i]
      BY <2>4, <2>5, <2>6 DEF a, b, n
    <3> QED
      BY <1>5, <2>7, <3>1, TotalsAgree
  <2>9. h[n] = h[n - 1] + b[n]
    BY <2>6, <2>7 DEF Totals, b, n
  <2> QED
    BY <2>4, <2>5, <2>6, <2>7, <2>8, <2>9 DEF b, n
<1>8. Budgeted'
  <2> HIDE DEF k
  <2>1. Len(pending) \in Nat /\ Len(pending') = Len(pending) - 1
    BY <1>1, <1>2 DEF ExtInv, ExtTypeOK
  <2>2. /\ m + Len(pending) <= extLimits.nodes
        /\ RetainedBytes = metadataBytes /\ metadataBytes <= extLimits.bytes
        /\ extLimits.nodes \in Int /\ extLimits.bytes \in Int /\ metadataBytes \in Int
    BY <1>3 DEF ExtInv, Budgeted, ExtTypeOK
  <2>3. /\ Len(nodes') + Len(pending') <= extLimits.nodes
        /\ RetainedBytes' = metadataBytes'
        /\ metadataBytes' <= extLimits.bytes
    <3> HIDE DEF m, node, e
    <3>1. /\ metadataBytes' = metadataBytes + k /\ k <= extLimits.bytes - metadataBytes
          /\ k \in Int
      BY <1>1, <1>3
    <3>2. Len(nodes') = m + 1 /\ m \in Nat
      BY <1>5
    <3> QED
      BY <1>7, <2>1, <2>2, <3>1, <3>2
  <2> QED
    BY <1>1, <2>3 DEF Budgeted
<1>9. nodes' \o Tagged(e, pending') = AllReturned
  <2> DEFINE t == Tagged(e, pending)
             u == Tagged(e, pending')
  <2>1. /\ t \in Seq(Node) /\ Len(t) = Len(pending) /\ u \in Seq(Node)
        /\ Len(u) = Len(pending')
    BY <1>1, <1>2, <1>4, TaggedType DEF ExtInv, ExtTypeOK
  <2>2. /\ Len(pending') = Len(pending) - 1 /\ Len(pending) \in Nat /\ Len(pending) > 0
        /\ \A i \in 1..Len(pending') : pending'[i] = pending[i + 1]
        /\ pending[1] = Match
    BY <1>1, <1>2 DEF ExtInv, ExtTypeOK, Match
  <2>3. t[1] = node /\ \A i \in 1..Len(u) : u[i] = t[i + 1]
    BY <2>1, <2>2 DEF Tagged
  <2> HIDE DEF t, u, node
  <2>4. Append(nodes, node) \o u = nodes \o t
    <3>1. Len(t) = Len(u) + 1 /\ nodes \in Seq(Node)
      BY <2>1, <2>2 DEF ExtInv, ExtTypeOK
    <3> QED
      BY <1>3, <2>1, <2>3, <3>1, AppendFirst
  <2> QED
    BY <1>1, <1>2, <2>4 DEF t, u
<1>10. AllReturned' = AllReturned
  BY <1>1 DEF AllReturned
<1>11. ParseKept'
  <2>1. /\ (phase' = "calling" /\ pending' = << >>)
           \/ (phase' = "validating" /\ pending' # << >>)
    <3>1. pending \in Seq(MatchType) /\ pending' \in Seq(MatchType)
      BY <1>4 DEF ExtInv, ExtTypeOK
    <3>2. Len(pending') = Len(pending) - 1 /\ Len(pending) \in Nat
      BY <1>1, <1>2, <3>1
    <3>3. pending' = << >> <=> Len(pending') = 0
      BY <3>1
    <3> QED
      BY <1>1, <3>2, <3>3
  <2>2. pending' = << >> => nodes' = AllReturned
    <3>1. pending' = << >> => Tagged(e, pending') = << >>
      BY DEF Tagged
    <3> QED
      BY SMTT(40), <1>4, <1>9, <3>1 DEF ExtTypeOK
  <2> QED
    BY <1>1, <1>2, <1>9, <1>10, <2>1, <2>2 DEF ParseKept
<1>12. Dropped'
  BY <1>1 DEF Dropped
<1> QED
  BY <1>4, <1>6, <1>8, <1>11, <1>12 DEF ExtInv

LEMMA ExtInvHolds == ExtSpec => []ExtInv
<1>1. ExtInit => ExtInv
  <2> SUFFICES ASSUME ExtInit PROVE ExtInv
    OBVIOUS
  <2> QED
    BY DEF ExtInit, ExtInv, ExtTypeOK, Registered, NodesRegistered, Budgeted, ParseKept, Dropped,
           Started
<1>2. ExtInv /\ [ExtNext]_extVars => ExtInv'
  <2> SUFFICES ASSUME ExtInv, [ExtNext]_extVars PROVE ExtInv'
    OBVIOUS
  <2>1. CASE \E r \in Registrations, c \in ExtensionLimits : ParseWithOptions(r, c)
    BY <2>1, ParseStep
  <2>2. CASE RecognizerFails
    BY <2>2, ParseFailStep DEF RecognizerFails
  <2>3. CASE \E ms \in Matches : RecognizerExceeds(ms)
    BY <2>3, ParseFailStep DEF RecognizerExceeds
  <2>4. CASE \E ms \in Matches : RecognizerReturns(ms)
    BY <2>4, ReturnStep
  <2>5. CASE AcceptMatch
    BY <2>5, AcceptStep
  <2>6. CASE RejectMatch
    BY <2>6, ParseFailStep DEF RejectMatch
  <2>7. CASE EndParse
    BY <2>7, EndStep
  <2>8. CASE AnotherParse
    BY <2>8, AnotherStep
  <2>9. CASE UNCHANGED extVars
    <3>1. RetainedBytes' = RetainedBytes /\ NodesRegistered' /\ AllReturned' = AllReturned
      BY <2>9, SameNodes DEF extVars, AllReturned
    <3> QED
      BY <2>9, <3>1 DEF ExtInv, extVars, ExtTypeOK, Registered, Budgeted, ParseKept, Dropped, Started
  <2> QED
    BY <2>1, <2>2, <2>3, <2>4, <2>5, <2>6, <2>7, <2>8, <2>9 DEF ExtNext
<1> QED
  BY <1>1, <1>2, PTL DEF ExtSpec

\* Whatever the recognizers return or however they fail: both budgets hold over
\* all of them together, a parse that succeeds keeps every match in order, and
\* one that fails keeps none.
THEOREM RecognizersWithinLimits == ExtSpec => []WithinLimits
<1>1. ExtInv => WithinLimits
  <2> SUFFICES ASSUME ExtInv PROVE WithinLimits
    OBVIOUS
  <2> QED
    BY DEF ExtInv, WithinLimits, Budgeted, ParseKept, Dropped, Started
<1> QED
  BY <1>1, ExtInvHolds, PTL
=============================================================================
