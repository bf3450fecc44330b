--------------------------- MODULE Changes_proofs ---------------------------
(***************************************************************************)
(* Positions carried across a change are where the code says they are.     *)
(***************************************************************************)
EXTENDS Changes, Foundations

-----------------------------------------------------------------------------
(***************************************************************************)
(* What Normalize makes of a text holds no Nul, and it leaves a text       *)
(* without one as it is.                                                   *)
(***************************************************************************)
Clean == AllBytes \ {Nul}

LEMMA NormalizeType ==
    ASSUME NEW s \in Seq(AllBytes)
    PROVE  Normalize(s) \in Seq(Clean)
<1> DEFINE w == [i \in DOMAIN s |-> IF s[i] = Nul THEN ReplacementCharacter ELSE <<s[i]>>]
<1>1. ReplacementCharacter \in Seq(Clean)
  <2>1. ReplacementCharacter \in Seq(AllBytes)
    BY TextAssumption
  <2>2. \A i \in DOMAIN ReplacementCharacter : ReplacementCharacter[i] # Nul
    BY NulAssumption
  <2> QED
    BY <2>1, <2>2 DEF Clean
<1>2. \A i \in DOMAIN s : w[i] \in Seq(Clean)
  <2> SUFFICES ASSUME NEW i \in DOMAIN s PROVE w[i] \in Seq(Clean)
    OBVIOUS
  <2>1. CASE s[i] = Nul
    BY <1>1, <2>1
  <2>2. CASE s[i] # Nul
    <3>1. s[i] \in Clean
      BY <2>2 DEF Clean
    <3> QED
      BY <2>2, <3>1
  <2> QED
    BY <2>1, <2>2
<1>3. w \in Seq(Seq(Clean))
  <2>1. DOMAIN s = 1..Len(s) /\ Len(s) \in Nat /\ w = [i \in 1..Len(s) |-> w[i]]
    OBVIOUS
  <2> HIDE DEF w
  <2> QED
    BY <1>2, <2>1
<1>4. Normalize(s) = FlattenSeq(w)
  BY DEF Normalize
<1> HIDE DEF w
<1> QED
  BY <1>3, <1>4, FlattenType

LEMMA NormalizeClean ==
    ASSUME NEW s \in Seq(Clean)
    PROVE  Normalize(s) = s
<1> DEFINE m == Len(s)
           w == [i \in DOMAIN s |-> IF s[i] = Nul THEN ReplacementCharacter ELSE <<s[i]>>]
<1>1. m \in Nat /\ DOMAIN s = 1..m /\ \A i \in 1..m : s[i] \in Clean /\ s[i] # Nul
  BY DEF Clean
<1>2. \A i \in 1..m : w[i] \in Seq(Clean) /\ Len(w[i]) = 1 /\ w[i][1] = s[i]
  BY <1>1
<1>3. w \in Seq(Seq(Clean)) /\ Len(w) = m
  <2>1. w = [i \in 1..m |-> w[i]]
    BY <1>1
  <2> HIDE DEF w, m
  <2> QED
    BY <1>1, <1>2, <2>1
<1>4. Normalize(s) = FlattenSeq(w)
  BY DEF Normalize
<1> HIDE DEF w
<1>5. PICK g : /\ \A k \in 0..m : g[k] \in Seq(Clean)
               /\ Chained(g, m, << >>, w) /\ FlattenSeq(w) = g[m]
  <2>1. \E g \in [0..Len(w) -> Seq(Clean)] :
           Chained(g, Len(w), << >>, w) /\ FlattenSeq(w) = g[Len(w)]
    BY <1>3, FlattenIsChained
  <2> HIDE DEF m
  <2>2. PICK g \in [0..m -> Seq(Clean)] : Chained(g, m, << >>, w) /\ FlattenSeq(w) = g[m]
    BY <1>3, <2>1, Zenon
  <2> QED
    BY <2>2
<1> HIDE DEF m
<1>6. Grows(g, m, w)
  BY <1>1, <1>2, <1>5, ChainedPrefix
<1>7. \A k \in 0..m : Len(g[k]) = k
  <2> DEFINE X == {k \in Nat : k \in 0..m => Len(g[k]) = k}
  <2>1. 0 \in X
    <3>1. 0 \in 0..m => g[0] = << >>
      BY <1>5 DEF Chained
    <3>2. Len(<< >>) = 0
      OBVIOUS
    <3> QED
      BY <1>1, <3>1, <3>2
  <2>2. ASSUME NEW k \in Nat, k \in X, k + 1 \in 0..m PROVE Len(g[k + 1]) = k + 1
    <3> DEFINE h == k + 1
    <3>1. h \in 1..m /\ k \in 0..m /\ k = h - 1
      BY <1>1, <2>2
    <3> HIDE DEF h
    <3>2. Len(g[h]) = Len(g[h - 1]) + Len(w[h])
      BY <1>6, <3>1 DEF Grows
    <3>3. Len(g[h - 1]) = h - 1 /\ Len(w[h]) = 1
      BY <1>2, <2>2, <3>1
    <3>4. Len(g[h]) = h
      BY <1>1, <3>1, <3>2, <3>3
    <3> QED
      BY <3>4 DEF h
  <2>3. Nat \subseteq X
    <3>1. \A k \in Nat : k \in X => k + 1 \in X
      BY <2>2
    <3> HIDE DEF X
    <3> QED
      BY <2>1, <3>1, NatSetInduction
  <2> QED
    BY <1>1, <2>3
<1>8. \A k \in 1..m : g[m][k] = s[k]
  <2> SUFFICES ASSUME NEW k \in 1..m PROVE g[m][k] = s[k]
    OBVIOUS
  <2>1. k \in 0..m /\ k - 1 \in 0..m /\ k \in 1..k /\ (k - 1) + 1 = k /\ 1 \in 1..1
    BY <1>1
  <2>2. \A i \in 1..Len(w[k]) : g[k][Len(g[k - 1]) + i] = w[k][i]
    BY <1>6 DEF Grows
  <2>3. g[k][(k - 1) + 1] = w[k][1]
    BY <1>2, <1>7, <2>1, <2>2, Zenon
  <2>4. g[m][k] = g[k][k]
    BY <1>6, <1>7, <2>1 DEF Grows
  <2> QED
    BY <1>2, <2>1, <2>3, <2>4
<1>9. g[m] \in Seq(Clean) /\ Len(g[m]) = m
  BY <1>1, <1>5, <1>7
<1>10. g[m] = s
  <2> DEFINE x == g[m]
  <2>1. x \in Seq(Clean) /\ Len(x) = Len(s) /\ \A k \in 1..Len(s) : x[k] = s[k]
    BY <1>8, <1>9 DEF m
  <2> HIDE DEF x
  <2>2. x = s
    BY <2>1
  <2> QED
    BY <2>2 DEF x
<1> QED
  BY <1>4, <1>5, <1>10

-----------------------------------------------------------------------------
(***************************************************************************)
(* The inductive invariant: every change the caller holds was prepared on  *)
(* a text that Parse made, its patches lie in that text one behind the     *)
(* other, each of its relocations inserts what it took away, and each of   *)
(* its correspondences tells of one of its patches.                        *)
(***************************************************************************)
NatRange == [start : Nat, end : Nat]

ChangeSets ==
    [fingerprint     : Seq(Clean),
     patches         : Seq(Patches(Clean)),
     relocations     : SUBSET [source : NatRange, at : Nat],
     correspondences : SUBSET [id : NatRange, source : NatRange,
                               candidate : [start : Int, end : Int], owned : SUBSET NatRange]]

InsertsWhatItMoved(c, m) ==
    /\ Valid(m.source, Len(c.fingerprint))
    /\ \E i \in 1..Len(c.patches) :
          c.patches[i] = Patch([start |-> m.at, end |-> m.at], Bytes(c.fingerprint, m.source))

TellsOfAPatch(c, k) ==
    /\ k.id = k.source /\ Valid(k.source, Len(c.fingerprint))
    /\ \E i \in 1..Len(c.patches) :
          LET p == c.patches[i] IN
          /\ k.owned = {[start |-> p.start, end |-> p.end]}
          /\ k.source.start <= p.start /\ p.start < p.end /\ p.end <= k.source.end
          /\ k.candidate = [start |-> k.source.start, end |-> k.source.end + Delta(p)]

Sound(c) ==
    /\ LaidOut(c.patches, Len(c.fingerprint))
    /\ \A m \in c.relocations : InsertsWhatItMoved(c, m)
    /\ \A k \in c.correspondences : TellsOfAPatch(c, k)

IInv ==
    /\ file \in Seq(AllBytes)
    /\ Parsed => snapshot \in Seq(Clean)
    /\ pool \in Seq(ChangeSets)
    /\ \A i \in 1..Len(pool) : Sound(pool[i])

\* What Normalize puts in place of a NUL is longer, so what a replacement
\* holds is expected to be normalised already.
TextsWithoutNul == \A t \in Texts : \A i \in DOMAIN t : t[i] # Nul

LEMMA CleanTexts ==
    ASSUME TextsWithoutNul
    PROVE  Texts \subseteq Seq(Clean)
<1> SUFFICES ASSUME NEW t \in Texts PROVE t \in Seq(Clean)
  OBVIOUS
<1>1. t \in Seq(AllBytes)
  BY TextAssumption
<1>2. \A i \in DOMAIN t : t[i] # Nul
  BY DEF TextsWithoutNul
<1> QED
  BY <1>1, <1>2 DEF Clean

-----------------------------------------------------------------------------
Moves    == [source : NatRange, at : Nat]
Rewrites == [id : NatRange, source : NatRange,
             candidate : [start : Int, end : Int], owned : SUBSET NatRange]

Inserts(s, p, m) ==
    /\ Valid(m.source, Len(s))
    /\ p = Patch([start |-> m.at, end |-> m.at], Bytes(s, m.source))

Tells(s, p, k) ==
    /\ k.id = k.source /\ Valid(k.source, Len(s))
    /\ k.owned = {[start |-> p.start, end |-> p.end]}
    /\ k.source.start <= p.start /\ p.start < p.end /\ p.end <= k.source.end
    /\ k.candidate = [start |-> k.source.start, end |-> k.source.end + Delta(p)]

LEMMA SoundSet ==
    ASSUME NEW s \in Seq(Clean), NEW patches \in Seq(Patches(Clean)),
           Accepted(Len(s), patches),
           NEW R \in SUBSET Moves, NEW K \in SUBSET Rewrites,
           \A m \in R : \E i \in 1..Len(patches) : Inserts(s, patches[i], m),
           \A k \in K : \E i \in 1..Len(patches) : Tells(s, patches[i], k),
           NEW c, c = [fingerprint |-> s, patches |-> InOrder(patches),
                       relocations |-> R, correspondences |-> K]
    PROVE  c \in ChangeSets /\ Sound(c)
<1> DEFINE q == InOrder(patches)
<1>1. /\ q \in Seq(Patches(Clean)) /\ LaidOut(q, Len(s))
      /\ \A i \in 1..Len(patches) : \E j \in 1..Len(q) : q[j] = patches[i]
  <2> DEFINE n == Len(s)
  <2>1. q = InOrder(patches) /\ Accepted(n, patches)
    OBVIOUS
  <2> HIDE DEF q, n
  <2>2. /\ q \in Seq(Patches(Clean)) /\ LaidOut(q, n)
        /\ \A i \in 1..Len(patches) : \E j \in 1..Len(q) : q[j] = patches[i]
    BY <2>1, AcceptedIs
  <2> QED
    BY <2>2 DEF n
<1> HIDE DEF q
<1>2. /\ c.fingerprint = s /\ c.patches = q /\ c.relocations = R /\ c.correspondences = K
  BY DEF q
<1>3. c \in ChangeSets
  <2>1. c = [fingerprint |-> s, patches |-> q, relocations |-> R, correspondences |-> K]
    BY DEF q
  <2> QED
    BY <1>1, <2>1 DEF ChangeSets, Moves, Rewrites
<1>4. ASSUME NEW m \in R PROVE InsertsWhatItMoved(c, m)
  <2>1. PICK i \in 1..Len(patches) : Inserts(s, patches[i], m)
    OBVIOUS
  <2>2. PICK j \in 1..Len(q) : q[j] = patches[i]
    BY <1>1
  <2>3. Inserts(s, q[j], m)
    BY <2>1, <2>2
  <2> QED
    BY <1>2, <2>3, Zenon DEF Inserts, InsertsWhatItMoved
<1>5. ASSUME NEW k \in K PROVE TellsOfAPatch(c, k)
  <2>1. PICK i \in 1..Len(patches) : Tells(s, patches[i], k)
    OBVIOUS
  <2>2. PICK j \in 1..Len(q) : q[j] = patches[i]
    BY <1>1
  <2>3. Tells(s, q[j], k)
    BY <2>1, <2>2
  <2> QED
    BY <1>2, <2>3, Zenon DEF Tells, TellsOfAPatch
<1> QED
  BY <1>1, <1>2, <1>3, <1>4, <1>5, Zenon DEF Sound

LEMMA BytesOfRange ==
    ASSUME NEW V, NEW s \in Seq(V), NEW r \in NatRange, Valid(r, Len(s)),
           NEW x, x = Bytes(s, r)
    PROVE  IsPart(V, x, s, r.start, r.end)
<1> DEFINE a == r.start
           b == r.end
<1>1. a \in Nat /\ b \in Nat /\ a <= b /\ b <= Len(s) /\ x = SubSeq(s, a + 1, b)
  BY DEF NatRange, Valid, Bytes
<1> HIDE DEF a, b
<1>2. IsPart(V, x, s, a, b)
  BY <1>1, SubSeqIs
<1> QED
  BY <1>2 DEF a, b

LEMMA SnapshotRangesAre ==
    ASSUME IInv, Parsed, NEW r \in SnapshotRanges
    PROVE  r \in NatRange /\ Valid(r, Len(snapshot)) /\ Len(snapshot) \in Nat
<1>1. snapshot \in Seq(Clean)
  BY DEF IInv
<1>2. Len(snapshot) \in Nat /\ r \in Ranges(Len(snapshot))
  BY <1>1 DEF SnapshotRanges
<1> QED
  BY <1>2 DEF Ranges, NatRange, Valid

LEMMA HoldKeeps ==
    ASSUME IInv, NEW c \in ChangeSets, Sound(c), Hold(c)
    PROVE  IInv'
<1>1. pool' = Append(pool, c) /\ file' = file /\ snapshot' = snapshot
  BY DEF Hold
<1>2. pool \in Seq(ChangeSets) /\ \A i \in 1..Len(pool) : Sound(pool[i])
  BY DEF IInv
<1>3. /\ pool' \in Seq(ChangeSets) /\ Len(pool') = Len(pool) + 1 /\ Len(pool) \in Nat
      /\ \A i \in 1..Len(pool) : pool'[i] = pool[i]
      /\ pool'[Len(pool) + 1] = c
  BY <1>1, <1>2
<1>4. \A i \in 1..Len(pool') : i \in 1..Len(pool) \/ i = Len(pool) + 1
  BY <1>3
<1>5. \A i \in 1..Len(pool') : Sound(pool'[i])
  BY <1>2, <1>3, <1>4, Zenon
<1>6. file' \in Seq(AllBytes) /\ (Parsed' => snapshot' \in Seq(Clean))
  BY <1>1 DEF IInv, Parsed
<1> QED
  BY <1>3, <1>5, <1>6 DEF IInv

LEMMA PrepareKeeps ==
    ASSUME IInv, TextsWithoutNul, NEW r \in SnapshotRanges, NEW text \in Texts, Prepare(r, text)
    PROVE  IInv'
<1> DEFINE s == snapshot
<1>1. s \in Seq(Clean) /\ Len(s) \in Nat /\ r \in NatRange /\ Valid(r, Len(s))
  BY SnapshotRangesAre DEF IInv, Prepare
<1>2. text \in Seq(Clean)
  BY CleanTexts
<1>3. CASE text = Bytes(s, r)
  <2> DEFINE c == ChangeSet(s, << >>)
             e == << >>
  <2>1. Hold(c)
    BY <1>3 DEF Prepare
  <2>2. c = [fingerprint |-> s, patches |-> InOrder(e), relocations |-> {}, correspondences |-> {}]
    BY DEF ChangeSet, Sum
  <2>3. e \in Seq(Patches(Clean)) /\ Accepted(Len(s), e)
    BY NoPatch DEF Accepted, NeighboursDisjoint
  <2> HIDE DEF c, s, e
  <2>4. c \in ChangeSets /\ Sound(c)
    BY <1>1, <2>2, <2>3, SoundSet
  <2> QED
    BY <2>1, <2>4, HoldKeeps
<1>4. CASE text # Bytes(s, r)
  <2> DEFINE p == Patch(r, text)
             e == <<p>>
             c == ChangeSet(s, e)
  <2>1. Hold(c)
    BY <1>4 DEF Prepare
  <2>2. c = [fingerprint |-> s, patches |-> InOrder(e), relocations |-> {}, correspondences |-> {}]
    BY DEF ChangeSet, Sum
  <2>3. p \in Patches(Clean) /\ Valid(p, Len(s))
    BY <1>1, <1>2 DEF Patch, Patches, NatRange, Valid
  <2>4. e \in Seq(Patches(Clean)) /\ Accepted(Len(s), e)
    <3> HIDE DEF p, s
    <3> QED
      BY <1>1, <2>3, OnePatch
  <2> HIDE DEF c, s, e
  <2>5. c \in ChangeSets /\ Sound(c)
    BY <1>1, <2>2, <2>4, SoundSet
  <2> QED
    BY <2>1, <2>5, HoldKeeps
<1> QED
  BY <1>3, <1>4

LEMMA MoveKeeps ==
    ASSUME IInv, NEW r \in SnapshotRanges, NEW at \in SnapshotOffsets, PrepareMove(r, at)
    PROVE  IInv'
<1> DEFINE s == snapshot
           x == Bytes(s, r)
           o == Patch(r, << >>)
           p == Patch([start |-> at, end |-> at], x)
           m == [source |-> r, at |-> at]
           e == <<o, p>>
           R == {m}
           c == [ChangeSet(s, e) EXCEPT !.relocations = R]
<1>1. s \in Seq(Clean) /\ Len(s) \in Nat /\ r \in NatRange /\ Valid(r, Len(s))
  BY SnapshotRangesAre DEF IInv, PrepareMove
<1>2. at \in 0..Len(s) /\ at \in Nat
  BY <1>1 DEF SnapshotOffsets
<1>3. x \in Seq(Clean)
  <2> HIDE DEF s, x
  <2>1. x = Bytes(s, r)
    BY DEF x
  <2> QED
    BY <1>1, <2>1, BytesOfRange DEF IsPart
<1>4. Hold(c) /\ r.start < r.end /\ (at < r.start \/ at > r.end)
  BY DEF PrepareMove
<1>5. c = [fingerprint |-> s, patches |-> InOrder(e), relocations |-> R, correspondences |-> {}]
  <2> HIDE DEF R, e, s
  <2> QED
    BY DEF ChangeSet, Sum
<1> HIDE DEF c, s, x
<1>6. o \in Patches(Clean) /\ Valid(o, Len(s)) /\ o.start < o.end
  BY <1>1, <1>4 DEF Patch, Patches, NatRange, Valid
<1>7. p \in Patches(Clean) /\ Valid(p, Len(s)) /\ p.start = p.end /\ p.start = at
  BY <1>1, <1>2, <1>3 DEF Patch, Patches, Valid
<1>8. p.start < o.start \/ p.start > o.end
  BY <1>4, <1>7 DEF Patch
<1>9. Inserts(s, p, m) /\ m \in Moves
  <2>1. m.source = r /\ m.at = at
    OBVIOUS
  <2>2. m \in Moves
    BY <1>1, <1>2 DEF Moves
  <2>3. p = Patch([start |-> m.at, end |-> m.at], Bytes(s, m.source))
    BY <2>1 DEF x
  <2> HIDE DEF p, m
  <2> QED
    BY <1>1, <2>1, <2>2, <2>3 DEF Inserts
<1> HIDE DEF o, p, m
<1>10. Accepted(Len(s), e)
  BY <1>1, <1>4, <1>6, <1>7, <1>8, MovePatches
<1>11. e \in Seq(Patches(Clean)) /\ Len(e) = 2 /\ e[2] = p
  BY <1>6, <1>7
<1> HIDE DEF e
<1>12. \A n \in {m} : \E i \in 1..Len(e) : Inserts(s, e[i], n)
  BY <1>9, <1>11
<1>13. c \in ChangeSets /\ Sound(c)
  <2>1. {m} \in SUBSET Moves /\ {} \in SUBSET Rewrites
    BY <1>9
  <2> QED
    BY <1>1, <1>5, <1>10, <1>11, <1>12, <2>1, SoundSet
<1> QED
  BY <1>4, <1>13, HoldKeeps

LEMMA RewriteKeeps ==
    ASSUME IInv, TextsWithoutNul, NEW target \in Targets, NEW content \in SnapshotRanges,
           NEW text \in Texts, PrepareRewrite(target, content, text)
    PROVE  IInv'
<1> DEFINE s == snapshot
           p == Patch(content, text)
           e == <<p>>
           k == [id        |-> target,
                 source    |-> target,
                 candidate |-> [target EXCEPT !.end = @ + Delta(p)],
                 owned     |-> {content}]
           c == [ChangeSet(s, e) EXCEPT !.correspondences = {k}]
<1>1. s \in Seq(Clean) /\ Len(s) \in Nat /\ content \in NatRange /\ Valid(content, Len(s))
  BY SnapshotRangesAre DEF IInv, PrepareRewrite
<1>2. text \in Seq(Clean)
  BY CleanTexts
<1>3. target \in NatRange /\ Valid(target, Len(s))
  BY TextAssumption DEF NatRange, PrepareRewrite
<1>4. /\ target.start <= content.start /\ content.end <= target.end
      /\ content.start < content.end
  BY DEF PrepareRewrite
<1>5. CASE text = Bytes(s, content)
  <2> DEFINE d == ChangeSet(s, << >>)
             f == << >>
  <2>1. Hold(d)
    BY <1>5 DEF PrepareRewrite
  <2>2. d = [fingerprint |-> s, patches |-> InOrder(f), relocations |-> {}, correspondences |-> {}]
    BY DEF ChangeSet, Sum
  <2>3. f \in Seq(Patches(Clean)) /\ Accepted(Len(s), f)
    BY NoPatch DEF Accepted, NeighboursDisjoint
  <2> HIDE DEF d, s, f
  <2>4. d \in ChangeSets /\ Sound(d)
    BY <1>1, <2>2, <2>3, SoundSet
  <2> QED
    BY <2>1, <2>4, HoldKeeps
<1>6. CASE text # Bytes(s, content)
  <2>1. Hold(c)
    BY <1>6 DEF PrepareRewrite
  <2>2. c = [fingerprint |-> s, patches |-> InOrder(e), relocations |-> {}, correspondences |-> {k}]
    BY DEF ChangeSet, Sum
  <2>3. p \in Patches(Clean) /\ Valid(p, Len(s)) /\ Delta(p) \in Int
    BY <1>1, <1>2 DEF Patch, Patches, NatRange, Valid, Delta
  <2>4. e \in Seq(Patches(Clean)) /\ Accepted(Len(s), e) /\ Len(e) = 1 /\ e[1] = p
    <3> HIDE DEF p, s
    <3> QED
      BY <1>1, <2>3, OnePatch
  <2>5. content = [start |-> p.start, end |-> p.end]
    BY <1>1 DEF Patch, NatRange
  <2>6. [target EXCEPT !.end = @ + Delta(p)] = [start |-> target.start, end |-> target.end + Delta(p)]
    BY <1>3 DEF NatRange
  <2>7. p.start = content.start /\ p.end = content.end
    BY DEF Patch
  <2> HIDE DEF c, s, e, p
  <2>8. k \in Rewrites
    <3>1. [target EXCEPT !.end = @ + Delta(p)] \in [start : Int, end : Int]
      BY <1>3, <2>3, <2>6 DEF NatRange
    <3>2. {content} \in SUBSET NatRange
      BY <1>1
    <3> QED
      BY <1>3, <3>1, <3>2 DEF Rewrites
  <2>9. Tells(s, p, k)
    <3>1. /\ k.id = target /\ k.source = target /\ k.owned = {content}
          /\ k.candidate = [start |-> target.start, end |-> target.end + Delta(p)]
      BY <2>6
    <3> HIDE DEF k
    <3> QED
      BY <1>3, <1>4, <2>5, <2>7, <3>1, Zenon DEF Tells
  <2> HIDE DEF k
  <2>10. \A n \in {k} : \E i \in 1..Len(e) : Tells(s, e[i], n)
    BY <2>4, <2>9
  <2>11. c \in ChangeSets /\ Sound(c)
    <3>1. {k} \in SUBSET Rewrites /\ {} \in SUBSET Moves
      BY <2>8
    <3> QED
      BY <1>1, <2>2, <2>4, <2>10, <3>1, SoundSet
  <2> QED
    BY <2>1, <2>11, HoldKeeps
<1> QED
  BY <1>5, <1>6

LEMMA ComposeKeeps ==
    ASSUME IInv, Compose
    PROVE  IInv'
<1> DEFINE s == snapshot
           a == pool[1]
           b == pool[2]
           e == a.patches \o b.patches
           c == Combined(pool)
<1>1. s \in Seq(Clean) /\ Len(pool) = 2 /\ pool \in Seq(ChangeSets)
  BY DEF IInv, Compose
<1>2. a \in ChangeSets /\ b \in ChangeSets /\ Sound(a) /\ Sound(b)
  <2>1. 1 \in 1..Len(pool) /\ 2 \in 1..Len(pool)
    BY <1>1
  <2>2. \A i \in 1..Len(pool) : Sound(pool[i])
    BY DEF IInv
  <2> QED
    BY SMTT(40), <1>1, <2>1, <2>2
<1>3. a.fingerprint = s /\ b.fingerprint = s /\ Accepted(Len(s), e)
  BY <1>1 DEF Compose, Compatible, Sum
<1>4. pool' = <<c>> /\ file' = file /\ snapshot' = snapshot
  BY DEF Compose
<1> DEFINE R == a.relocations \cup b.relocations
           K == a.correspondences \cup b.correspondences
<1>5. c = [fingerprint |-> s, patches |-> InOrder(e), relocations |-> R, correspondences |-> K]
  BY <1>3 DEF Combined, Sum
<1>6. /\ a.patches \in Seq(Patches(Clean)) /\ b.patches \in Seq(Patches(Clean))
      /\ R \in SUBSET Moves /\ K \in SUBSET Rewrites
  BY <1>2 DEF ChangeSets, Moves, Rewrites
<1> DEFINE p == a.patches
           q == b.patches
<1>7. IsConcat(Patches(Clean), e, p, q)
  <2>1. e = p \o q /\ p \in Seq(Patches(Clean)) /\ q \in Seq(Patches(Clean))
    BY <1>6
  <2> HIDE DEF e, p, q
  <2> QED
    BY <2>1, ConcatOf
<1>8. /\ \A i \in 1..Len(p) : \E j \in 1..Len(e) : e[j] = p[i]
      /\ \A i \in 1..Len(q) : \E j \in 1..Len(e) : e[j] = q[i]
  <2>1. Len(p) \in Nat /\ Len(q) \in Nat
    BY <1>6
  <2> HIDE DEF e, p, q
  <2>2. Len(e) = Len(p) + Len(q)
    BY <1>7 DEF IsConcat
  <2>3. \A i \in 1..Len(p) : i \in 1..Len(e) /\ e[i] = p[i]
    BY <1>7, <2>1, <2>2 DEF IsConcat
  <2>4. \A i \in 1..Len(q) : Len(p) + i \in 1..Len(e) /\ e[Len(p) + i] = q[i]
    BY <1>7, <2>1, <2>2 DEF IsConcat
  <2> QED
    BY <2>3, <2>4, Zenon
<1>9. \A m \in R : \E i \in 1..Len(e) : Inserts(s, e[i], m)
  <2> SUFFICES ASSUME NEW m \in R PROVE \E i \in 1..Len(e) : Inserts(s, e[i], m)
    OBVIOUS
  <2>1. CASE m \in a.relocations
    <3>1. PICK i \in 1..Len(p) : Inserts(s, p[i], m)
      <4>1. InsertsWhatItMoved(a, m)
        BY <1>2, <2>1 DEF Sound
      <4> QED
        BY <1>3, <4>1 DEF InsertsWhatItMoved, Inserts
    <3>2. PICK j \in 1..Len(e) : e[j] = p[i]
      BY <1>8
    <3> HIDE DEF e, p
    <3> QED
      BY <3>1, <3>2
  <2>2. CASE m \in b.relocations
    <3>1. PICK i \in 1..Len(q) : Inserts(s, q[i], m)
      <4>1. InsertsWhatItMoved(b, m)
        BY <1>2, <2>2 DEF Sound
      <4> QED
        BY <1>3, <4>1 DEF InsertsWhatItMoved, Inserts
    <3>2. PICK j \in 1..Len(e) : e[j] = q[i]
      BY <1>8
    <3> HIDE DEF e, q
    <3> QED
      BY <3>1, <3>2
  <2> QED
    BY <2>1, <2>2
<1>10. \A k \in K : \E i \in 1..Len(e) : Tells(s, e[i], k)
  <2> SUFFICES ASSUME NEW k \in K PROVE \E i \in 1..Len(e) : Tells(s, e[i], k)
    OBVIOUS
  <2>1. CASE k \in a.correspondences
    <3>1. PICK i \in 1..Len(p) : Tells(s, p[i], k)
      <4>1. TellsOfAPatch(a, k)
        BY <1>2, <2>1 DEF Sound
      <4> QED
        BY <1>3, <4>1 DEF TellsOfAPatch, Tells
    <3>2. PICK j \in 1..Len(e) : e[j] = p[i]
      BY <1>8
    <3> HIDE DEF e, p
    <3> QED
      BY <3>1, <3>2
  <2>2. CASE k \in b.correspondences
    <3>1. PICK i \in 1..Len(q) : Tells(s, q[i], k)
      <4>1. TellsOfAPatch(b, k)
        BY <1>2, <2>2 DEF Sound
      <4> QED
        BY <1>3, <4>1 DEF TellsOfAPatch, Tells
    <3>2. PICK j \in 1..Len(e) : e[j] = q[i]
      BY <1>8
    <3> HIDE DEF e, q
    <3> QED
      BY <3>1, <3>2
  <2> QED
    BY <2>1, <2>2
<1>11. e \in Seq(Patches(Clean))
  BY <1>7 DEF IsConcat
<1> HIDE DEF c, R, K, e, s
<1>12. c \in ChangeSets /\ Sound(c)
  BY <1>1, <1>3, <1>5, <1>6, <1>9, <1>10, <1>11, SoundSet
<1>13. pool' \in Seq(ChangeSets) /\ Len(pool') = 1 /\ pool'[1] = c
  BY <1>4, <1>12
<1>14. \A i \in 1..Len(pool') : Sound(pool'[i])
  <2>1. \A i \in 1..1 : i = 1
    OBVIOUS
  <2> QED
    BY <1>12, <1>13, <2>1, Zenon
<1>15. file' \in Seq(AllBytes) /\ (Parsed' => snapshot' \in Seq(Clean))
  BY <1>4 DEF IInv, Parsed
<1> QED
  BY <1>13, <1>14, <1>15 DEF IInv

\* What a change makes of the text it was prepared on.
LEMMA ResultIs ==
    ASSUME NEW c \in ChangeSets, Sound(c), NEW f, Normalize(f) = c.fingerprint
    PROVE  /\ Result(c, f) = Splice(c.fingerprint, c.patches)
           /\ Result(c, f) \in Seq(Clean)
           /\ Lengths(Result(c, f), c.fingerprint, c.patches)
           /\ GapsKept(Result(c, f), c.fingerprint, c.patches)
           /\ TextsWritten(Result(c, f), c.patches)
           /\ NothingElse(Result(c, f), c.fingerprint, c.patches)
<1> DEFINE s == c.fingerprint
           q == c.patches
           a == Splice(s, q)
<1>1. s \in Seq(Clean) /\ q \in Seq(Patches(Clean)) /\ LaidOut(q, Len(s)) /\ a = Splice(s, q)
  BY DEF ChangeSets, Sound
<1>2. Result(c, f) = Normalize(a)
  BY DEF Result
<1> HIDE DEF s, q, a
<1>3. /\ a \in Seq(Clean)
      /\ Lengths(a, s, q) /\ GapsKept(a, s, q)
      /\ TextsWritten(a, q) /\ NothingElse(a, s, q)
  BY <1>1, SpliceIs
<1>4. Normalize(a) = a
  BY <1>3, NormalizeClean
<1> QED
  BY <1>1, <1>2, <1>3, <1>4, Zenon DEF s, q

LEMMA SaveKeeps ==
    ASSUME IInv, NEW i \in 1..MaxPool, Save(i)
    PROVE  IInv'
<1>1. /\ i \in DOMAIN pool /\ pool[i].fingerprint = Normalize(file)
      /\ file' = Result(pool[i], file) /\ pool' = pool /\ snapshot' = snapshot
  BY DEF Save, Applies, Sum
<1>2. pool[i] \in ChangeSets /\ Sound(pool[i])
  BY <1>1 DEF IInv
<1>3. file' \in Seq(Clean)
  <2> DEFINE c == pool[i]
  <2>1. c \in ChangeSets /\ Sound(c) /\ Normalize(file) = c.fingerprint /\ file' = Result(c, file)
    BY <1>1, <1>2
  <2> HIDE DEF c
  <2> QED
    BY <2>1, ResultIs
<1>4. file' \in Seq(AllBytes)
  BY <1>3 DEF Clean
<1> QED
  BY <1>1, <1>4 DEF IInv, Parsed

LEMMA StepKeeps ==
    ASSUME IInv, TextsWithoutNul, [Next]_vars
    PROVE  IInv'
<1>1. CASE Parse
  <2>1. snapshot' = Normalize(file) /\ file' = file /\ pool' = pool
    BY <1>1 DEF Parse
  <2>2. snapshot' \in Seq(Clean)
    BY <2>1, NormalizeType DEF IInv
  <2> QED
    BY <2>1, <2>2 DEF IInv
<1>2. ASSUME NEW r \in SnapshotRanges, NEW text \in Texts, Prepare(r, text) PROVE IInv'
  BY <1>2, PrepareKeeps
<1>3. ASSUME NEW r \in SnapshotRanges, NEW at \in SnapshotOffsets, PrepareMove(r, at) PROVE IInv'
  BY <1>3, MoveKeeps
<1>4. ASSUME NEW t \in Targets, NEW r \in SnapshotRanges, NEW text \in Texts,
             PrepareRewrite(t, r, text)
      PROVE  IInv'
  BY <1>4, RewriteKeeps
<1>5. CASE Compose
  BY <1>5, ComposeKeeps
<1>6. ASSUME NEW i \in 1..MaxPool, Save(i) PROVE IInv'
  BY <1>6, SaveKeeps
<1>7. CASE Discard
  <2>1. pool' = << >> /\ file' = file /\ snapshot' = snapshot
    BY <1>7 DEF Discard
  <2>2. pool' \in Seq(ChangeSets) /\ \A i \in 1..Len(pool') : Sound(pool'[i])
    BY <2>1
  <2> QED
    BY <2>1, <2>2 DEF IInv, Parsed
<1>8. ASSUME NEW f \in Files, Write(f) PROVE IInv'
  <2>1. f \in Seq(AllBytes)
    BY TextAssumption
  <2>2. file' = f /\ snapshot' = snapshot /\ pool' = pool
    BY <1>8 DEF Write
  <2> QED
    BY <2>1, <2>2 DEF IInv, Parsed
<1>9. CASE UNCHANGED vars
  <2>1. file' = file /\ snapshot' = snapshot /\ pool' = pool
    BY <1>9 DEF vars
  <2> QED
    BY <2>1 DEF IInv, Parsed
<1> QED
  BY <1>1, <1>2, <1>3, <1>4, <1>5, <1>6, <1>7, <1>8, <1>9 DEF Next

LEMMA InitHolds ==
    ASSUME Init
    PROVE  IInv
<1>1. file \in Seq(AllBytes)
  BY TextAssumption DEF Init
<1>2. snapshot = NoDocument /\ pool = << >>
  BY DEF Init
<1>3. pool \in Seq(ChangeSets) /\ \A i \in 1..Len(pool) : Sound(pool[i])
  BY <1>2
<1> QED
  BY <1>1, <1>2, <1>3 DEF IInv, Parsed

LEMMA Inductive == TextsWithoutNul => (Spec => []IInv)
<1> SUFFICES ASSUME TextsWithoutNul PROVE Spec => []IInv
  OBVIOUS
<1>1. Init => IInv
  BY InitHolds
<1>2. IInv /\ [Next]_vars => IInv'
  BY StepKeeps
<1> QED
  BY <1>1, <1>2, PTL DEF Spec

-----------------------------------------------------------------------------
\* From a to b, s is what t is d further on.
Agree(s, t, a, b, d) == \A o \in Int : a <= o /\ o < b => t[o + d + 1] = s[o + 1]

LEMMA SameParts ==
    ASSUME NEW V, NEW s, NEW t, NEW a \in Int, NEW b \in Int, NEW d \in Int,
           NEW x, IsPart(V, x, s, a, b), NEW y, IsPart(V, y, t, a + d, b + d),
           Agree(s, t, a, b, d)
    PROVE  y = x
<1>1. x \in Seq(V) /\ y \in Seq(V) /\ Len(x) = b - a /\ Len(y) = (b + d) - (a + d)
  BY DEF IsPart
<1>2. Len(y) = Len(x)
  BY <1>1
<1>3. ASSUME NEW i \in 1..Len(x) PROVE y[i] = x[i]
  <2> DEFINE o == a + i - 1
  <2>1. i \in 1..(b - a) /\ i \in 1..((b + d) - (a + d))
    BY <1>1, <1>2
  <2>2. o \in Int /\ a <= o /\ o < b /\ o + 1 = a + i /\ o + d + 1 = (a + d) + i
    BY <2>1
  <2>3. x[i] = s[a + i] /\ y[i] = t[(a + d) + i]
    BY <2>1 DEF IsPart
  <2> HIDE DEF o
  <2>4. t[o + d + 1] = s[o + 1]
    BY <2>2 DEF Agree
  <2> QED
    BY <2>2, <2>3, <2>4
<1> QED
  BY <1>1, <1>2, <1>3

\* A range between two patches is found, moved by what is in front of it.
LEMMA GapRange ==
    ASSUME NEW V, NEW s \in Seq(V), NEW q \in Seq(Patches(V)), LaidOut(q, Len(s)),
           NEW a \in Seq(V), Lengths(a, s, q), GapsKept(a, s, q),
           NEW k \in 0..Len(q), NEW r \in NatRange, r.start <= r.end,
           Cursor(q, k) <= r.start, r.end <= Limit(q, k, Len(s)),
           NEW after, after = Shifted(r, PrefixDelta(q, k))
    PROVE  Valid(after, Len(a)) /\ Bytes(a, after) = Bytes(s, r)
<1> DEFINE d == PrefixDelta(q, k)
           n == Len(s)
           u == r.start
           v == r.end
           c == Cursor(q, k)
           l == Limit(q, k, n)
<1>1. /\ c \in 0..n /\ l \in 0..n /\ d \in Int /\ n \in Nat
      /\ u \in Nat /\ v \in Nat /\ u <= v /\ c <= u /\ v <= l
  BY Cursors, DeltaSums DEF NatRange
<1>2. 0 <= c + d /\ l + d <= Len(a) /\ Len(a) \in Nat
  BY DEF Lengths
<1>3. \A o \in Int : c <= o /\ o < l => a[o + d + 1] = s[o + 1]
  BY DEF GapsKept, Between
<1>4. after.start = u + d /\ after.end = v + d
  BY DEF Shifted
<1> HIDE DEF c, l, d, n, u, v
<1>5. 0 <= u + d /\ u + d <= v + d /\ v + d <= Len(a)
  BY <1>1, <1>2
<1>6. Valid(after, Len(a))
  BY <1>4, <1>5 DEF Valid
<1> DEFINE x == Bytes(s, r)
           y == Bytes(a, after)
           f == u + d
           g == v + d
<1>7. x = SubSeq(s, u + 1, v) /\ y = SubSeq(a, f + 1, g) /\ f \in Nat /\ g \in Nat
      /\ f <= g /\ g <= Len(a) /\ v <= Len(s)
  BY <1>1, <1>4, <1>5 DEF Bytes, u, v, n
<1> HIDE DEF x, y, f, g
<1>8. IsPart(V, x, s, u, v) /\ IsPart(V, y, a, f, g)
  BY <1>1, <1>7, SubSeqIs
<1>9. Agree(s, a, u, v, d)
  <2>1. \A o \in Int : u <= o /\ o < v => c <= o /\ o < l
    BY <1>1
  <2> QED
    BY <1>3, <2>1 DEF Agree
<1>10. IsPart(V, y, a, u + d, v + d)
  BY <1>8 DEF f, g
<1>11. y = x
  <2>1. u \in Int /\ v \in Int /\ d \in Int /\ IsPart(V, x, s, u, v)
    BY <1>1, <1>8
  <2> QED
    BY <1>9, <1>10, <2>1, SameParts
<1> QED
  BY <1>6, <1>11 DEF x, y

LEMMA RangeFollows ==
    ASSUME NEW V, NEW s \in Seq(V), NEW q \in Seq(Patches(V)), LaidOut(q, Len(s)),
           NEW a \in Seq(V), Lengths(a, s, q), GapsKept(a, s, q),
           NEW r \in NatRange, Valid(r, Len(s)),
           NEW after, after = RangeAfterPatches(r, q), after # NoRange
    PROVE  Valid(after, Len(a)) /\ Bytes(a, after) = Bytes(s, r)
<1> DEFINE n == Len(s)
           m == Len(q)
           e == r.end
           h == Cardinality({i \in DOMAIN q : q[i].start < e})
<1>1. /\ n \in Nat /\ m \in Nat /\ e \in Nat /\ r.start \in Nat
      /\ r.start <= r.end /\ r.end <= n
  BY DEF NatRange, Valid
<1>2. h = Cardinality({i \in DOMAIN q : q[i].start < e})
  OBVIOUS
<1>3. after = IF \A i \in 1..h : q[i].end <= r.start
              THEN Shifted(r, PrefixDelta(q, h)) ELSE NoRange
  BY DEF RangeAfterPatches, HowMany
<1> HIDE DEF h, e, n
<1>4. h \in 0..m /\ \A i \in 1..m : i <= h <=> q[i].start < e
  <2>1. LaidOut(q, n) /\ n \in Nat /\ e \in Int
    BY <1>1 DEF n
  <2> QED
    BY <1>2, <2>1, StartingBefore
<1>5. \A i \in 1..h : q[i].end <= r.start
  BY <1>3
<1>6. after = Shifted(r, PrefixDelta(q, h))
  BY <1>3
<1>7. Cursor(q, h) <= r.start
  <2>1. h = 0 \/ h \in 1..h
    BY <1>1, <1>4
  <2> QED
    BY <1>1, <1>5, <2>1 DEF Cursor
<1>8. r.end <= Limit(q, h, n)
  <2>1. CASE h = m
    BY <1>1, <2>1 DEF Limit
  <2>2. CASE h # m
    <3>1. h + 1 \in 1..m /\ ~(h + 1 <= h)
      BY <1>1, <1>4, <2>2
    <3>2. q[h + 1].start \in Int
      <4>1. q[h + 1] \in Patches(V)
        BY <3>1
      <4> QED
        BY <4>1 DEF Patches
    <3>3. ~(q[h + 1].start < e)
      BY <1>4, <3>1
    <3> QED
      BY <1>1, <2>2, <3>2, <3>3 DEF Limit, e
  <2> QED
    BY <2>1, <2>2
<1> QED
  BY <1>1, <1>4, <1>6, <1>7, <1>8, GapRange DEF n

LEMMA OriginNormal ==
    ASSUME NEW c \in ChangeSets
    PROVE  Normalize(Origin(c)) = c.fingerprint /\ Origin(c) = c.fingerprint
<1>1. c.fingerprint \in Seq(Clean)
  BY DEF ChangeSets
<1> QED
  BY <1>1, NormalizeClean DEF Origin

LEMMA ResultOfOrigin ==
    ASSUME NEW c \in ChangeSets, Sound(c),
           NEW s, s = Origin(c), NEW q, q = c.patches, NEW a, a = Result(c, Origin(c))
    PROVE  /\ s \in Seq(Clean) /\ q \in Seq(Patches(Clean)) /\ LaidOut(q, Len(s))
           /\ a \in Seq(Clean)
           /\ Lengths(a, s, q) /\ GapsKept(a, s, q)
           /\ TextsWritten(a, q) /\ NothingElse(a, s, q)
<1>1. Normalize(s) = c.fingerprint /\ s = c.fingerprint /\ a = Result(c, s)
  BY OriginNormal
<1>2. c.fingerprint \in Seq(Clean) /\ q \in Seq(Patches(Clean)) /\ LaidOut(q, Len(c.fingerprint))
  BY DEF ChangeSets, Sound
<1>3. /\ Result(c, s) \in Seq(Clean)
      /\ Lengths(Result(c, s), c.fingerprint, c.patches)
      /\ GapsKept(Result(c, s), c.fingerprint, c.patches)
      /\ TextsWritten(Result(c, s), c.patches)
      /\ NothingElse(Result(c, s), c.fingerprint, c.patches)
  BY <1>1, ResultIs
<1> QED
  BY <1>1, <1>2, <1>3, Zenon

LEMMA RangesOfSound ==
    ASSUME IInv
    PROVE  RangesFollow
<1> SUFFICES ASSUME NEW c \in Held, NEW r \in Ranges(Len(Origin(c))),
                    NEW after, after = RangeAfterPatches(r, c.patches), after # NoRange
             PROVE  /\ Valid(after, Len(Result(c, Origin(c))))
                    /\ Bytes(Result(c, Origin(c)), after) = Bytes(Origin(c), r)
  BY DEF RangesFollow
<1> DEFINE s == Origin(c)
           q == c.patches
           a == Result(c, Origin(c))
<1>1. c \in ChangeSets /\ Sound(c)
  BY DEF IInv, Held
<1>2. s = Origin(c) /\ q = c.patches /\ a = Result(c, Origin(c))
  OBVIOUS
<1>3. r \in Ranges(Len(s)) /\ after = RangeAfterPatches(r, q)
  OBVIOUS
<1> HIDE DEF s, q, a
<1>4. /\ s \in Seq(Clean) /\ q \in Seq(Patches(Clean)) /\ LaidOut(q, Len(s))
      /\ a \in Seq(Clean) /\ Lengths(a, s, q) /\ GapsKept(a, s, q)
  BY <1>1, <1>2, ResultOfOrigin
<1>5. r \in NatRange /\ Valid(r, Len(s))
  <2>1. Len(s) \in Nat
    BY <1>4
  <2> QED
    BY <1>3, <2>1 DEF Ranges, NatRange, Valid
<1>6. Valid(after, Len(a)) /\ Bytes(a, after) = Bytes(s, r)
  BY <1>3, <1>4, <1>5, RangeFollows
<1> QED
  BY <1>6 DEF s, a

\* A range that no patch touches keeps its bytes, and rangeAfterPatches says
\* where they are: in every change that can be prepared, combined or not.
THEOREM RangesAreFollowed == TextsWithoutNul => (Spec => []RangesFollow)
<1>1. IInv => RangesFollow
  BY RangesOfSound
<1> QED
  BY <1>1, Inductive, PTL

-----------------------------------------------------------------------------
\* An insertion is found by its place, with the patches in front of it.
LEMMA InsertionIs ==
    ASSUME NEW V, NEW c, NEW q \in Seq(Patches(V)), q = c.patches,
           NEW n \in Nat, LaidOut(q, n), NEW at \in Int,
           NEW i \in 1..Len(q), q[i].start = at, q[i].end = at
    PROVE  InsertionOffset(c, at) = at + PrefixDelta(q, i - 1)
<1> DEFINE h == Cardinality({j \in DOMAIN q : q[j].start < at})
<1>1. h = Cardinality({j \in DOMAIN q : q[j].start < at})
  OBVIOUS
<1>2. InsertionOffset(c, at) =
         IF /\ h < Len(q) /\ q[h + 1].start = at /\ q[h + 1].end = at
         THEN at + PrefixDelta(q, h) ELSE Lost
  BY DEF InsertionOffset, HowMany
<1> HIDE DEF h
<1>3. h \in 0..Len(q) /\ \A j \in 1..Len(q) : j <= h <=> q[j].start < at
  BY <1>1, StartingBefore
<1>4. Len(q) \in Nat
  OBVIOUS
<1>5. ~(i <= h)
  BY <1>3
<1>6. i = 1 \/ (i - 1 \in 1..Len(q) /\ i - 1 <= h)
  <2>1. CASE i > 1
    <3> DEFINE j == i - 1
    <3>1. j \in 1..Len(q) /\ j < i
      BY <1>4, <2>1
    <3> HIDE DEF j
    <3>2. q[j].start < q[i].start
      BY <3>1, Apart
    <3>3. j <= h
      BY <1>3, <3>1, <3>2
    <3> QED
      BY <3>1, <3>3 DEF j
  <2> QED
    BY <2>1
<1>7. h = i - 1 /\ h + 1 = i /\ h < Len(q)
  <2>1. h \in Nat
    BY <1>3, <1>4
  <2> QED
    BY <1>4, <1>5, <1>6, <2>1
<1> QED
  BY <1>2, <1>7

LEMMA MovedFollows ==
    ASSUME NEW c \in ChangeSets, Sound(c),
           NEW s, s = Origin(c), NEW a, a = Result(c, Origin(c)),
           NEW o \in 0..(Len(s) - 1), NEW m \in Relocated(c, o)
    PROVE  Moved(c, m, o) \in 0..(Len(a) - 1) /\ a[Moved(c, m, o) + 1] = s[o + 1]
<1> DEFINE q == c.patches
           at == m.at
           u == m.source.start
           v == m.source.end
<1>1. /\ s \in Seq(Clean) /\ q \in Seq(Patches(Clean)) /\ LaidOut(q, Len(s))
      /\ Lengths(a, s, q) /\ TextsWritten(a, q) /\ a \in Seq(Clean)
  <2>1. q = c.patches
    OBVIOUS
  <2> HIDE DEF q
  <2> QED
    BY <2>1, ResultOfOrigin
<1>2. m \in c.relocations /\ u <= o /\ o < v
  BY DEF Relocated, Holds
<1>3. m \in Moves /\ InsertsWhatItMoved(c, m)
  BY <1>2 DEF Sound, ChangeSets, Moves
<1>4. /\ m.source \in NatRange /\ at \in Nat /\ u \in Nat /\ v \in Nat
      /\ Valid(m.source, Len(s)) /\ u <= v /\ v <= Len(s)
  <2>1. s = c.fingerprint
    BY DEF Origin
  <2> QED
    BY <1>3, <2>1 DEF Moves, NatRange, InsertsWhatItMoved, Valid
<1>5. PICK i \in 1..Len(q) : q[i] = Patch([start |-> at, end |-> at], Bytes(s, m.source))
  BY <1>3 DEF InsertsWhatItMoved, Origin
<1> DEFINE x == q[i].text
<1>6. q[i].start = at /\ q[i].end = at /\ x = Bytes(s, m.source)
  BY <1>5 DEF Patch
<1>7. IsPart(Clean, x, s, u, v)
  <2> HIDE DEF x, q
  <2> QED
    BY <1>1, <1>4, <1>6, BytesOfRange
<1> DEFINE d == PrefixDelta(q, i - 1)
<1>8. InsertionOffset(c, at) = at + d
  <2>1. q = c.patches /\ Len(s) \in Nat /\ at \in Int
    BY <1>1, <1>4
  <2> HIDE DEF q, at
  <2> QED
    BY <1>1, <1>6, <2>1, InsertionIs
<1>9. d \in Int
  BY <1>1, DeltaSums
<1>10. /\ 0 <= at + d /\ at + d + Len(x) <= Len(a)
       /\ \A j \in 1..Len(x) : a[at + d + j] = x[j]
  BY <1>1, <1>6 DEF TextsWritten
<1>11. Len(x) = v - u /\ \A j \in 1..(v - u) : x[j] = s[u + j]
  BY <1>7 DEF IsPart
<1>12. Moved(c, m, o) = at + d + o - u
  BY <1>8 DEF Moved
<1> HIDE DEF x, d, q, at, u, v
<1> DEFINE j == o - u + 1
<1>13. /\ j \in 1..(v - u) /\ u + j = o + 1 /\ at + d + j = Moved(c, m, o) + 1
  BY <1>2, <1>4, <1>9, <1>12
<1>14. Moved(c, m, o) \in 0..(Len(a) - 1)
  <2>1. Len(a) \in Nat /\ o \in Int
    BY <1>1
  <2> QED
    BY <1>2, <1>4, <1>9, <1>10, <1>11, <1>12, <2>1
<1> HIDE DEF j
<1>15. x[j] = s[u + j] /\ a[at + d + j] = x[j]
  BY <1>10, <1>11, <1>13
<1> QED
  BY <1>13, <1>14, <1>15

LEMMA UnmovedFollows ==
    ASSUME NEW c \in ChangeSets, Sound(c),
           NEW s, s = Origin(c), NEW a, a = Result(c, Origin(c)),
           NEW o \in 0..(Len(s) - 1), NEW x, x = MapUnmovedOffset(c, o)
    PROVE  IF Replaced(c, o) THEN x = Lost
           ELSE x \in 0..(Len(a) - 1) /\ a[x + 1] = s[o + 1]
<1> DEFINE q == c.patches
           n == Len(s)
           m == Len(q)
           h == Cardinality({i \in DOMAIN q : q[i].start <= o})
<1>1. /\ s \in Seq(Clean) /\ q \in Seq(Patches(Clean)) /\ LaidOut(q, Len(s))
      /\ Lengths(a, s, q) /\ GapsKept(a, s, q) /\ a \in Seq(Clean)
  <2>1. q = c.patches
    OBVIOUS
  <2> HIDE DEF q
  <2> QED
    BY <2>1, ResultOfOrigin
<1>2. x = IF h > 0 /\ o < q[h].end THEN Lost ELSE o + PrefixDelta(q, h)
  BY DEF MapUnmovedOffset, HowMany
<1>3. Replaced(c, o) <=> \E i \in 1..m : q[i].start <= o /\ o < q[i].end
  BY <1>1 DEF Replaced, Holds
<1>4. /\ n \in Nat /\ m \in Nat /\ Len(a) \in Nat
      /\ o \in Int /\ 0 <= o /\ o < n /\ LaidOut(q, n)
  BY <1>1
<1>5. h = Cardinality({i \in DOMAIN q : q[i].start <= o})
  OBVIOUS
<1> HIDE DEF h, q, n
<1>6. h \in 0..m /\ \A i \in 1..m : i <= h <=> q[i].start <= o
  BY <1>1, <1>4, <1>5, StartingUpTo
<1>7. \A i \in 1..m : q[i].start \in Int /\ q[i].end \in Int
  <2>1. \A i \in 1..m : q[i] \in Patches(Clean)
    BY <1>1
  <2> QED
    BY <2>1 DEF Patches
<1>8. CASE Replaced(c, o)
  <2>1. PICK i \in 1..m : q[i].start <= o /\ o < q[i].end
    BY <1>3, <1>8
  <2>2. i <= h /\ h \in 1..m /\ q[h].start <= o
    <3>1. i <= h /\ h \in Nat /\ h <= m
      BY <1>4, <1>6, <2>1
    <3>2. h \in 1..m /\ h <= h
      BY <1>4, <3>1
    <3> QED
      BY <1>6, <3>1, <3>2
  <2>3. i = h
    <3> SUFFICES ASSUME i < h PROVE FALSE
      BY <1>4, <2>2
    <3>1. q[i].end <= q[h].start
      BY <1>1, <1>4, <2>2, Apart
    <3> QED
      BY <1>4, <1>7, <2>1, <2>2, <3>1
  <2>4. h > 0 /\ o < q[h].end
    BY <1>4, <2>1, <2>2, <2>3
  <2> QED
    BY <1>2, <1>8, <2>4
<1>9. CASE ~Replaced(c, o)
  <2>1. ~(h > 0 /\ o < q[h].end)
    <3> SUFFICES ASSUME h > 0, o < q[h].end PROVE FALSE
      OBVIOUS
    <3>1. h \in 1..m /\ h <= h
      BY <1>4, <1>6
    <3>2. q[h].start <= o
      BY <1>6, <3>1
    <3> QED
      BY <1>3, <1>9, <3>1, <3>2
  <2> DEFINE d == PrefixDelta(q, h)
  <2>2. x = o + d /\ d \in Int
    BY <1>1, <1>2, <1>6, <2>1, DeltaSums
  <2>3. Cursor(q, h) <= o
    <3>1. CASE h = 0
      BY <1>4, <3>1 DEF Cursor
    <3>2. CASE h # 0
      <4>1. h \in 1..m /\ h > 0
        BY <1>4, <1>6, <3>2
      <4>2. q[h].end <= o
        BY <1>4, <1>7, <2>1, <4>1
      <4> QED
        BY <3>2, <4>2 DEF Cursor
    <3> QED
      BY <3>1, <3>2
  <2>4. o < Limit(q, h, n)
    <3>1. CASE h = m
      BY <1>4, <3>1 DEF Limit
    <3>2. CASE h # m
      <4>1. h + 1 \in 1..m /\ ~(h + 1 <= h)
        BY <1>4, <1>6, <3>2
      <4>2. ~(q[h + 1].start <= o) /\ q[h + 1].start \in Int
        BY <1>6, <1>7, <4>1
      <4> QED
        BY <1>4, <3>2, <4>2 DEF Limit
    <3> QED
      BY <3>1, <3>2
  <2>5. a[o + d + 1] = s[o + 1]
    BY <1>1, <1>4, <1>6, <2>3, <2>4 DEF GapsKept, Between, n
  <2>6. 0 <= Cursor(q, h) + d /\ Limit(q, h, n) + d <= Len(a)
    BY <1>1, <1>6 DEF Lengths, n
  <2>7. Cursor(q, h) \in Int /\ Limit(q, h, n) \in Int
    <3>1. Cursor(q, h) \in 0..n /\ Limit(q, h, n) \in 0..n
      BY <1>1, <1>4, <1>6, Cursors
    <3> QED
      BY <1>4, <3>1
  <2> HIDE DEF d
  <2>8. o + d \in 0..(Len(a) - 1)
    BY <1>4, <2>2, <2>3, <2>4, <2>6, <2>7
  <2> QED
    BY <1>9, <2>2, <2>5, <2>8
<1> QED
  BY <1>8, <1>9

LEMMA SurvivorsOfSound ==
    ASSUME IInv
    PROVE  SurvivorsFollow
<1> SUFFICES ASSUME NEW c \in Held, NEW o \in 0..(Len(Origin(c)) - 1)
             PROVE  IF Replaced(c, o) /\ Relocated(c, o) = {}
                    THEN MapOffset(c, o) = Lost
                    ELSE /\ MapOffset(c, o) \in 0..(Len(Result(c, Origin(c))) - 1)
                         /\ Result(c, Origin(c))[MapOffset(c, o) + 1] = Origin(c)[o + 1]
  BY DEF SurvivorsFollow
<1> DEFINE s == Origin(c)
           a == Result(c, Origin(c))
           x == MapOffset(c, o)
<1>1. c \in ChangeSets /\ Sound(c)
  BY DEF IInv, Held
<1>2. s = Origin(c) /\ a = Result(c, Origin(c)) /\ o \in 0..(Len(s) - 1)
  OBVIOUS
<1>3. CASE Relocated(c, o) # {}
  <2> DEFINE m == CHOOSE m \in Relocated(c, o) : TRUE
  <2>1. m \in Relocated(c, o)
    BY <1>3
  <2>2. x = Moved(c, m, o)
    BY <1>3 DEF MapOffset
  <2> HIDE DEF m, s, a, x
  <2>3. Moved(c, m, o) \in 0..(Len(a) - 1) /\ a[Moved(c, m, o) + 1] = s[o + 1]
    BY <1>1, <1>2, <2>1, MovedFollows
  <2> QED
    BY <1>3, <2>2, <2>3 DEF s, a, x
<1>4. CASE Relocated(c, o) = {}
  <2>1. x = MapUnmovedOffset(c, o)
    BY <1>4 DEF MapOffset
  <2> HIDE DEF s, a, x
  <2>2. IF Replaced(c, o) THEN x = Lost
        ELSE x \in 0..(Len(a) - 1) /\ a[x + 1] = s[o + 1]
    BY <1>1, <1>2, <2>1, UnmovedFollows
  <2> QED
    BY <1>4, <2>2 DEF s, a, x
<1> QED
  BY <1>3, <1>4

\* Every byte that a change does not replace is where MapOffset says, moved
\* with its block or not; and MapOffset says of no replaced byte that it is
\* anywhere.
THEOREM SurvivorsAreFollowed == TextsWithoutNul => (Spec => []SurvivorsFollow)
<1>1. IInv => SurvivorsFollow
  BY SurvivorsOfSound
<1> QED
  BY <1>1, Inductive, PTL

-----------------------------------------------------------------------------
\* What lies between two patches, no patch holds.
LEMMA GapNotHeld ==
    ASSUME NEW V, NEW q \in Seq(Patches(V)), NEW n \in Nat, LaidOut(q, n),
           NEW k \in 0..Len(q), NEW o \in Int, Between(q, k, n, o)
    PROVE  o \in 0..(n - 1) /\ ~\E i \in 1..Len(q) : Holds(q[i], o)
<1> DEFINE m == Len(q)
<1>1. m \in Nat /\ \A i \in 1..m : q[i].start \in Int /\ q[i].end \in Int /\ q[i].start <= q[i].end
  <2>1. \A i \in 1..m : q[i] \in Patches(V) /\ i \in DOMAIN q
    OBVIOUS
  <2> QED
    BY <2>1 DEF Patches, LaidOut, Valid
<1>2. /\ Cursor(q, k) \in 0..n /\ Limit(q, k, n) \in 0..n
      /\ Cursor(q, k) <= o /\ o < Limit(q, k, n)
  BY Cursors DEF Between
<1>3. o \in 0..(n - 1)
  BY <1>2
<1>4. ASSUME NEW i \in 1..m, i <= k PROVE q[i].end <= o
  <2>1. k \in 1..m /\ Cursor(q, k) = q[k].end
    BY <1>1, <1>4, Cursors
  <2>2. i = k \/ i < k
    BY <1>1, <1>4, <2>1
  <2>3. i < k => q[i].end <= q[k].start
    BY <2>1, Apart
  <2> QED
    BY <1>1, <1>2, <2>1, <2>2, <2>3
<1>5. ASSUME NEW i \in 1..m, ~(i <= k) PROVE o < q[i].start
  <2>1. k + 1 \in 1..m /\ k # m /\ (i = k + 1 \/ k + 1 < i)
    BY <1>1, <1>5
  <2>2. Limit(q, k, n) = q[k + 1].start
    BY <2>1 DEF Limit
  <2>3. k + 1 < i => q[k + 1].start < q[i].start
    BY <2>1, Apart
  <2> QED
    BY <1>1, <1>2, <2>1, <2>2, <2>3
<1>6. \A i \in 1..m : ~(q[i].start <= o /\ o < q[i].end)
  BY <1>1, <1>4, <1>5
<1> QED
  BY <1>3, <1>6 DEF Holds

TextBytes(q) ==
    UNION {{q[k].text[j] : j \in DOMAIN q[k].text} : k \in DOMAIN q}

LEMMA BytesOfResult ==
    ASSUME NEW c \in ChangeSets, Sound(c),
           NEW s, s = Origin(c), NEW q, q = c.patches, NEW a, a = Result(c, Origin(c))
    PROVE  {a[j] : j \in DOMAIN a} = KeptBytes(s, q) \cup TextBytes(q)
<1>1. /\ s \in Seq(Clean) /\ q \in Seq(Patches(Clean)) /\ LaidOut(q, Len(s))
      /\ a \in Seq(Clean)
      /\ Lengths(a, s, q) /\ GapsKept(a, s, q) /\ TextsWritten(a, q) /\ NothingElse(a, s, q)
  BY ResultOfOrigin
<1>2. /\ DOMAIN s = 1..Len(s) /\ DOMAIN a = 1..Len(a) /\ DOMAIN q = 1..Len(q)
      /\ Len(s) \in Nat /\ Len(a) \in Nat /\ Len(q) \in Nat
  BY <1>1
<1>3. \A k \in 1..Len(q) : /\ q[k].text \in Seq(Clean) /\ q[k].start \in Int
                          /\ DOMAIN q[k].text = 1..Len(q[k].text) /\ Len(q[k].text) \in Nat
                          /\ PrefixDelta(q, k - 1) \in Int
  <2>1. \A k \in 1..Len(q) : q[k] \in Patches(Clean)
    BY <1>1
  <2>2. \A k \in 1..Len(q) : k - 1 \in 0..Len(q)
    BY <1>2
  <2>3. \A k \in 0..Len(q) : PrefixDelta(q, k) \in Int
    BY <1>1, DeltaSums
  <2>4. \A k \in 1..Len(q) : q[k].text \in Seq(Clean) /\ q[k].start \in Int
    BY <2>1 DEF Patches
  <2> QED
    BY <2>2, <2>3, <2>4
<1>4. ASSUME NEW j \in DOMAIN a PROVE a[j] \in KeptBytes(s, q) \cup TextBytes(q)
  <2>1. InGap(j, s, q) \/ InText(j, q)
    BY <1>1, <1>2 DEF NothingElse
  <2>2. CASE InGap(j, s, q)
    <3>1. PICK k \in 0..Len(q) : \E o \in Int :
             Between(q, k, Len(s), o) /\ j = o + PrefixDelta(q, k) + 1
      BY <2>2 DEF InGap
    <3>2. PICK o \in Int : Between(q, k, Len(s), o) /\ j = o + PrefixDelta(q, k) + 1
      BY <3>1
    <3>3. a[j] = s[o + 1]
      BY <1>1, <3>2 DEF GapsKept
    <3>4. o \in 0..(Len(s) - 1) /\ ~\E i \in 1..Len(q) : Holds(q[i], o)
      BY <1>1, <1>2, <3>2, GapNotHeld
    <3> DEFINE p == o + 1
    <3>5. p \in DOMAIN s /\ p - 1 = o
      BY <1>2, <3>4
    <3> HIDE DEF p
    <3>6. s[p] \in KeptBytes(s, q)
      BY <1>2, <3>4, <3>5 DEF KeptBytes
    <3> QED
      BY <3>3, <3>6 DEF p
  <2>3. CASE InText(j, q)
    <3>1. PICK k \in 1..Len(q) : \E i \in 1..Len(q[k].text) :
             j = q[k].start + PrefixDelta(q, k - 1) + i
      BY <2>3 DEF InText
    <3>2. PICK i \in 1..Len(q[k].text) : j = q[k].start + PrefixDelta(q, k - 1) + i
      BY <3>1
    <3>3. a[j] = q[k].text[i]
      BY <1>1, <3>2 DEF TextsWritten
    <3>4. i \in DOMAIN q[k].text /\ k \in DOMAIN q
      BY <1>2, <1>3
    <3> QED
      BY <3>3, <3>4 DEF TextBytes
  <2> QED
    BY <2>1, <2>2, <2>3
<1>5. ASSUME NEW x \in KeptBytes(s, q) PROVE \E j \in DOMAIN a : a[j] = x
  <2>1. PICK p \in DOMAIN s : s[p] = x /\ ~\E k \in DOMAIN q : Holds(q[k], p - 1)
    BY DEF KeptBytes
  <2> DEFINE o == p - 1
             y == MapUnmovedOffset(c, o)
  <2>2. o \in 0..(Len(s) - 1) /\ o + 1 = p
    BY <1>2, <2>1
  <2>3. ~Replaced(c, o)
    BY <2>1 DEF Replaced
  <2>4. y = MapUnmovedOffset(c, o)
    OBVIOUS
  <2> HIDE DEF o, y
  <2>5. y \in 0..(Len(a) - 1) /\ a[y + 1] = s[o + 1]
    BY <2>2, <2>3, <2>4, UnmovedFollows
  <2>6. y + 1 \in DOMAIN a
    BY <1>2, <2>5
  <2> QED
    BY <2>1, <2>2, <2>5, <2>6
<1>6. ASSUME NEW x \in TextBytes(q) PROVE \E j \in DOMAIN a : a[j] = x
  <2>1. PICK k \in DOMAIN q : x \in {q[k].text[j] : j \in DOMAIN q[k].text}
    BY DEF TextBytes
  <2>2. PICK i \in DOMAIN q[k].text : x = q[k].text[i]
    BY <2>1
  <2>3. k \in 1..Len(q) /\ i \in 1..Len(q[k].text)
    BY <1>2, <1>3
  <2> DEFINE b == q[k].start + PrefixDelta(q, k - 1)
             l == Len(q[k].text)
  <2>4. 0 <= b /\ b + l <= Len(a) /\ a[b + i] = q[k].text[i]
    BY <1>1, <2>3 DEF TextsWritten
  <2>5. b \in Int /\ l \in Nat /\ i \in 1..l
    BY <1>3, <2>3
  <2> HIDE DEF b, l
  <2>6. b + i \in DOMAIN a
    BY <1>2, <2>4, <2>5
  <2> QED
    BY <2>2, <2>4, <2>6
<1>7. \A x : x \in {a[j] : j \in DOMAIN a} <=> x \in KeptBytes(s, q) \cup TextBytes(q)
  BY <1>4, <1>5, <1>6
<1> QED
  BY <1>7

LEMMA SaveLosesNothing ==
    ASSUME IInv, NEW i \in DOMAIN pool, Save(i)
    PROVE  LET c == pool[i]
               current == Normalize(file)
           IN /\ \A k \in DOMAIN c.patches :
                    Bytes(current, c.patches[k]) = Bytes(Origin(c), c.patches[k])
              /\ {file'[j] : j \in DOMAIN file'} =
                    KeptBytes(current, c.patches)
                      \cup UNION {{c.patches[k].text[j] : j \in DOMAIN c.patches[k].text}
                                    : k \in DOMAIN c.patches}
<1> DEFINE c == pool[i]
           s == Normalize(file)
           q == c.patches
           a == file'
<1>1. c \in ChangeSets /\ Sound(c)
  BY DEF IInv
<1>2. s = Origin(c) /\ a = Result(c, file)
  BY DEF Save, Applies, Sum, Origin
<1>3. a = Result(c, Origin(c))
  <2>1. Normalize(Origin(c)) = s
    <3> HIDE DEF c, s
    <3> QED
      BY <1>1, <1>2, OriginNormal
  <2> QED
    BY <1>2, <2>1 DEF Result
<1>4. q = c.patches
  OBVIOUS
<1> HIDE DEF c, s, q, a
<1>5. {a[j] : j \in DOMAIN a} = KeptBytes(s, q) \cup TextBytes(q)
  BY <1>1, <1>2, <1>3, <1>4, BytesOfResult
<1>6. \A k \in DOMAIN q : Bytes(s, q[k]) = Bytes(Origin(c), q[k])
  BY <1>2
<1> QED
  BY <1>5, <1>6 DEF c, s, q, a, TextBytes

\* A save replaces only what its caller has seen, and what another program
\* wrote meanwhile is never lost.
THEOREM NoUpdateIsLost == TextsWithoutNul => (Spec => NoLostUpdate)
<1>1. IInv => \A i \in DOMAIN pool : Save(i) =>
          LET c == pool[i]
              current == Normalize(file)
          IN /\ \A k \in DOMAIN c.patches :
                   Bytes(current, c.patches[k]) = Bytes(Origin(c), c.patches[k])
             /\ {file'[j] : j \in DOMAIN file'} =
                   KeptBytes(current, c.patches)
                     \cup UNION {{c.patches[k].text[j] : j \in DOMAIN c.patches[k].text}
                                   : k \in DOMAIN c.patches}
  BY SaveLosesNothing
<1> QED
  BY <1>1, Inductive, PTL DEF NoLostUpdate


-----------------------------------------------------------------------------
(***************************************************************************)
(* A text with one patch in it: what is in front of it, what it writes and *)
(* what is behind it.                                                      *)
(***************************************************************************)
Rewritten(y, s, p) ==
    /\ Len(y) = Len(s) + Delta(p)
    /\ \A o \in Int : 0 <= o /\ o < p.start => y[o + 1] = s[o + 1]
    /\ \A j \in 1..Len(p.text) : y[p.start + j] = p.text[j]
    /\ \A o \in Int : p.end <= o /\ o < Len(s) => y[o + Delta(p) + 1] = s[o + 1]

LEMMA OneRewritten ==
    ASSUME NEW V, NEW s \in Seq(V), NEW p \in Patches(V), Valid(p, Len(s)),
           NEW q, q \in Seq(Patches(V)), Len(q) = 1, q[1] = p,
           NEW y, y = Splice(s, q)
    PROVE  y \in Seq(V) /\ Rewritten(y, s, p)
<1>1. LaidOut(q, Len(s))
  <2>1. DOMAIN q = 1..1
    OBVIOUS
  <2> QED
    BY <2>1 DEF LaidOut, NeighboursDisjoint
<1>2. /\ y \in Seq(V) /\ Lengths(y, s, q) /\ GapsKept(y, s, q) /\ TextsWritten(y, q)
  BY <1>1, SpliceIs
<1>3. /\ p.start \in Int /\ p.end \in Int /\ p.text \in Seq(V) /\ Len(p.text) \in Nat
      /\ Len(s) \in Nat /\ Delta(p) \in Int
  BY DEF Patches, Delta
<1>4. PrefixDelta(q, 0) = 0 /\ PrefixDelta(q, 1) = Delta(p)
  <2>1. /\ PrefixDelta(q, 0) = 0
        /\ \A k \in 1..1 : PrefixDelta(q, k) = PrefixDelta(q, k - 1) + Delta(q[k])
    BY DeltaSums
  <2>2. PrefixDelta(q, 1) = PrefixDelta(q, 1 - 1) + Delta(q[1])
    BY <2>1
  <2> QED
    BY <1>3, <2>1, <2>2
<1>5. Len(y) = Len(s) + Delta(p)
  BY <1>2, <1>4 DEF Lengths
<1>6. /\ Cursor(q, 0) = 0 /\ Limit(q, 0, Len(s)) = p.start
      /\ Cursor(q, 1) = p.end /\ Limit(q, 1, Len(s)) = Len(s)
  BY DEF Cursor, Limit
<1>7. ASSUME NEW o \in Int, 0 <= o, o < p.start PROVE y[o + 1] = s[o + 1]
  <2>1. Between(q, 0, Len(s), o)
    BY <1>6, <1>7 DEF Between
  <2>2. y[o + PrefixDelta(q, 0) + 1] = s[o + 1]
    BY <1>2, <2>1 DEF GapsKept
  <2> QED
    BY <1>4, <2>2
<1>8. ASSUME NEW o \in Int, p.end <= o, o < Len(s) PROVE y[o + Delta(p) + 1] = s[o + 1]
  <2>1. Between(q, 1, Len(s), o)
    BY <1>6, <1>8 DEF Between
  <2>2. y[o + PrefixDelta(q, 1) + 1] = s[o + 1]
    BY <1>2, <2>1 DEF GapsKept
  <2> QED
    BY <1>4, <2>2
<1>9. ASSUME NEW j \in 1..Len(p.text) PROVE y[p.start + j] = p.text[j]
  <2>1. y[q[1].start + PrefixDelta(q, 1 - 1) + j] = q[1].text[j]
    BY <1>2, <1>9 DEF TextsWritten
  <2>2. q[1].start + PrefixDelta(q, 1 - 1) + j = p.start + j
    BY <1>3, <1>4
  <2> QED
    BY <2>1, <2>2
<1> QED
  BY <1>2, <1>5, <1>7, <1>8, <1>9 DEF Rewritten

(***************************************************************************)
(* The only patch that touches a range, and the ones in front of it.       *)
(***************************************************************************)
OnlyOne(q, r, i) == \A j \in 1..Len(q) : Touches(q[j], r) <=> j = i

LEMMA OneTouches ==
    ASSUME NEW V, NEW q \in Seq(Patches(V)), NEW n \in Nat, LaidOut(q, n),
           NEW r \in NatRange, Valid(r, n), NEW i \in 1..Len(q),
           r.start <= q[i].start, q[i].start < q[i].end, q[i].end <= r.end,
           \A j \in 1..Len(q) : Touches(q[j], r) => q[j].start = q[i].start
    PROVE  /\ OnlyOne(q, r, i)
           /\ \A j \in 1..Len(q) : j < i => q[j].start < r.start /\ q[j].end <= r.start
           /\ \A j \in 1..Len(q) : i < j => r.end <= q[j].start
<1>1. /\ Len(q) \in Nat /\ r.start \in Nat /\ r.end \in Nat
      /\ \A j \in 1..Len(q) : /\ q[j].start \in Int /\ q[j].end \in Int
                              /\ q[j].start <= q[j].end
  <2>1. \A j \in 1..Len(q) : q[j] \in Patches(V) /\ j \in DOMAIN q
    OBVIOUS
  <2>2. \A j \in 1..Len(q) : /\ q[j].start \in Int /\ q[j].end \in Int
                            /\ q[j].start <= q[j].end
    BY <2>1 DEF Patches, LaidOut, Valid
  <2> QED
    BY <2>2 DEF NatRange
<1>2. \A j \in 1..Len(q) : /\ j < i => q[j].end <= q[i].start /\ q[j].start < q[i].start
                           /\ i < j => q[i].end <= q[j].start /\ q[i].start < q[j].start
  BY Apart
<1>3. Touches(q[i], r)
  BY <1>1 DEF Touches
<1>4. ASSUME NEW j \in 1..Len(q), Touches(q[j], r) PROVE j = i
  <2>1. q[j].start = q[i].start
    BY <1>4
  <2>2. j < i \/ j = i \/ i < j
    BY <1>1
  <2> QED
    BY <1>1, <1>2, <2>1, <2>2
<1>5. ASSUME NEW j \in 1..Len(q), j < i PROVE q[j].start < r.start /\ q[j].end <= r.start
  <2>1. ~Touches(q[j], r)
    BY <1>4, <1>5
  <2>2. q[j].end <= q[i].start /\ q[j].start < q[i].start
    BY <1>2, <1>5
  <2> QED
    BY SMTT(40), <1>1, <2>1, <2>2 DEF Touches, Holds
<1>6. ASSUME NEW j \in 1..Len(q), i < j PROVE r.end <= q[j].start
  <2>1. ~Touches(q[j], r)
    BY <1>4, <1>6
  <2>2. q[i].end <= q[j].start
    BY <1>2, <1>6
  <2> QED
    BY <1>1, <2>1, <2>2 DEF Touches, Holds
<1> QED
  BY <1>3, <1>4, <1>5, <1>6 DEF OnlyOne

(***************************************************************************)
(* A range with one patch in it, in the result of all of them: moved by    *)
(* the patches in front, grown by its own, and rewritten by it.            *)
(***************************************************************************)
LEMMA RangeRewritten ==
    ASSUME NEW V, NEW s \in Seq(V), NEW q \in Seq(Patches(V)), LaidOut(q, Len(s)),
           NEW a \in Seq(V), Lengths(a, s, q), GapsKept(a, s, q), TextsWritten(a, q),
           NEW r \in NatRange, Valid(r, Len(s)), NEW i \in 1..Len(q),
           r.start <= q[i].start, q[i].end <= r.end,
           Cursor(q, i - 1) <= r.start, r.end <= Limit(q, i, Len(s)),
           NEW t \in Seq(V), IsPart(V, t, s, r.start, r.end),
           NEW p, p = [start |-> q[i].start - r.start, end |-> q[i].end - r.start,
                       text  |-> q[i].text],
           NEW y \in Seq(V), Rewritten(y, t, p),
           NEW e, e = [start |-> r.start + PrefixDelta(q, i - 1),
                       end   |-> r.end + Delta(q[i]) + PrefixDelta(q, i - 1)]
    PROVE  Valid(e, Len(a)) /\ Bytes(a, e) = y
<1> DEFINE n == Len(s)
           h == i - 1
           d == PrefixDelta(q, h)
           g == PrefixDelta(q, i)
           u == r.start
           v == r.end
           b == q[i].start
           z == q[i].end
           w == q[i].text
           l == Len(w)
           c == Cursor(q, h)
           f == Limit(q, i, n)
<1>1. /\ n \in Nat /\ Len(q) \in Nat /\ i \in Nat /\ h \in 0..Len(q) /\ i \in 0..Len(q)
      /\ Len(a) \in Nat
  OBVIOUS
<1>2. b \in Int /\ z \in Int /\ b <= z /\ 0 <= b /\ z <= n /\ w \in Seq(V) /\ l \in Nat
  <2>1. q[i] \in Patches(V) /\ i \in DOMAIN q
    OBVIOUS
  <2> QED
    BY <2>1 DEF Patches, LaidOut, Valid
<1>3. u \in Nat /\ v \in Nat /\ u <= b /\ z <= v /\ v <= n
  BY DEF NatRange, Valid
<1>4. d \in Int /\ g \in Int /\ g = d + (l - (z - b))
  <2>1. d \in Int /\ g \in Int /\ PrefixDelta(q, i) = PrefixDelta(q, i - 1) + Delta(q[i])
    BY <1>1, DeltaSums
  <2> QED
    BY <2>1 DEF Delta
<1>5. /\ c \in 0..n /\ c <= u /\ f \in 0..n /\ v <= f
      /\ Limit(q, h, n) = b /\ Cursor(q, i) = z
  <2>1. c \in 0..n /\ f \in 0..n /\ Limit(q, h, n) = b /\ Cursor(q, i) = z
    BY <1>1, Cursors
  <2> QED
    BY <2>1
<1>6. /\ 0 <= c + d /\ f + g <= Len(a)
  BY <1>1 DEF Lengths
<1>7. \A o \in Int : c <= o /\ o < b => a[o + d + 1] = s[o + 1]
  BY <1>1, <1>5 DEF GapsKept, Between
<1>8. \A o \in Int : z <= o /\ o < f => a[o + g + 1] = s[o + 1]
  BY <1>1, <1>5 DEF GapsKept, Between
<1>9. \A j \in 1..l : a[b + d + j] = w[j]
  BY DEF TextsWritten
<1>10. e.start = u + d /\ e.end = v + (l - (z - b)) + d
  BY DEF Delta
<1>11. p.start = b - u /\ p.end = z - u /\ p.text = w /\ Delta(p) = l - (z - b)
  <2>1. p.start = b - u /\ p.end = z - u /\ p.text = w
    OBVIOUS
  <2> HIDE DEF b, z, u, w
  <2>2. Delta(p) = l - ((z - u) - (b - u))
    BY <2>1 DEF Delta
  <2> HIDE DEF l
  <2> QED
    BY <1>2, <1>3, <2>1, <2>2
<1>12. Len(t) = v - u /\ \A j \in 1..(v - u) : t[j] = s[u + j]
  BY DEF IsPart
<1> HIDE DEF n, h, d, g, u, v, b, z, w, c, f
<1>13. /\ Len(y) = (v - u) + (l - (z - b))
       /\ \A o \in Int : 0 <= o /\ o < b - u => y[o + 1] = t[o + 1]
       /\ \A j \in 1..l : y[(b - u) + j] = w[j]
       /\ \A o \in Int : z - u <= o /\ o < v - u => y[o + (l - (z - b)) + 1] = t[o + 1]
  BY <1>11, <1>12 DEF Rewritten
<1> HIDE DEF l
<1>14. e.end = v + g
  BY <1>2, <1>3, <1>4, <1>10
<1>15. /\ 0 <= u + d /\ u + d <= v + g /\ v + g <= Len(a)
       /\ Len(y) = (v + g) - (u + d)
  BY <1>1, <1>2, <1>3, <1>4, <1>5, <1>6, <1>13
<1>16. Valid(e, Len(a))
  BY <1>10, <1>14, <1>15 DEF Valid
<1> DEFINE x == Bytes(a, e)
           A == u + d
           B == v + g
<1>17. x = SubSeq(a, A + 1, B) /\ A \in Nat /\ B \in Nat /\ A <= B /\ B <= Len(a)
  <2>1. A \in Nat /\ B \in Nat /\ A <= B /\ B <= Len(a)
    BY SMTT(40), <1>3, <1>4, <1>15
  <2>2. e.start = A /\ e.end = B
    BY <1>10, <1>14
  <2> HIDE DEF A, B
  <2> QED
    BY <2>1, <2>2 DEF Bytes
<1> HIDE DEF x, A, B
<1>18. IsPart(V, x, a, A, B)
  BY <1>17, SubSeqIs
<1>19. x \in Seq(V) /\ Len(x) = Len(y) /\ Len(x) \in Nat /\ Len(x) = B - A
  BY <1>15, <1>17, <1>18 DEF IsPart, A, B
<1>20. ASSUME NEW j \in 1..Len(x) PROVE x[j] = y[j]
  <2>1. j \in Int /\ 1 <= j /\ j <= (v - u) + (l - (z - b)) /\ x[j] = a[u + d + j]
    <3>1. j \in 1..(B - A) /\ x[j] = a[A + j]
      BY <1>18, <1>19 DEF IsPart
    <3> QED
      BY <1>13, <1>19, <3>1 DEF A
  <2>2. CASE j <= b - u
    <3> DEFINE o == u + j - 1
    <3>1. /\ o \in Int /\ c <= o /\ o < b /\ o + d + 1 = u + d + j /\ o + 1 = u + j
          /\ j - 1 \in Int /\ 0 <= j - 1 /\ j - 1 < b - u /\ (j - 1) + 1 = j
          /\ j \in 1..(v - u)
      BY <1>2, <1>3, <1>4, <1>5, <2>1, <2>2
    <3> HIDE DEF o
    <3>2. a[o + d + 1] = s[o + 1]
      BY <1>7, <3>1
    <3>3. y[(j - 1) + 1] = t[(j - 1) + 1] /\ t[j] = s[u + j]
      BY <1>12, <1>13, <3>1
    <3> QED
      BY <2>1, <3>1, <3>2, <3>3
  <2>3. CASE j > b - u /\ j <= (b - u) + l
    <3> DEFINE m == j - (b - u)
    <3>1. m \in 1..l /\ b + d + m = u + d + j /\ (b - u) + m = j
      BY <1>2, <1>3, <1>4, <2>1, <2>3
    <3> HIDE DEF m
    <3>2. a[b + d + m] = w[m] /\ y[(b - u) + m] = w[m]
      BY <1>9, <1>13, <3>1
    <3> QED
      BY <2>1, <3>1, <3>2
  <2>4. CASE j > (b - u) + l
    <3> DEFINE m == j - 1 - (l - (z - b))
               o == u + m
    <3>1. /\ m \in Int /\ z - u <= m /\ m < v - u /\ m + (l - (z - b)) + 1 = j
          /\ o \in Int /\ z <= o /\ o < f /\ o + g + 1 = u + d + j
          /\ m + 1 \in 1..(v - u) /\ o + 1 = u + (m + 1)
      BY <1>2, <1>3, <1>4, <1>5, <2>1, <2>4
    <3> HIDE DEF m, o
    <3>2. a[o + g + 1] = s[o + 1]
      BY <1>8, <3>1
    <3>3. y[m + (l - (z - b)) + 1] = t[m + 1] /\ t[m + 1] = s[u + (m + 1)]
      BY <1>12, <1>13, <3>1
    <3> QED
      BY <2>1, <3>1, <3>2, <3>3
  <2> QED
    BY <1>2, <1>3, <2>1, <2>2, <2>3, <2>4
<1>21. x = y
  BY <1>19, <1>20, SameSequences
<1> QED
  BY <1>16, <1>21 DEF x

(***************************************************************************)
(* A rewritten node: the one patch that touches it is its own.             *)
(***************************************************************************)
LEMMA RewrittenOfSound ==
    ASSUME NEW c \in ChangeSets, Sound(c), IndexBuilt(c), NEW k \in c.correspondences,
           NEW a, a = Result(c, Origin(c)),
           NEW e, e = MapTargetRange(c, k.id, k.source)
    PROVE  Valid(e, Len(a)) /\ Bytes(a, e) = RewrittenText(c, k)
<1> DEFINE s == Origin(c)
           q == c.patches
           r == k.source
           n == Len(s)
<1>1. /\ s \in Seq(Clean) /\ q \in Seq(Patches(Clean)) /\ LaidOut(q, n)
      /\ a \in Seq(Clean)
      /\ Lengths(a, s, q) /\ GapsKept(a, s, q) /\ TextsWritten(a, q)
  <2>1. s = Origin(c) /\ q = c.patches
    OBVIOUS
  <2> HIDE DEF s, q
  <2> QED
    BY <2>1, ResultOfOrigin
<1>2. k \in Rewrites /\ TellsOfAPatch(c, k) /\ r \in NatRange
  BY DEF ChangeSets, Sound, Rewrites
<1>3. /\ k.id = r /\ Valid(r, n)
      /\ \E i \in 1..Len(q) :
            /\ k.owned = {[start |-> q[i].start, end |-> q[i].end]}
            /\ r.start <= q[i].start /\ q[i].start < q[i].end /\ q[i].end <= r.end
            /\ k.candidate = [start |-> r.start, end |-> r.end + Delta(q[i])]
  BY <1>2 DEF TellsOfAPatch, Origin
<1>4. PICK i \in 1..Len(q) :
            /\ k.owned = {[start |-> q[i].start, end |-> q[i].end]}
            /\ r.start <= q[i].start /\ q[i].start < q[i].end /\ q[i].end <= r.end
            /\ k.candidate = [start |-> r.start, end |-> r.end + Delta(q[i])]
  BY <1>3
<1>5. /\ \A l \in c.correspondences : k.id = l.id => k = l
      /\ \A j \in 1..Len(q) : Touches(q[j], r) => q[j].start = q[i].start
  <2>1. CorrespondencesBuilt(c)
    BY DEF IndexBuilt
  <2>2. \A j \in DOMAIN q : Touches(q[j], r) => [start |-> q[j].start, end |-> q[j].end] \in k.owned
    BY <2>1 DEF CorrespondencesBuilt, OwnedOnly
  <2>3. \A j \in 1..Len(q) : Touches(q[j], r) => q[j].start = q[i].start
    <3> SUFFICES ASSUME NEW j \in 1..Len(q), Touches(q[j], r) PROVE q[j].start = q[i].start
      OBVIOUS
    <3>1. j \in DOMAIN q
      BY <1>1
    <3>2. [start |-> q[j].start, end |-> q[j].end] = [start |-> q[i].start, end |-> q[i].end]
      BY <1>4, <2>2, <3>1
    <3> QED
      BY <3>2
  <2> QED
    BY <2>1, <2>3 DEF CorrespondencesBuilt
<1> DEFINE h == i - 1
           D == PrefixDelta(q, h)
           H == Cardinality({j \in DOMAIN q : q[j].start < r.start})
           T == Cardinality({j \in DOMAIN q : Touches(q[j], r)})
           B == Cardinality({j \in DOMAIN q : q[j].start < r.end /\ ~Touches(q[j], r)})
           t == Bytes(s, r)
           within == [j \in 1..T |-> [start |-> q[B + j].start - r.start,
                                      end   |-> q[B + j].end - r.start,
                                      text  |-> q[B + j].text]]
           y == Splice(t, within)
<1>6. y = RewrittenText(c, k)
  BY DEF RewrittenText, HowMany
<1>7. e = Shifted(k.candidate, PrefixDelta(q, H))
  <2>1. {l \in c.correspondences : l.id = k.id} = {k}
    BY <1>5
  <2>2. e = ComposedRange(c, CHOOSE l \in {k} : TRUE)
    BY <2>1 DEF MapTargetRange
  <2>3. (CHOOSE l \in {k} : TRUE) = k
    OBVIOUS
  <2>4. e = ComposedRange(c, k)
    BY <2>2, <2>3
  <2> QED
    BY <2>4 DEF ComposedRange, HowMany
<1>8. H = Cardinality({j \in DOMAIN q : q[j].start < r.start}) /\ t = Bytes(s, r) /\ y = Splice(t, within)
  OBVIOUS
<1>9. /\ T = Cardinality({j \in DOMAIN q : Touches(q[j], r)})
      /\ B = Cardinality({j \in DOMAIN q : q[j].start < r.end /\ ~Touches(q[j], r)})
  OBVIOUS
<1>10. \A j \in 1..T : within[j] = [start |-> q[B + j].start - r.start,
                                    end   |-> q[B + j].end - r.start,
                                    text  |-> q[B + j].text]
  OBVIOUS
<1>10a. DOMAIN within = 1..T
  OBVIOUS
<1>11. /\ n \in Nat /\ Len(q) \in Nat /\ DOMAIN q = 1..Len(q) /\ r.start \in Nat /\ r.end \in Nat
       /\ r.start <= r.end /\ r.end <= n
       /\ \A j \in 1..Len(q) : q[j].start \in Int /\ q[j].end \in Int
  <2>1. \A j \in 1..Len(q) : q[j] \in Patches(Clean)
    BY <1>1
  <2>2. \A j \in 1..Len(q) : q[j].start \in Int /\ q[j].end \in Int
    BY <2>1 DEF Patches
  <2>3. n \in Nat /\ Len(q) \in Nat /\ DOMAIN q = 1..Len(q)
    BY <1>1
  <2> HIDE DEF n, q, r
  <2> QED
    BY <1>2, <1>3, <2>2, <2>3 DEF NatRange, Valid
<1> HIDE DEF y, within, t, B, T, H, s, q, n
<1>12. /\ OnlyOne(q, r, i)
       /\ \A j \in 1..Len(q) : j < i => q[j].start < r.start /\ q[j].end <= r.start
       /\ \A j \in 1..Len(q) : i < j => r.end <= q[j].start
  BY <1>1, <1>2, <1>3, <1>4, <1>5, <1>11, OneTouches
<1>13. H = h
  <2>1. H \in 0..Len(q) /\ \A j \in 1..Len(q) : j <= H <=> q[j].start < r.start
    <3> DEFINE u == r.start
    <3>1. H = Cardinality({j \in DOMAIN q : q[j].start < u}) /\ u \in Int
      BY <1>8, <1>11
    <3> HIDE DEF u
    <3>2. H \in 0..Len(q) /\ \A j \in 1..Len(q) : j <= H <=> q[j].start < u
      BY <1>1, <1>11, <3>1, StartingBefore
    <3> QED
      BY <3>2 DEF u
  <2>2. H \in Nat /\ ~(i <= H)
    BY <1>4, <1>11, <2>1
  <2>3. CASE i > 1
    <3>1. h \in 1..Len(q) /\ h < i
      BY <1>11, <2>3
    <3>2. h <= H
      BY <1>12, <2>1, <3>1
    <3> QED
      BY <2>2, <3>1, <3>2
  <2> QED
    BY <2>2, <2>3
<1>14. T = 1
  <2>1. {j \in DOMAIN q : Touches(q[j], r)} = {i}
    BY <1>11, <1>12 DEF OnlyOne
  <2> QED
    BY <1>9, <2>1, FS_Singleton
<1>15. B = h
  <2>1. {j \in DOMAIN q : q[j].start < r.end /\ ~Touches(q[j], r)} = 1..h
    <3>1. ASSUME NEW j \in 1..Len(q)
          PROVE  (q[j].start < r.end /\ ~Touches(q[j], r)) <=> j \in 1..h
      <4>1. Touches(q[j], r) <=> j = i
        BY <1>12 DEF OnlyOne
      <4>2. j < i => q[j].start < r.end
        BY <1>11, <1>12
      <4>3. i < j => ~(q[j].start < r.end)
        BY <1>11, <1>12
      <4>4. j \in Int /\ i \in Int /\ 1 <= j
        BY <1>11
      <4> QED
        BY <4>1, <4>2, <4>3, <4>4
    <3>2. 1..h \subseteq 1..Len(q)
      BY <1>11
    <3> QED
      BY <1>11, <3>1, <3>2
  <2>2. h \in Nat
    BY <1>11
  <2>3. Cardinality(1..h) = h
    <3> HIDE DEF h
    <3>1. Cardinality(1..h) = IF 1 > h THEN 0 ELSE h - 1 + 1
      BY <2>2, FS_Interval
    <3> QED
      BY <2>2, <3>1
  <2> QED
    BY <1>9, <2>1, <2>3
<1> DEFINE p == [start |-> q[i].start - r.start, end |-> q[i].end - r.start, text |-> q[i].text]
<1>16. within \in Seq(Patches(Clean)) /\ Len(within) = 1 /\ within[1] = p
  <2>1. B + 1 = i
    BY <1>11, <1>15
  <2>2. within[1] = p
    BY <1>10, <1>14, <2>1
  <2>3. p \in Patches(Clean)
    <3>1. q[i] \in Patches(Clean)
      BY <1>1
    <3> QED
      BY <1>11, <3>1 DEF Patches
  <2> HIDE DEF p
  <2>4. within = [j \in 1..1 |-> p]
    BY <1>10, <1>10a, <1>14, <2>2 DEF within
  <2> QED
    BY <2>3, <2>4
<1>17. IsPart(Clean, t, s, r.start, r.end) /\ t \in Seq(Clean)
  <2>1. IsPart(Clean, t, s, r.start, r.end)
    BY <1>1, <1>2, <1>3, <1>8, BytesOfRange DEF n
  <2> QED
    BY <2>1 DEF IsPart
<1>18. y \in Seq(Clean) /\ Rewritten(y, t, p)
  <2>1. p \in Patches(Clean) /\ Valid(p, Len(t))
    <3>1. q[i] \in Patches(Clean) /\ Len(t) = r.end - r.start
      BY <1>1, <1>17 DEF IsPart
    <3>2. p.start = q[i].start - r.start /\ p.end = q[i].end - r.start
      OBVIOUS
    <3>3. p \in Patches(Clean)
      BY <1>11, <3>1 DEF Patches
    <3> HIDE DEF p
    <3> QED
      BY <1>4, <1>11, <3>1, <3>2, <3>3 DEF Valid
  <2> HIDE DEF p
  <2> QED
    BY <1>8, <1>16, <1>17, <2>1, OneRewritten
<1>19. Cursor(q, i - 1) <= r.start /\ r.end <= Limit(q, i, n)
  <2>1. Cursor(q, i - 1) <= r.start
    <3>1. CASE i = 1
      BY <1>11, <3>1 DEF Cursor
    <3>2. CASE i # 1
      <4>1. h \in 1..Len(q) /\ h < i /\ h # 0
        BY <1>11, <3>2
      <4> QED
        BY <1>12, <4>1 DEF Cursor
    <3> QED
      BY <3>1, <3>2
  <2>2. r.end <= Limit(q, i, n)
    <3>1. CASE i = Len(q)
      BY <1>11, <3>1 DEF Limit
    <3>2. CASE i # Len(q)
      <4> DEFINE m == Len(q)
                 j == i + 1
      <4>1. m \in Nat /\ i \in 1..m /\ i # m
        BY <1>11, <3>2
      <4> HIDE DEF m
      <4>2. j \in 1..m /\ i < j
        BY <4>1
      <4> QED
        BY <1>12, <3>2, <4>2 DEF Limit, m
    <3> QED
      BY <3>1, <3>2
  <2> QED
    BY <2>1, <2>2
<1>20. e = [start |-> r.start + PrefixDelta(q, i - 1),
            end   |-> r.end + Delta(q[i]) + PrefixDelta(q, i - 1)]
  BY <1>4, <1>7, <1>13 DEF Shifted
<1>21. Valid(e, Len(a)) /\ Bytes(a, e) = y
  <2>1. p = [start |-> q[i].start - r.start, end |-> q[i].end - r.start, text |-> q[i].text]
    OBVIOUS
  <2> HIDE DEF p, h, r
  <2> QED
    BY <1>1, <1>2, <1>3, <1>4, <1>17, <1>18, <1>19, <1>20, <2>1, RangeRewritten DEF n
<1> QED
  BY <1>6, <1>21

LEMMA RewrittenOfHeld ==
    ASSUME IInv
    PROVE  RewrittenFollow
<1> SUFFICES ASSUME NEW c \in Held, IndexBuilt(c), NEW k \in c.correspondences
             PROVE  LET e == MapTargetRange(c, k.id, k.source) IN
                    /\ Valid(e, Len(Result(c, Origin(c))))
                    /\ Bytes(Result(c, Origin(c)), e) = RewrittenText(c, k)
  BY DEF RewrittenFollow
<1>1. c \in ChangeSets /\ Sound(c)
  BY DEF IInv, Held
<1> QED
  BY <1>1, RewrittenOfSound

\* A heading that was renamed or moved to another level is expected exactly
\* where its new text is, in every change whose index the code builds.
THEOREM RewrittenAreFollowed == TextsWithoutNul => (Spec => []RewrittenFollow)
<1>1. IInv => RewrittenFollow
  BY RewrittenOfHeld
<1> QED
  BY <1>1, Inductive, PTL

-----------------------------------------------------------------------------
(***************************************************************************)
(* The patches of two changes together, in order: each is one of the first *)
(* or of the second, never of both.                                        *)
(***************************************************************************)
Among(m, u) == \A i \in 1..Len(u) : \E k \in 1..Len(m) : m[k] = u[i]
OneOf(p, u) == \E i \in 1..Len(u) : p = u[i]

IsMerge(m, u, v) ==
    /\ Len(m) = Len(u) + Len(v)
    /\ \A k \in 1..Len(m) : OneOf(m[k], u) \/ OneOf(m[k], v)
    /\ Among(m, u) /\ Among(m, v)
    /\ \A i \in 1..Len(u) : \A j \in 1..Len(v) : u[i] # v[j]

Merged(V, m, u, v, n) ==
    /\ m \in Seq(Patches(V)) /\ u \in Seq(Patches(V)) /\ v \in Seq(Patches(V))
    /\ LaidOut(m, n) /\ LaidOut(u, n) /\ LaidOut(v, n)
    /\ IsMerge(m, u, v)

LEMMA MergeSwapped ==
    ASSUME NEW V, NEW m, NEW u, NEW v, NEW n, Merged(V, m, u, v, n)
    PROVE  Merged(V, m, v, u, n)
<1>1. Len(u) + Len(v) = Len(v) + Len(u)
  <2>1. Len(u) \in Nat /\ Len(v) \in Nat
    BY DEF Merged
  <2> QED
    BY <2>1
<1> QED
  BY <1>1 DEF IsMerge, Merged

LEMMA OneBehindAnother ==
    ASSUME NEW V, NEW q \in Seq(Patches(V)), NEW n \in Nat, LaidOut(q, n)
    PROVE  DistinctUpTo(q, Len(q))
<1> SUFFICES ASSUME NEW i \in 1..Len(q), NEW j \in 1..Len(q), q[i] = q[j], i < j
             PROVE  FALSE
  <2>1. \A i, j \in 1..Len(q) : i < j \/ i = j \/ j < i
    OBVIOUS
  <2> QED
    BY <2>1 DEF DistinctUpTo
<1>1. q[i].start < q[j].start
  BY Apart
<1>2. q[i].start \in Int
  <2>1. q[i] \in Patches(V)
    OBVIOUS
  <2> QED
    BY <2>1 DEF Patches
<1> QED
  BY <1>1, <1>2

LEMMA MergeIs ==
    ASSUME NEW V, NEW u \in Seq(Patches(V)), NEW v \in Seq(Patches(V)), NEW n \in Nat,
           NEW m, m = InOrder(u \o v), LaidOut(m, n)
    PROVE  m \in Seq(Patches(V)) /\ IsMerge(m, u, v)
<1> DEFINE w == u \o v
           a == Len(u)
           b == Len(v)
           W == Patches(V)
<1>1. /\ w \in Seq(W) /\ a \in Nat /\ b \in Nat /\ Len(w) = a + b
      /\ \A i \in 1..a : w[i] = u[i]
      /\ \A i \in 1..b : w[a + i] = v[i]
  <2>1. IsConcat(W, w, u, v)
    <3>1. u \in Seq(W) /\ v \in Seq(W) /\ w = u \o v
      OBVIOUS
    <3> HIDE DEF w, W
    <3> QED
      BY <3>1, ConcatOf
  <2> HIDE DEF w, W
  <2> QED
    BY <2>1 DEF IsConcat
<1>2. IsInOrder(V, m, w)
  <2>1. m = InOrder(w)
    OBVIOUS
  <2> HIDE DEF w
  <2> QED
    BY <1>1, <2>1, InOrderIs
<1>3. m \in Seq(Patches(V)) /\ Len(m) = a + b /\ HoldsFirst(m, w, a + b)
  BY <1>1, <1>2 DEF IsInOrder
<1>4. DistinctUpTo(m, a + b)
  <2>1. DistinctUpTo(m, Len(m))
    BY <1>3, OneBehindAnother
  <2> QED
    BY <1>3, <2>1
<1> HIDE DEF w, a, b, W
<1>5. /\ \A j \in 1..(a + b) : \E i \in 1..(a + b) : w[i] = m[j]
      /\ \A i \in 1..(a + b) : \E j \in 1..(a + b) : m[j] = w[i]
  BY <1>3 DEF HoldsFirst
<1>6. DistinctUpTo(w, a + b)
  <2>1. a + b \in Nat /\ Covers(w, m, a + b)
    BY <1>1, <1>5 DEF Covers
  <2> DEFINE c == a + b
  <2>2. c \in Nat /\ Covers(w, m, c) /\ DistinctUpTo(m, c)
    BY <1>4, <2>1
  <2> HIDE DEF c
  <2>3. DistinctUpTo(w, c)
    BY <2>2, NoRepetition
  <2> QED
    BY <2>3 DEF c
<1>7. \A i \in 1..a : i \in 1..(a + b)
  BY <1>1
<1>8. \A j \in 1..b : a + j \in 1..(a + b)
  BY <1>1
<1>9. \A i \in 1..a : \E k \in 1..(a + b) : m[k] = u[i]
  <2> SUFFICES ASSUME NEW i \in 1..a PROVE \E k \in 1..(a + b) : m[k] = u[i]
    OBVIOUS
  <2>1. w[i] = u[i] /\ i \in 1..(a + b)
    BY <1>1, <1>7
  <2>2. PICK k \in 1..(a + b) : m[k] = w[i]
    BY <1>5, <2>1
  <2> QED
    BY <2>1, <2>2
<1>10. \A j \in 1..b : \E k \in 1..(a + b) : m[k] = v[j]
  <2> SUFFICES ASSUME NEW j \in 1..b PROVE \E k \in 1..(a + b) : m[k] = v[j]
    OBVIOUS
  <2> DEFINE i == a + j
  <2>1. w[i] = v[j] /\ i \in 1..(a + b)
    BY <1>1, <1>8
  <2> HIDE DEF i
  <2>2. PICK k \in 1..(a + b) : m[k] = w[i]
    BY <1>5, <2>1
  <2> QED
    BY <2>1, <2>2
<1>11. ASSUME NEW k \in 1..(a + b)
       PROVE  (\E i \in 1..a : m[k] = u[i]) \/ (\E j \in 1..b : m[k] = v[j])
  <2>1. PICK i \in 1..(a + b) : w[i] = m[k]
    BY <1>5
  <2>2. CASE i <= a
    <3>1. i \in 1..a
      BY <1>1, <2>2
    <3> QED
      BY <1>1, <2>1, <3>1
  <2>3. CASE ~(i <= a)
    <3> DEFINE j == i - a
    <3>1. j \in 1..b /\ a + j = i
      BY <1>1, <2>3
    <3> HIDE DEF j
    <3> QED
      BY <1>1, <2>1, <3>1
  <2> QED
    BY <2>2, <2>3
<1>12. ASSUME NEW i \in 1..a, NEW j \in 1..b PROVE u[i] # v[j]
  <2>1. w[i] = u[i] /\ w[a + j] = v[j] /\ i # a + j
    BY <1>1
  <2> QED
    BY <1>6, <1>7, <1>8, <2>1 DEF DistinctUpTo
<1> QED
  BY <1>3, <1>9, <1>10, <1>11, <1>12 DEF IsMerge, Among, OneOf, a, b

(***************************************************************************)
(* The first k of the merged patches are the first of each, and add to the *)
(* length of the text what these add.                                      *)
(***************************************************************************)
FirstOnes(m, k, u, i) ==
    \A l \in 1..Len(u) : l <= i <=> \E x \in 1..k : m[x] = u[l]

Halves(m, u, v, k, i, j) ==
    /\ i \in 0..Len(u) /\ j \in 0..Len(v) /\ k = i + j
    /\ FirstOnes(m, k, u, i) /\ FirstOnes(m, k, v, j)
    /\ PrefixDelta(m, k) = PrefixDelta(u, i) + PrefixDelta(v, j)

LEMMA NextHalves ==
    ASSUME NEW V, NEW m, NEW u, NEW v, NEW n \in Nat, Merged(V, m, u, v, n),
           NEW k \in Nat, NEW h, h = k + 1, h \in 1..Len(m),
           NEW i, NEW j, Halves(m, u, v, k, i, j),
           NEW l \in 1..Len(u), m[h] = u[l]
    PROVE  l = i + 1 /\ Halves(m, u, v, h, l, j)
<1>0. /\ m \in Seq(Patches(V)) /\ u \in Seq(Patches(V)) /\ v \in Seq(Patches(V))
      /\ LaidOut(m, n) /\ LaidOut(u, n) /\ IsMerge(m, u, v)
  BY DEF Merged
<1>1. /\ Len(m) \in Nat /\ Len(u) \in Nat /\ Len(v) \in Nat
      /\ i \in 0..Len(u) /\ j \in 0..Len(v) /\ k = i + j
      /\ FirstOnes(m, k, u, i) /\ FirstOnes(m, k, v, j)
      /\ PrefixDelta(m, k) = PrefixDelta(u, i) + PrefixDelta(v, j)
  BY <1>0 DEF Halves
<1>2. /\ \A x, y \in 1..Len(m) : x < y => m[x].start < m[y].start
      /\ \A x, y \in 1..Len(u) : x < y => u[x].start < u[y].start
  BY <1>0, Apart
<1>3. DistinctUpTo(m, Len(m)) /\ DistinctUpTo(u, Len(u))
  BY <1>0, OneBehindAnother
<1>4. \A x \in 1..Len(u) : u[x].start \in Int
  <2>1. \A x \in 1..Len(u) : u[x] \in Patches(V)
    BY <1>0
  <2> QED
    BY <2>1 DEF Patches
<1>5. ~(l <= i)
  <2> SUFFICES ASSUME l <= i PROVE FALSE
    OBVIOUS
  <2>1. PICK x \in 1..k : m[x] = u[l]
    BY <1>1 DEF FirstOnes
  <2>2. x \in 1..Len(m) /\ x # h
    BY <1>1
  <2> QED
    BY <1>3, <2>1, <2>2 DEF DistinctUpTo
<1>6. l = i + 1
  <2> SUFFICES ASSUME l # i + 1 PROVE FALSE
    OBVIOUS
  <2> DEFINE g == i + 1
  <2>1. g \in 1..Len(u) /\ g < l /\ ~(g <= i)
    BY <1>1, <1>5
  <2> HIDE DEF g
  <2>2. u[g].start < u[l].start
    BY <1>2, <2>1
  <2>3. PICK y \in 1..Len(m) : m[y] = u[g]
    BY <1>0, <2>1 DEF IsMerge, Among
  <2>4. ~(y \in 1..k)
    BY <1>1, <2>1, <2>3 DEF FirstOnes
  <2>5. y # h
    BY <1>4, <2>1, <2>2, <2>3
  <2>6. h < y
    BY <1>1, <2>4, <2>5
  <2>7. m[h].start < m[y].start
    BY <1>2, <2>6
  <2> QED
    BY <1>4, <2>1, <2>2, <2>3, <2>7
<1>7. FirstOnes(m, h, u, l)
  <2> SUFFICES ASSUME NEW g \in 1..Len(u)
               PROVE  g <= l <=> \E x \in 1..h : m[x] = u[g]
    BY DEF FirstOnes
  <2>1. g <= l <=> g <= i \/ g = l
    BY <1>1, <1>6
  <2>2. g <= i <=> \E x \in 1..k : m[x] = u[g]
    BY <1>1 DEF FirstOnes
  <2>3. g = l <=> m[h] = u[g]
    BY <1>3 DEF DistinctUpTo
  <2>4. \A x : x \in 1..h <=> x \in 1..k \/ x = h
    OBVIOUS
  <2> QED
    BY <2>1, <2>2, <2>3, <2>4
<1>8. FirstOnes(m, h, v, j)
  <2> SUFFICES ASSUME NEW g \in 1..Len(v)
               PROVE  g <= j <=> \E x \in 1..h : m[x] = v[g]
    BY DEF FirstOnes
  <2>1. g <= j <=> \E x \in 1..k : m[x] = v[g]
    BY <1>1 DEF FirstOnes
  <2>2. m[h] # v[g]
    BY <1>0 DEF IsMerge
  <2>3. \A x : x \in 1..h <=> x \in 1..k \/ x = h
    OBVIOUS
  <2> QED
    BY <2>1, <2>2, <2>3
<1>9. PrefixDelta(m, h) = PrefixDelta(u, l) + PrefixDelta(v, j)
  <2>1. /\ PrefixDelta(m, h) = PrefixDelta(m, h - 1) + Delta(m[h])
        /\ PrefixDelta(u, l) = PrefixDelta(u, l - 1) + Delta(u[l])
    BY <1>0, DeltaSums
  <2>2. h - 1 = k /\ l - 1 = i
    BY <1>1, <1>6
  <2>3. PrefixDelta(u, i) \in Int /\ PrefixDelta(v, j) \in Int
    BY <1>0, <1>1, DeltaSums
  <2>4. Delta(u[l]) \in Int
    <3> DEFINE p == u[l]
    <3>1. p \in Patches(V)
      BY <1>0
    <3> HIDE DEF p
    <3>2. p.start \in Int /\ p.end \in Int /\ Len(p.text) \in Int
      BY <3>1 DEF Patches
    <3>3. Delta(p) \in Int
      BY <3>2 DEF Delta
    <3> QED
      BY <3>3 DEF p
  <2> QED
    BY <1>1, <2>1, <2>2, <2>3, <2>4
<1>10. l \in 0..Len(u) /\ h = l + j
  BY <1>1, <1>6
<1> QED
  BY <1>1, <1>6, <1>7, <1>8, <1>9, <1>10 DEF Halves

LEMMA HalvesSwapped ==
    ASSUME NEW V, NEW m, NEW u, NEW v, NEW n, Merged(V, m, u, v, n),
           NEW k, NEW i, NEW j, Halves(m, u, v, k, i, j)
    PROVE  Halves(m, v, u, k, j, i)
<1>1. u \in Seq(Patches(V)) /\ v \in Seq(Patches(V))
  BY DEF Merged
<1>2. Len(u) \in Nat /\ Len(v) \in Nat
  BY <1>1
<1>3. /\ i \in 0..Len(u) /\ j \in 0..Len(v) /\ k = i + j
      /\ FirstOnes(m, k, u, i) /\ FirstOnes(m, k, v, j)
      /\ PrefixDelta(m, k) = PrefixDelta(u, i) + PrefixDelta(v, j)
  BY DEF Halves
<1>4. PrefixDelta(u, i) \in Int /\ PrefixDelta(v, j) \in Int
  BY <1>1, <1>3, DeltaSums
<1>5. k = j + i /\ PrefixDelta(m, k) = PrefixDelta(v, j) + PrefixDelta(u, i)
  BY <1>2, <1>3, <1>4
<1> QED
  BY <1>3, <1>5 DEF Halves

LEMMA HalvesExist ==
    ASSUME NEW V, NEW m, NEW u, NEW v, NEW n \in Nat, Merged(V, m, u, v, n)
    PROVE  \A k \in 0..Len(m) : \E i, j : Halves(m, u, v, k, i, j)
<1> DEFINE X == {k \in Nat : k \in 0..Len(m) => \E i, j : Halves(m, u, v, k, i, j)}
<1>1. /\ m \in Seq(Patches(V)) /\ u \in Seq(Patches(V)) /\ v \in Seq(Patches(V))
      /\ IsMerge(m, u, v)
  BY DEF Merged
<1>2. Len(m) \in Nat /\ Len(u) \in Nat /\ Len(v) \in Nat
  BY <1>1
<1>3. 0 \in X
  <2>1. PrefixDelta(m, 0) = 0 /\ PrefixDelta(u, 0) = 0 /\ PrefixDelta(v, 0) = 0
    BY <1>1, DeltaSums
  <2>2. FirstOnes(m, 0, u, 0) /\ FirstOnes(m, 0, v, 0)
    BY <1>2 DEF FirstOnes
  <2>3. Halves(m, u, v, 0, 0, 0)
    BY <1>2, <2>1, <2>2 DEF Halves
  <2> QED
    BY <2>3
<1>4. ASSUME NEW k \in Nat, k \in X PROVE k + 1 \in X
  <2> DEFINE h == k + 1
  <2> SUFFICES ASSUME h \in 0..Len(m) PROVE \E i, j : Halves(m, u, v, h, i, j)
    OBVIOUS
  <2>1. h \in 1..Len(m) /\ k \in 0..Len(m) /\ h = k + 1
    BY <1>2
  <2>2. PICK i, j : Halves(m, u, v, k, i, j)
    BY <1>4, <2>1
  <2> HIDE DEF h
  <2>3. CASE OneOf(m[h], u)
    <3>1. PICK l \in 1..Len(u) : m[h] = u[l]
      BY <2>3 DEF OneOf
    <3>2. Halves(m, u, v, h, l, j)
      BY <2>1, <2>2, <3>1, NextHalves
    <3> QED
      BY <3>2
  <2>4. CASE OneOf(m[h], v)
    <3>1. PICK l \in 1..Len(v) : m[h] = v[l]
      BY <2>4 DEF OneOf
    <3>2. Merged(V, m, v, u, n) /\ Halves(m, v, u, k, j, i)
      BY <2>2, MergeSwapped, HalvesSwapped, Zenon
    <3>3. Halves(m, v, u, h, l, i)
      BY <2>1, <3>1, <3>2, NextHalves
    <3>4. Halves(m, u, v, h, i, l)
      BY <3>2, <3>3, HalvesSwapped, Zenon
    <3> QED
      BY <3>4
  <2> QED
    BY <1>1, <2>1, <2>3, <2>4 DEF IsMerge
<1>5. Nat \subseteq X
  <2> HIDE DEF X
  <2> QED
    BY <1>3, <1>4, NatSetInduction
<1> QED
  BY <1>2, <1>5

(***************************************************************************)
(* A gap of the merged patches lies in a gap of each, and so does a patch  *)
(* of the other one.                                                       *)
(***************************************************************************)
LEMMA GapOfHalf ==
    ASSUME NEW V, NEW m, NEW u, NEW v, NEW n \in Nat, Merged(V, m, u, v, n),
           NEW k \in 0..Len(m), NEW i, NEW j, Halves(m, u, v, k, i, j)
    PROVE  Cursor(u, i) <= Cursor(m, k) /\ Limit(m, k, n) <= Limit(u, i, n)
<1>1. /\ m \in Seq(Patches(V)) /\ u \in Seq(Patches(V)) /\ LaidOut(m, n) /\ LaidOut(u, n)
      /\ IsMerge(m, u, v)
  BY DEF Merged
<1>2. /\ Len(m) \in Nat /\ Len(u) \in Nat /\ i \in 0..Len(u) /\ FirstOnes(m, k, u, i)
  BY <1>1 DEF Halves
<1>3. \A x \in 0..Len(m) : Cursor(m, x) \in 0..n /\ Limit(m, x, n) \in 0..n
  BY <1>1, Cursors
<1>4. \A x \in 1..Len(m) : /\ m[x].start \in 0..n /\ m[x].end \in 0..n
                           /\ m[x].start <= m[x].end
  <2>1. \A x \in 1..Len(m) : m[x] \in Patches(V) /\ x \in DOMAIN m
    BY <1>1
  <2> QED
    BY <1>1, <2>1 DEF Patches, LaidOut, Valid
<1>5. \A x, y \in 1..Len(m) : x < y => m[x].end <= m[y].start /\ m[x].start < m[y].start
  BY <1>1, Apart
<1>6. Cursor(u, i) <= Cursor(m, k)
  <2>1. CASE i = 0
    BY <1>3, <2>1 DEF Cursor
  <2>2. CASE i # 0
    <3>1. i \in 1..Len(u) /\ i <= i
      BY <1>2, <2>2
    <3>2. PICK x \in 1..k : m[x] = u[i]
      BY <1>2, <3>1 DEF FirstOnes
    <3>3. k \in 1..Len(m) /\ x \in 1..Len(m) /\ (x = k \/ x < k) /\ k # 0
      BY <1>2
    <3>4. Cursor(u, i) = m[x].end /\ Cursor(m, k) = m[k].end
      BY <2>2, <3>2, <3>3 DEF Cursor
    <3>5. m[x].end <= m[k].end
      <4>1. CASE x = k
        BY <1>4, <3>3, <4>1
      <4>2. CASE x < k
        <5>1. m[x].end <= m[k].start
          BY <1>5, <3>3, <4>2
        <5> QED
          BY <1>4, <3>3, <5>1
      <4> QED
        BY <3>3, <4>1, <4>2
    <3> QED
      BY <3>4, <3>5
  <2> QED
    BY <2>1, <2>2
<1>7. Limit(m, k, n) <= Limit(u, i, n)
  <2>1. CASE i = Len(u)
    BY <1>3, <2>1 DEF Limit
  <2>2. CASE i # Len(u)
    <3> DEFINE g == i + 1
    <3>1. g \in 1..Len(u) /\ ~(g <= i)
      BY <1>2, <2>2
    <3>2. Limit(u, i, n) = u[g].start
      BY <2>2 DEF Limit
    <3> HIDE DEF g
    <3>3. PICK x \in 1..Len(m) : m[x] = u[g]
      BY <1>1, <3>1 DEF IsMerge, Among
    <3>4. ~(x \in 1..k)
      BY <1>2, <3>1, <3>3 DEF FirstOnes
    <3> DEFINE h == k + 1
    <3>5. k # Len(m) /\ h \in 1..Len(m) /\ (x = h \/ h < x)
      BY <1>2, <3>4
    <3>6. Limit(m, k, n) = m[h].start
      BY <3>5 DEF Limit
    <3> HIDE DEF h
    <3>7. m[h].start <= m[x].start
      <4>1. CASE x = h
        BY <1>4, <3>5, <4>1
      <4>2. CASE h < x
        <5>1. m[h].start < m[x].start
          BY <1>5, <3>5, <4>2
        <5> QED
          BY <1>4, <3>5, <5>1
      <4> QED
        BY <3>5, <4>1, <4>2
    <3> QED
      BY <3>2, <3>3, <3>6, <3>7
  <2> QED
    BY <2>1, <2>2
<1> QED
  BY <1>6, <1>7

-----------------------------------------------------------------------------
(***************************************************************************)
(* A patch of the one between the patches of the other, i of them in front *)
(* of it.                                                                  *)
(***************************************************************************)
Hole(u, n, p, i) ==
    /\ i \in 0..Len(u)
    /\ Cursor(u, i) <= p.start /\ p.end <= Limit(u, i, n)
    /\ \A x \in 1..Len(u) : x <= i => u[x].start < p.start
    /\ \A x \in 1..Len(u) : i < x => p.start < u[x].start

LEMMA HoleOfOther ==
    ASSUME NEW V, NEW m, NEW u, NEW v, NEW n \in Nat, Merged(V, m, u, v, n),
           NEW k \in Nat, NEW h, h = k + 1, h \in 1..Len(m),
           NEW i, NEW j, Halves(m, u, v, k, i, j),
           NEW l \in 1..Len(v), m[h] = v[l]
    PROVE  /\ l = j + 1 /\ Halves(m, u, v, h, i, l)
           /\ Hole(u, n, v[l], i)
<1>1. /\ m \in Seq(Patches(V)) /\ u \in Seq(Patches(V)) /\ v \in Seq(Patches(V))
      /\ LaidOut(m, n) /\ IsMerge(m, u, v)
  BY DEF Merged
<1>2. Merged(V, m, v, u, n) /\ Halves(m, v, u, k, j, i)
  BY MergeSwapped, HalvesSwapped, Zenon
<1>3. l = j + 1 /\ Halves(m, v, u, h, l, i)
  BY <1>2, NextHalves
<1>4. Halves(m, u, v, h, i, l)
  BY <1>2, <1>3, HalvesSwapped, Zenon
<1>5. /\ Len(m) \in Nat /\ Len(u) \in Nat /\ i \in 0..Len(u)
      /\ FirstOnes(m, k, u, i) /\ FirstOnes(m, h, u, i)
      /\ k \in 0..Len(m) /\ h \in 0..Len(m) /\ h - 1 = k
  BY <1>1, <1>4 DEF Halves
<1>6. Cursor(u, i) <= Cursor(m, k) /\ Limit(m, h, n) <= Limit(u, i, n)
  BY <1>4, <1>5, GapOfHalf
<1>7. /\ Cursor(m, k) <= m[h].start /\ Cursor(m, h) = m[h].end /\ Cursor(m, h) <= Limit(m, h, n)
  <2>1. Cursor(m, h - 1) <= m[h].start /\ Cursor(m, h) = m[h].end /\ Cursor(m, h) <= Limit(m, h, n)
    BY <1>1, <1>5, Cursors
  <2> QED
    BY <1>5, <2>1
<1>8. /\ Cursor(u, i) \in Int /\ Cursor(m, k) \in Int /\ m[h].start \in Int /\ m[h].end \in Int
      /\ Limit(m, h, n) \in Int /\ Limit(u, i, n) \in Int
  <2>1. m[h] \in Patches(V)
    BY <1>1
  <2>2. m[h].start \in Int /\ m[h].end \in Int
    BY <2>1 DEF Patches
  <2>3. Cursor(m, k) \in 0..n /\ Limit(m, h, n) \in 0..n
    BY <1>1, <1>5, Cursors
  <2>4. Cursor(u, i) \in 0..n /\ Limit(u, i, n) \in 0..n
    BY <1>5, Cursors DEF Merged
  <2> QED
    BY <2>2, <2>3, <2>4
<1>9. Cursor(u, i) <= v[l].start /\ v[l].end <= Limit(u, i, n)
  BY <1>6, <1>7, <1>8
<1>10. \A x, y \in 1..Len(m) : x < y => m[x].start < m[y].start
  BY <1>1, Apart
<1>11. ASSUME NEW x \in 1..Len(u), x <= i PROVE u[x].start < v[l].start
  <2>1. PICK y \in 1..k : m[y] = u[x]
    BY <1>5, <1>11 DEF FirstOnes
  <2>2. y \in 1..Len(m) /\ y < h
    BY <1>5
  <2> QED
    BY <1>10, <2>1, <2>2
<1>12. ASSUME NEW x \in 1..Len(u), i < x PROVE v[l].start < u[x].start
  <2>1. PICK y \in 1..Len(m) : m[y] = u[x]
    BY <1>1 DEF IsMerge, Among
  <2>2. ~(x <= i)
    BY <1>5, <1>12
  <2>3. ~(y \in 1..h)
    BY <1>5, <2>1, <2>2 DEF FirstOnes
  <2>4. h < y
    BY <1>5, <2>3
  <2> QED
    BY <1>10, <2>1, <2>4
<1> QED
  BY <1>3, <1>4, <1>5, <1>9, <1>11, <1>12 DEF Hole

LEMMA HolesExist ==
    ASSUME NEW V, NEW m, NEW u, NEW v, NEW n \in Nat, Merged(V, m, u, v, n)
    PROVE  \A l \in 1..Len(v) : \E i : Hole(u, n, v[l], i)
<1> SUFFICES ASSUME NEW l \in 1..Len(v) PROVE \E i : Hole(u, n, v[l], i)
  OBVIOUS
<1>1. m \in Seq(Patches(V)) /\ IsMerge(m, u, v)
  BY DEF Merged
<1>2. PICK h \in 1..Len(m) : m[h] = v[l]
  BY <1>1 DEF IsMerge, Among
<1> DEFINE k == h - 1
<1>3. k \in Nat /\ k \in 0..Len(m) /\ h = k + 1
  BY <1>1
<1> HIDE DEF k
<1>4. PICK i, j : Halves(m, u, v, k, i, j)
  BY <1>3, HalvesExist
<1>5. Hole(u, n, v[l], i)
  BY <1>2, <1>3, <1>4, HoleOfOther
<1> QED
  BY <1>5

\* rangeAfterPatches moves it by the patches in front of it.
LEMMA RangeInHole ==
    ASSUME NEW V, NEW u \in Seq(Patches(V)), NEW n \in Nat, LaidOut(u, n),
           NEW p \in Patches(V), Valid(p, n), NEW i, Hole(u, n, p, i)
    PROVE  RangeAfterPatches(p, u) = Shifted(p, PrefixDelta(u, i))
<1> DEFINE e == p.end
           h == Cardinality({x \in DOMAIN u : u[x].start < e})
<1>1. h = Cardinality({x \in DOMAIN u : u[x].start < e})
  OBVIOUS
<1>2. RangeAfterPatches(p, u) = IF \A x \in 1..h : u[x].end <= p.start
                                THEN Shifted(p, PrefixDelta(u, h)) ELSE NoRange
  BY DEF RangeAfterPatches, HowMany
<1>3. p.start \in Int /\ e \in Int /\ p.start <= e
  BY DEF Patches, Valid
<1> HIDE DEF h
<1>4. e = p.end
  OBVIOUS
<1> HIDE DEF e
<1>5. h \in 0..Len(u) /\ \A x \in 1..Len(u) : x <= h <=> u[x].start < e
  BY <1>1, <1>3, StartingBefore
<1>6. /\ Len(u) \in Nat /\ i \in 0..Len(u) /\ Cursor(u, i) <= p.start /\ e <= Limit(u, i, n)
      /\ \A x \in 1..Len(u) : x <= i => u[x].start < p.start
  BY <1>4 DEF Hole
<1>7. \A x \in 1..Len(u) : u[x].start \in Int /\ u[x].end \in Int /\ u[x].start <= u[x].end
  <2>1. \A x \in 1..Len(u) : u[x] \in Patches(V) /\ x \in DOMAIN u
    OBVIOUS
  <2> QED
    BY <2>1 DEF Patches, LaidOut, Valid
<1>8. i <= h
  <2>1. CASE i = 0
    BY <1>5, <2>1
  <2>2. CASE i # 0
    <3>1. i \in 1..Len(u) /\ i <= i
      BY <1>6, <2>2
    <3>2. u[i].start < p.start
      BY <1>6, <3>1
    <3>3. u[i].start < e
      BY <1>3, <1>7, <3>1, <3>2
    <3> QED
      BY <1>5, <3>1, <3>3
  <2> QED
    BY <2>1, <2>2
<1>9. h <= i
  <2> SUFFICES ASSUME i < h PROVE FALSE
    BY <1>5, <1>6
  <2> DEFINE g == i + 1
  <2>1. g \in 1..Len(u) /\ g <= h /\ i # Len(u)
    BY <1>5, <1>6
  <2>2. Limit(u, i, n) = u[g].start
    BY <2>1 DEF Limit
  <2> HIDE DEF g
  <2>3. u[g].start < e
    BY <1>5, <2>1
  <2> QED
    BY <1>3, <1>6, <1>7, <2>1, <2>2, <2>3
<1>10. h = i
  BY <1>5, <1>6, <1>8, <1>9
<1>11. ASSUME NEW x \in 1..i PROVE u[x].end <= p.start
  <2>1. x \in 1..Len(u) /\ i \in 1..Len(u) /\ i # 0 /\ (x = i \/ x < i)
    BY <1>6
  <2>2. u[i].end <= p.start
    BY <1>6, <2>1 DEF Cursor
  <2>3. CASE x = i
    BY <2>2, <2>3
  <2>4. CASE x < i
    <3>1. u[x].end <= u[i].start
      BY <2>1, <2>4, Apart
    <3> QED
      BY <1>3, <1>7, <2>1, <2>2, <3>1
  <2> QED
    BY <2>1, <2>3, <2>4
<1> QED
  BY <1>2, <1>10, <1>11

(***************************************************************************)
(* What is before a patch stays before what is behind it.                  *)
(***************************************************************************)
LEMMA ShiftsKeepOrder ==
    ASSUME NEW V, NEW q \in Seq(Patches(V)), NEW n \in Nat, LaidOut(q, n)
    PROVE  \A i, j \in 0..Len(q) : i < j =>
              Limit(q, i, n) + PrefixDelta(q, i) <= Cursor(q, j) + PrefixDelta(q, j)
<1> SUFFICES ASSUME NEW i \in 0..Len(q)
             PROVE  \A j \in 0..Len(q) : i < j =>
              Limit(q, i, n) + PrefixDelta(q, i) <= Cursor(q, j) + PrefixDelta(q, j)
  OBVIOUS
<1> DEFINE c(k) == Cursor(q, k)
           l(k) == Limit(q, k, n)
           d(k) == PrefixDelta(q, k)
           m == Len(q)
<1>1. m \in Nat
  OBVIOUS
<1>2. \A k \in 0..m : c(k) \in Int /\ l(k) \in Int /\ d(k) \in Int /\ c(k) <= l(k)
  BY Cursors, DeltaSums
<1>3. ASSUME NEW k \in 0..m, NEW g \in 1..m, g = k + 1 PROVE l(k) + d(k) <= c(g) + d(g)
  <2> DEFINE p == q[g]
  <2>1. p \in Patches(V)
    OBVIOUS
  <2>2. c(g) = p.end /\ Limit(q, g - 1, n) = p.start /\ PrefixDelta(q, g) = PrefixDelta(q, g - 1) + Delta(p)
    BY Cursors, DeltaSums
  <2>3. g - 1 = k
    BY <1>3
  <2>4. c(g) = p.end /\ l(k) = p.start /\ d(g) = d(k) + Delta(p)
    BY <2>2, <2>3
  <2>5. d(k) \in Int
    BY <1>2
  <2> HIDE DEF p, c, l, d
  <2>6. p.start \in Int /\ p.end \in Int /\ Len(p.text) \in Nat
    BY <2>1 DEF Patches
  <2>7. Delta(p) = Len(p.text) - (p.end - p.start)
    BY DEF Delta
  <2> DEFINE t == Len(p.text)
             x == p.start
             y == p.end
  <2> HIDE DEF t, x, y
  <2>8. d(g) = d(k) + (t - (y - x)) /\ c(g) = y /\ l(k) = x /\ t \in Nat /\ x \in Int /\ y \in Int
    BY <2>4, <2>6, <2>7 DEF t, x, y
  <2> QED
    BY <2>5, <2>8
<1> HIDE DEF c, l, d, m
<1> DEFINE X == {j \in Nat : j \in 0..m /\ i < j => l(i) + d(i) <= c(j) + d(j)}
<1>4. i \in 0..m
  BY DEF m
<1>5. 0 \in X
  BY <1>1, <1>4
<1>6. ASSUME NEW j \in Nat, j \in X PROVE j + 1 \in X
  <2> DEFINE g == j + 1
  <2> SUFFICES ASSUME g \in 0..m, i < g PROVE l(i) + d(i) <= c(g) + d(g)
    OBVIOUS
  <2>1. g \in 1..m /\ g \in 0..m /\ j \in 0..m /\ g = j + 1 /\ (i = j \/ i < j)
    BY <1>1, <1>4
  <2> HIDE DEF g
  <2>2. l(j) + d(j) <= c(g) + d(g)
    BY <1>3, <2>1
  <2>3. CASE i = j
    BY <2>2, <2>3
  <2>4. CASE i < j
    <3>1. l(i) + d(i) <= c(j) + d(j)
      BY <1>6, <2>1, <2>4
    <3>2. /\ c(j) <= l(j) /\ c(j) \in Int /\ l(j) \in Int /\ d(j) \in Int /\ c(g) \in Int
          /\ d(g) \in Int /\ l(i) \in Int /\ d(i) \in Int
      BY <1>2, <1>4, <2>1
    <3> QED
      BY <2>2, <3>1, <3>2
  <2> QED
    BY <2>1, <2>3, <2>4
<1>7. Nat \subseteq X
  <2> HIDE DEF X
  <2> QED
    BY <1>5, <1>6, NatSetInduction
<1>8. \A j \in 0..m : i < j => l(i) + d(i) <= c(j) + d(j)
  BY <1>1, <1>7
<1> QED
  BY <1>8 DEF c, l, d, m

-----------------------------------------------------------------------------
(***************************************************************************)
(* The patches v on what the patches u make of the text: each moved by     *)
(* those of u in front of it.                                              *)
(***************************************************************************)
MovedBy(p, r, d) == /\ r.start = p.start + d /\ r.end = p.end + d
                    /\ r.text = p.text

RebasedOn(V, r, u, v, n, at) ==
    /\ r \in Seq(Patches(V)) /\ Len(r) = Len(v)
    /\ \A l \in 1..Len(v) : /\ Hole(u, n, v[l], at[l])
                            /\ MovedBy(v[l], r[l], PrefixDelta(u, at[l]))

LEMMA RebasedIs ==
    ASSUME NEW V, NEW m, NEW u, NEW v, NEW n \in Nat, Merged(V, m, u, v, n),
           NEW r, r = [l \in DOMAIN v |->
                         LET x == RangeAfterPatches(v[l], u)
                         IN [start |-> x.start, end |-> x.end, text |-> v[l].text]]
    PROVE  \E at : RebasedOn(V, r, u, v, n, at)
<1> DEFINE b == Len(v)
           at == [l \in 1..b |-> CHOOSE i : Hole(u, n, v[l], i)]
<1>1. /\ u \in Seq(Patches(V)) /\ v \in Seq(Patches(V)) /\ LaidOut(u, n) /\ LaidOut(v, n)
  BY DEF Merged
<1>2. b \in Nat /\ DOMAIN v = 1..b /\ \A l \in 1..b : v[l] \in Patches(V) /\ Valid(v[l], n)
  BY <1>1 DEF LaidOut
<1>3. \A l \in 1..b : Hole(u, n, v[l], at[l])
  BY HolesExist
<1>4. \A l \in 1..b : r[l] = [start |-> RangeAfterPatches(v[l], u).start,
                              end   |-> RangeAfterPatches(v[l], u).end,
                              text  |-> v[l].text]
  BY <1>2
<1>5. DOMAIN r = 1..b /\ r = [l \in 1..b |-> r[l]]
  BY <1>2
<1> HIDE DEF b, at
<1>6. ASSUME NEW l \in 1..b
      PROVE  /\ MovedBy(v[l], r[l], PrefixDelta(u, at[l]))
             /\ r[l] \in Patches(V)
  <2> DEFINE p == v[l]
             i == at[l]
             d == PrefixDelta(u, i)
             y == r[l]
  <2>1. p \in Patches(V) /\ Valid(p, n) /\ Hole(u, n, p, i)
    BY <1>2, <1>3
  <2>2. y = [start |-> RangeAfterPatches(p, u).start, end |-> RangeAfterPatches(p, u).end,
             text  |-> p.text]
    BY <1>4
  <2>3. d \in Int
    <3>1. i \in 0..Len(u)
      BY <2>1 DEF Hole
    <3> QED
      BY <1>1, <3>1, DeltaSums
  <2> HIDE DEF p, i, y
  <2>4. RangeAfterPatches(p, u) = Shifted(p, PrefixDelta(u, i))
    BY <1>1, <2>1, RangeInHole
  <2> HIDE DEF d
  <2>5. y = [start |-> p.start + d, end |-> p.end + d, text |-> p.text]
    BY <2>2, <2>4 DEF Shifted, d
  <2>6. p.start \in Int /\ p.end \in Int /\ p.text \in Seq(V)
    BY <2>1 DEF Patches
  <2>7. y \in Patches(V)
    BY <2>3, <2>5, <2>6 DEF Patches
  <2>8. MovedBy(p, y, d)
    BY <2>5 DEF MovedBy
  <2> QED
    BY <2>7, <2>8 DEF p, i, d, y
<1>7. r \in Seq(Patches(V)) /\ Len(r) = b
  <2> DEFINE W == Patches(V)
  <2>1. \A l \in 1..b : r[l] \in W
    BY <1>6
  <2> HIDE DEF W
  <2>2. r \in [1..b -> W]
    BY <1>5, <2>1
  <2>3. r \in Seq(W) /\ Len(r) = b
    BY <1>2, <2>2
  <2> QED
    BY <2>3 DEF W
<1>8. RebasedOn(V, r, u, v, n, at)
  BY <1>3, <1>6, <1>7 DEF RebasedOn, b
<1> QED
  BY <1>8

\* They add as much as they did.
LEMMA RebasedDeltas ==
    ASSUME NEW V, NEW r, NEW u, NEW v \in Seq(Patches(V)), NEW n, NEW at,
           RebasedOn(V, r, u, v, n, at),
           \A l \in 1..Len(v) : PrefixDelta(u, at[l]) \in Int
    PROVE  \A l \in 0..Len(v) : PrefixDelta(r, l) = PrefixDelta(v, l)
<1> DEFINE X == {l \in Nat : l \in 0..Len(v) => PrefixDelta(r, l) = PrefixDelta(v, l)}
<1>1. r \in Seq(Patches(V)) /\ Len(r) = Len(v) /\ Len(v) \in Nat
  BY DEF RebasedOn
<1>2. ASSUME NEW l \in 1..Len(v) PROVE Delta(r[l]) = Delta(v[l])
  <2> DEFINE p == v[l]
             y == r[l]
             d == PrefixDelta(u, at[l])
  <2>1. p \in Patches(V) /\ MovedBy(p, y, d) /\ d \in Int
    BY DEF RebasedOn
  <2> HIDE DEF p, y, d
  <2>2. /\ p.start \in Int /\ p.end \in Int /\ Len(p.text) \in Nat
        /\ y.start = p.start + d /\ y.end = p.end + d /\ Len(y.text) = Len(p.text)
    BY <2>1 DEF Patches, MovedBy
  <2>3. y.end - y.start = p.end - p.start
    BY <2>1, <2>2
  <2>4. Delta(y) = Delta(p)
    BY <2>2, <2>3 DEF Delta
  <2> QED
    BY <2>4 DEF p, y
<1>3. 0 \in X
  <2>1. PrefixDelta(r, 0) = 0 /\ PrefixDelta(v, 0) = 0
    BY <1>1, DeltaSums
  <2> QED
    BY <2>1
<1>4. ASSUME NEW l \in Nat, l \in X PROVE l + 1 \in X
  <2> DEFINE g == l + 1
  <2> SUFFICES ASSUME g \in 0..Len(v) PROVE PrefixDelta(r, g) = PrefixDelta(v, g)
    OBVIOUS
  <2>1. g \in 1..Len(v) /\ g \in 1..Len(r) /\ l \in 0..Len(v) /\ g - 1 = l
    BY <1>1
  <2> HIDE DEF g
  <2>2. PrefixDelta(r, g) = PrefixDelta(r, g - 1) + Delta(r[g])
    BY <1>1, <2>1, DeltaSums
  <2>3. PrefixDelta(v, g) = PrefixDelta(v, g - 1) + Delta(v[g])
    BY <2>1, DeltaSums
  <2>4. PrefixDelta(r, l) = PrefixDelta(v, l)
    BY <1>4, <2>1
  <2> QED
    BY <1>2, <2>1, <2>2, <2>3, <2>4
<1>5. Nat \subseteq X
  <2> HIDE DEF X
  <2> QED
    BY <1>3, <1>4, NatSetInduction
<1> QED
  BY <1>1, <1>5

\* What is in front of the earlier is in front of the later.
LEMMA HolesInOrder ==
    ASSUME NEW V, NEW u \in Seq(Patches(V)), NEW n, NEW p \in Patches(V), NEW o \in Patches(V),
           p.start < o.start, NEW i, NEW j, Hole(u, n, p, i), Hole(u, n, o, j)
    PROVE  i <= j
<1> SUFFICES ASSUME j < i PROVE FALSE
  <2>1. i \in 0..Len(u) /\ j \in 0..Len(u)
    BY DEF Hole
  <2> QED
    BY <2>1
<1>1. i \in 1..Len(u) /\ i <= i /\ j < i
  BY DEF Hole
<1>2. u[i].start < p.start /\ o.start < u[i].start
  BY <1>1 DEF Hole
<1>3. u[i].start \in Int /\ p.start \in Int /\ o.start \in Int
  <2>1. u[i] \in Patches(V)
    BY <1>1
  <2> QED
    BY <2>1 DEF Patches
<1> QED
  BY <1>2, <1>3

\* They lie in the new text one behind the other.
LEMMA RebasedLaidOut ==
    ASSUME NEW V, NEW m, NEW u, NEW v, NEW s \in Seq(V), Merged(V, m, u, v, Len(s)),
           NEW r, NEW at, RebasedOn(V, r, u, v, Len(s), at),
           NEW b \in Seq(V), Lengths(b, s, u)
    PROVE  LaidOut(r, Len(b))
<1> DEFINE n == Len(s)
<1>1. /\ u \in Seq(Patches(V)) /\ v \in Seq(Patches(V)) /\ LaidOut(u, n) /\ LaidOut(v, n)
      /\ n \in Nat
  BY DEF Merged
<1>2. /\ r \in Seq(Patches(V)) /\ Len(r) = Len(v) /\ Len(v) \in Nat
      /\ \A l \in 1..Len(v) : Hole(u, n, v[l], at[l])
      /\ \A l \in 1..Len(v) : MovedBy(v[l], r[l], PrefixDelta(u, at[l]))
  BY <1>1 DEF RebasedOn
<1>3. \A k \in 0..Len(u) : /\ PrefixDelta(u, k) \in Int
                           /\ Cursor(u, k) \in Int /\ Limit(u, k, n) \in Int
                           /\ 0 <= Cursor(u, k) + PrefixDelta(u, k)
                           /\ Limit(u, k, n) + PrefixDelta(u, k) <= Len(b)
  <2>1. \A k \in 0..Len(u) : PrefixDelta(u, k) \in Int
    BY <1>1, DeltaSums
  <2>2. \A k \in 0..Len(u) : Cursor(u, k) \in 0..n /\ Limit(u, k, n) \in 0..n
    BY <1>1, Cursors
  <2>3. \A k \in 0..Len(u) : /\ 0 <= Cursor(u, k) + PrefixDelta(u, k)
                             /\ Limit(u, k, n) + PrefixDelta(u, k) <= Len(b)
    BY DEF Lengths
  <2> QED
    BY <1>1, <2>1, <2>2, <2>3
<1>4. Len(b) \in Nat
  OBVIOUS
<1> HIDE DEF n
<1>5. \A l \in 1..Len(v) : /\ v[l] \in Patches(V) /\ v[l].start \in Int /\ v[l].end \in Int
                           /\ v[l].start <= v[l].end
  <2>1. \A l \in 1..Len(v) : v[l] \in Patches(V) /\ l \in DOMAIN v
    BY <1>1
  <2> QED
    BY <1>1, <2>1 DEF Patches, LaidOut, Valid
<1>6. ASSUME NEW l \in 1..Len(v) PROVE Valid(r[l], Len(b))
  <2> DEFINE i == at[l]
             d == PrefixDelta(u, i)
  <2>1. /\ i \in 0..Len(u) /\ Cursor(u, i) <= v[l].start /\ v[l].end <= Limit(u, i, n)
    BY <1>2 DEF Hole
  <2>2. r[l].start = v[l].start + d /\ r[l].end = v[l].end + d
    BY <1>2 DEF MovedBy
  <2>3. /\ d \in Int /\ Cursor(u, i) \in Int /\ Limit(u, i, n) \in Int
        /\ 0 <= Cursor(u, i) + d /\ Limit(u, i, n) + d <= Len(b)
    BY <1>3, <2>1
  <2> DEFINE c == Cursor(u, i)
             f == Limit(u, i, n)
             x == v[l].start
             y == v[l].end
             z == Len(b)
  <2>4. /\ c <= x /\ y <= f /\ x <= y /\ 0 <= c + d /\ f + d <= z
        /\ c \in Int /\ f \in Int /\ d \in Int /\ x \in Int /\ y \in Int /\ z \in Nat
    BY <1>4, <1>5, <2>1, <2>3
  <2> HIDE DEF c, f, d, x, y, z, i
  <2>5. 0 <= x + d /\ x + d <= y + d /\ y + d <= z
    BY <2>4
  <2> QED
    BY <2>2, <2>5 DEF Valid, x, y, z
<1>7. ASSUME NEW g \in 2..Len(r) PROVE ~Conflicts(r[g - 1], r[g])
  <2> DEFINE h == g - 1
  <2>1. g \in 1..Len(v) /\ h \in 1..Len(v) /\ h < g
    BY <1>2
  <2> HIDE DEF h
  <2> DEFINE i == at[h]
             j == at[g]
             d == PrefixDelta(u, i)
             e == PrefixDelta(u, j)
  <2>2. v[h].end <= v[g].start /\ v[h].start < v[g].start
    BY <1>1, <2>1, Apart
  <2>3. Hole(u, n, v[h], i) /\ Hole(u, n, v[g], j)
    BY <1>2, <2>1
  <2>4. /\ r[h].start = v[h].start + d /\ r[h].end = v[h].end + d
        /\ r[g].start = v[g].start + e
    BY <1>2, <2>1 DEF MovedBy
  <2> HIDE DEF i, j
  <2>5. i <= j
    BY <1>1, <1>5, <2>1, <2>2, <2>3, HolesInOrder
  <2>6. i \in 0..Len(u) /\ j \in 0..Len(u) /\ v[h].end <= Limit(u, i, n) /\ Cursor(u, j) <= v[g].start
    BY <2>3 DEF Hole
  <2>7. d \in Int /\ e \in Int /\ Limit(u, i, n) \in Int /\ Cursor(u, j) \in Int
    BY <1>3, <2>6
  <2>8. i < j => v[h].start < Limit(u, i, n)
    <3> SUFFICES ASSUME i < j PROVE v[h].start < Limit(u, i, n)
      OBVIOUS
    <3> DEFINE k == i + 1
    <3>1. k \in 1..Len(u) /\ i < k /\ i # Len(u)
      BY <2>6
    <3>2. Limit(u, i, n) = u[k].start
      BY <3>1 DEF Limit
    <3> HIDE DEF k
    <3> QED
      BY <2>3, <3>1, <3>2 DEF Hole
  <2>9. i < j => Limit(u, i, n) + d <= Cursor(u, j) + e
    BY <1>1, <2>6, ShiftsKeepOrder
  <2> DEFINE a == v[h].start
             w == v[h].end
             z == v[g].start
             f == Limit(u, i, n)
             c == Cursor(u, j)
  <2>10. /\ a \in Int /\ w \in Int /\ z \in Int /\ f \in Int /\ c \in Int /\ d \in Int /\ e \in Int
         /\ w <= z /\ a < z /\ w <= f /\ c <= z
         /\ i < j => a < f /\ f + d <= c + e
    BY <1>5, <2>1, <2>2, <2>6, <2>7, <2>8, <2>9
  <2>11. i = j => d = e
    OBVIOUS
  <2>12. i < j \/ i = j
    BY <2>5, <2>6
  <2> HIDE DEF a, w, z, f, c, d, e
  <2>13. a + d < z + e /\ w + d <= z + e
    <3>1. CASE i = j
      BY <2>10, <2>11, <3>1
    <3>2. CASE i < j
      BY <2>10, <3>2
    <3> QED
      BY <2>12, <3>1, <3>2
  <2>14. r[h].start < r[g].start /\ r[h].end <= r[g].start
    BY <2>4, <2>13 DEF a, w, z
  <2>15. r[h].start \in Int /\ r[g].start \in Int /\ r[h].end \in Int
    <3>1. r[h].start = a + d /\ r[h].end = w + d /\ r[g].start = z + e
      BY <2>4 DEF a, w, z
    <3>2. a + d \in Int /\ w + d \in Int /\ z + e \in Int
      BY <2>10
    <3> QED
      BY <3>1, <3>2
  <2>16. ~Conflicts(r[h], r[g])
    BY <2>14, <2>15 DEF Conflicts
  <2> QED
    BY <2>16 DEF h
<1>8. DOMAIN r = 1..Len(v)
  BY <1>2
<1> QED
  BY <1>6, <1>7, <1>8 DEF LaidOut, NeighboursDisjoint

-----------------------------------------------------------------------------
\* What is in front of a place stays there, and so does what is behind it.
LEMMA HoleBefore ==
    ASSUME NEW V, NEW u \in Seq(Patches(V)), NEW n \in Nat, LaidOut(u, n),
           NEW p \in Patches(V), NEW x, Hole(u, n, p, x),
           NEW i \in 0..Len(u), p.start < Limit(u, i, n),
           NEW y \in Int, Cursor(u, i) <= y, p.end <= y
    PROVE  p.end + PrefixDelta(u, x) <= y + PrefixDelta(u, i)
<1>1. /\ x \in 0..Len(u) /\ p.end <= Limit(u, x, n)
      /\ \A k \in 1..Len(u) : k <= x => u[k].start < p.start
  BY DEF Hole
<1>2. Len(u) \in Nat /\ p.start \in Int /\ p.end \in Int
  BY DEF Patches
<1>3. x <= i
  <2> SUFFICES ASSUME i < x PROVE FALSE
    BY <1>1
  <2> DEFINE k == i + 1
  <2>1. k \in 1..Len(u) /\ k <= x /\ i # Len(u)
    BY <1>1
  <2>2. Limit(u, i, n) = u[k].start
    BY <2>1 DEF Limit
  <2> HIDE DEF k
  <2>3. u[k].start \in Int
    <3>1. u[k] \in Patches(V)
      BY <2>1
    <3> QED
      BY <3>1 DEF Patches
  <2>4. u[k].start < p.start
    BY <1>1, <2>1
  <2> QED
    BY <1>2, <2>2, <2>3, <2>4
<1>4. x = i \/ x < i
  BY <1>1, <1>3
<1>5. x < i => Limit(u, x, n) + PrefixDelta(u, x) <= Cursor(u, i) + PrefixDelta(u, i)
  BY <1>1, ShiftsKeepOrder
<1>6. /\ PrefixDelta(u, x) \in Int /\ PrefixDelta(u, i) \in Int
      /\ Limit(u, x, n) \in 0..n /\ Cursor(u, i) \in 0..n
  BY <1>1, Cursors, DeltaSums
<1> DEFINE d == PrefixDelta(u, x)
           e == PrefixDelta(u, i)
           f == Limit(u, x, n)
           c == Cursor(u, i)
           a == p.end
<1>7. /\ d \in Int /\ e \in Int /\ f \in Int /\ c \in Int /\ a \in Int
      /\ a <= f /\ c <= y /\ a <= y /\ (x < i => f + d <= c + e)
  BY <1>1, <1>2, <1>5, <1>6
<1>8. x = i => d = e
  OBVIOUS
<1> HIDE DEF d, e, f, c, a
<1>9. a + d <= y + e
  <2>1. CASE x = i
    BY <1>7, <1>8, <2>1
  <2>2. CASE x < i
    <3>1. f + d <= c + e
      BY <1>7, <2>2
    <3> QED
      BY <1>7, <3>1
  <2> QED
    BY <1>4, <2>1, <2>2
<1> QED
  BY <1>9 DEF a, d, e

LEMMA HoleBehind ==
    ASSUME NEW V, NEW u \in Seq(Patches(V)), NEW n \in Nat, LaidOut(u, n),
           NEW p \in Patches(V), NEW x, Hole(u, n, p, x),
           NEW i \in 0..Len(u), Cursor(u, i) <= p.start,
           NEW y \in Int, y <= Limit(u, i, n), y <= p.start
    PROVE  y + PrefixDelta(u, i) <= p.start + PrefixDelta(u, x)
<1>1. /\ x \in 0..Len(u) /\ Cursor(u, x) <= p.start
      /\ \A k \in 1..Len(u) : x < k => p.start < u[k].start
  BY DEF Hole
<1>2. Len(u) \in Nat /\ p.start \in Int
  BY DEF Patches
<1>3. i <= x
  <2> SUFFICES ASSUME x < i PROVE FALSE
    BY <1>1
  <2>1. i \in 1..Len(u) /\ i # 0
    BY <1>1
  <2>2. p.start < u[i].start
    BY <1>1, <2>1
  <2>3. Cursor(u, i) = u[i].end
    BY <2>1 DEF Cursor
  <2>4. u[i].start \in Int /\ u[i].end \in Int /\ u[i].start <= u[i].end
    <3>1. u[i] \in Patches(V) /\ i \in DOMAIN u
      BY <2>1
    <3> QED
      BY <3>1 DEF Patches, LaidOut, Valid
  <2> QED
    BY <1>2, <2>2, <2>3, <2>4
<1>4. x = i \/ i < x
  BY <1>1, <1>3
<1>5. i < x => Limit(u, i, n) + PrefixDelta(u, i) <= Cursor(u, x) + PrefixDelta(u, x)
  BY <1>1, ShiftsKeepOrder
<1>6. /\ PrefixDelta(u, x) \in Int /\ PrefixDelta(u, i) \in Int
      /\ Limit(u, i, n) \in 0..n /\ Cursor(u, x) \in 0..n
  BY <1>1, Cursors, DeltaSums
<1> DEFINE d == PrefixDelta(u, x)
           e == PrefixDelta(u, i)
           f == Limit(u, i, n)
           c == Cursor(u, x)
           a == p.start
<1>7. /\ d \in Int /\ e \in Int /\ f \in Int /\ c \in Int /\ a \in Int
      /\ y <= f /\ c <= a /\ y <= a /\ (i < x => f + e <= c + d)
  BY <1>1, <1>2, <1>5, <1>6
<1>8. x = i => d = e
  OBVIOUS
<1> HIDE DEF d, e, f, c, a
<1>9. y + e <= a + d
  <2>1. CASE x = i
    BY <1>7, <1>8, <2>1
  <2>2. CASE i < x
    <3>1. f + e <= c + d
      BY <1>7, <2>2
    <3> QED
      BY <1>7, <3>1
  <2> QED
    BY <1>4, <2>1, <2>2
<1> QED
  BY <1>9 DEF a, d, e

(***************************************************************************)
(* A stretch of the text between that the first j of the rebased patches   *)
(* are in front of, and the others behind.                                 *)
(***************************************************************************)
LEMMA BetweenRebased ==
    ASSUME NEW V, NEW u, NEW v \in Seq(Patches(V)), NEW r, NEW at, NEW n, NEW b \in Seq(V),
           RebasedOn(V, r, u, v, n, at),
           NEW j \in 0..Len(v), NEW w \in Nat, w < Len(b),
           j > 0 => v[j].end + PrefixDelta(u, at[j]) <= w,
           NEW g, g = j + 1, j < Len(v) => w < v[g].start + PrefixDelta(u, at[g])
    PROVE  Between(r, j, Len(b), w)
<1>1. /\ Len(r) = Len(v) /\ Len(v) \in Nat
      /\ \A l \in 1..Len(v) : MovedBy(v[l], r[l], PrefixDelta(u, at[l]))
  BY DEF RebasedOn
<1>2. Cursor(r, j) <= w
  <2>1. CASE j = 0
    BY <2>1 DEF Cursor
  <2>2. CASE j # 0
    <3>1. j \in 1..Len(v) /\ j > 0
      BY <2>2
    <3>2. r[j].end = v[j].end + PrefixDelta(u, at[j])
      BY <1>1, <3>1 DEF MovedBy
    <3> QED
      BY <2>2, <3>1, <3>2 DEF Cursor
  <2> QED
    BY <2>1, <2>2
<1>3. w < Limit(r, j, Len(b))
  <2>1. CASE j = Len(v)
    BY <1>1, <2>1 DEF Limit
  <2>2. CASE j # Len(v)
    <3>1. g \in 1..Len(v) /\ j < Len(v)
      BY <1>1, <2>2
    <3>2. r[g].start = v[g].start + PrefixDelta(u, at[g])
      BY <1>1, <3>1 DEF MovedBy
    <3> QED
      BY <1>1, <2>2, <3>1, <3>2 DEF Limit
  <2> QED
    BY <2>1, <2>2
<1> QED
  BY <1>2, <1>3 DEF Between

(***************************************************************************)
(* The first changes together, and one after the other: a byte between the *)
(* patches, and a byte of a patch of either.                               *)
(***************************************************************************)
After(V, s, m, u, v, r, at, b, z) ==
    /\ s \in Seq(V) /\ b \in Seq(V) /\ z \in Seq(V)
    /\ Merged(V, m, u, v, Len(s)) /\ RebasedOn(V, r, u, v, Len(s), at)
    /\ \A l \in 0..Len(v) : PrefixDelta(r, l) = PrefixDelta(v, l)
    /\ Lengths(b, s, u) /\ GapsKept(b, s, u) /\ TextsWritten(b, u)
    /\ Lengths(z, b, r) /\ GapsKept(z, b, r) /\ TextsWritten(z, r)

LEMMA ByteKept ==
    ASSUME NEW V, NEW s, NEW m, NEW u, NEW v, NEW r, NEW at, NEW b, NEW z,
           After(V, s, m, u, v, r, at, b, z),
           NEW j \in 0..Len(v), NEW w \in Int, Between(r, j, Len(b), w),
           NEW p, p = w + PrefixDelta(v, j) + 1
    PROVE  z[p] = b[w + 1]
<1>1. /\ GapsKept(z, b, r) /\ Len(r) = Len(v) /\ PrefixDelta(r, j) = PrefixDelta(v, j)
  BY DEF After, RebasedOn
<1>2. j \in 0..Len(r)
  BY <1>1
<1>3. z[w + PrefixDelta(r, j) + 1] = b[w + 1]
  BY <1>1, <1>2 DEF GapsKept
<1> QED
  BY <1>1, <1>3

LEMMA AfterFacts ==
    ASSUME NEW V, NEW s, NEW m, NEW u, NEW v, NEW r, NEW at, NEW b, NEW z,
           After(V, s, m, u, v, r, at, b, z), NEW n, n = Len(s)
    PROVE  /\ n \in Nat /\ Len(b) \in Nat /\ Len(m) \in Nat /\ Len(u) \in Nat /\ Len(v) \in Nat
           /\ m \in Seq(Patches(V)) /\ u \in Seq(Patches(V)) /\ v \in Seq(Patches(V))
           /\ LaidOut(m, n) /\ LaidOut(u, n) /\ LaidOut(v, n) /\ IsMerge(m, u, v)
           /\ \A l \in 1..Len(v) : /\ v[l] \in Patches(V) /\ Hole(u, n, v[l], at[l])
                                   /\ v[l].start \in Int /\ v[l].end \in Int
                                   /\ v[l].start <= v[l].end
           /\ \A k \in 0..Len(u) : /\ PrefixDelta(u, k) \in Int
                                   /\ Cursor(u, k) \in Int /\ Limit(u, k, n) \in Int
                                   /\ Cursor(u, k) <= Limit(u, k, n)
                                   /\ 0 <= Cursor(u, k) + PrefixDelta(u, k)
                                   /\ Limit(u, k, n) + PrefixDelta(u, k) <= Len(b)
           /\ \A k \in 0..Len(v) : /\ PrefixDelta(v, k) \in Int
                                   /\ Cursor(v, k) \in Int /\ Limit(v, k, n) \in Int
<1>1. s \in Seq(V) /\ b \in Seq(V) /\ Merged(V, m, u, v, n) /\ RebasedOn(V, r, u, v, n, at)
  BY DEF After
<1>2. /\ m \in Seq(Patches(V)) /\ u \in Seq(Patches(V)) /\ v \in Seq(Patches(V))
      /\ LaidOut(m, n) /\ LaidOut(u, n) /\ LaidOut(v, n) /\ IsMerge(m, u, v)
  BY <1>1 DEF Merged
<1>3. n \in Nat /\ Len(b) \in Nat /\ Len(m) \in Nat /\ Len(u) \in Nat /\ Len(v) \in Nat
  BY <1>1, <1>2
<1>4. \A l \in 1..Len(v) : Hole(u, n, v[l], at[l])
  BY <1>1 DEF RebasedOn
<1>5. \A l \in 1..Len(v) : /\ v[l] \in Patches(V)
                           /\ v[l].start \in Int /\ v[l].end \in Int /\ v[l].start <= v[l].end
  <2>1. \A l \in 1..Len(v) : v[l] \in Patches(V) /\ l \in DOMAIN v
    BY <1>2
  <2> QED
    BY <1>2, <2>1 DEF Patches, LaidOut, Valid
<1>6. \A k \in 0..Len(u) : /\ PrefixDelta(u, k) \in Int
                           /\ Cursor(u, k) \in Int /\ Limit(u, k, n) \in Int
                           /\ Cursor(u, k) <= Limit(u, k, n)
  BY <1>2, <1>3, Cursors, DeltaSums
<1>7. \A k \in 0..Len(u) : /\ 0 <= Cursor(u, k) + PrefixDelta(u, k)
                           /\ Limit(u, k, n) + PrefixDelta(u, k) <= Len(b)
  <2>1. Lengths(b, s, u)
    BY DEF After
  <2> QED
    BY <2>1 DEF Lengths
<1>8. \A k \in 0..Len(v) : /\ PrefixDelta(v, k) \in Int
                           /\ Cursor(v, k) \in Int /\ Limit(v, k, n) \in Int
  BY <1>2, <1>3, Cursors, DeltaSums
<1> QED
  BY <1>2, <1>3, <1>4, <1>5, <1>6, <1>7, <1>8

LEMMA GapTwice ==
    ASSUME NEW V, NEW s, NEW m, NEW u, NEW v, NEW r, NEW at, NEW b, NEW z,
           After(V, s, m, u, v, r, at, b, z),
           NEW k \in 0..Len(m), NEW o \in Int, Between(m, k, Len(s), o)
    PROVE  z[o + PrefixDelta(m, k) + 1] = s[o + 1]
<1> DEFINE n == Len(s)
<1>1. n = Len(s) /\ Merged(V, m, u, v, n)
  BY DEF After
<1> HIDE DEF n
<1>2. /\ n \in Nat /\ Len(b) \in Nat /\ Len(u) \in Nat /\ Len(v) \in Nat
      /\ u \in Seq(Patches(V)) /\ v \in Seq(Patches(V)) /\ m \in Seq(Patches(V))
      /\ LaidOut(u, n) /\ LaidOut(v, n) /\ LaidOut(m, n)
  BY <1>1, AfterFacts
<1>3. \A l \in 1..Len(v) : /\ v[l] \in Patches(V) /\ Hole(u, n, v[l], at[l])
                           /\ v[l].start \in Int /\ v[l].end \in Int
                           /\ v[l].start <= v[l].end
  BY <1>1, AfterFacts
<1>4. \A x \in 0..Len(u) : /\ PrefixDelta(u, x) \in Int
                           /\ Cursor(u, x) \in Int /\ Limit(u, x, n) \in Int
                           /\ 0 <= Cursor(u, x) + PrefixDelta(u, x)
                           /\ Limit(u, x, n) + PrefixDelta(u, x) <= Len(b)
  BY <1>1, AfterFacts
<1>5. PICK i, j : Halves(m, u, v, k, i, j)
  BY <1>1, <1>2, HalvesExist
<1>6. Merged(V, m, v, u, n) /\ Halves(m, v, u, k, j, i)
  BY <1>1, <1>5, MergeSwapped, HalvesSwapped, Zenon
<1>7. /\ i \in 0..Len(u) /\ j \in 0..Len(v)
      /\ PrefixDelta(m, k) = PrefixDelta(u, i) + PrefixDelta(v, j)
  BY <1>5 DEF Halves
<1>8. /\ Cursor(u, i) <= Cursor(m, k) /\ Limit(m, k, n) <= Limit(u, i, n)
      /\ Cursor(v, j) <= Cursor(m, k) /\ Limit(m, k, n) <= Limit(v, j, n)
  BY <1>1, <1>2, <1>5, <1>6, GapOfHalf
<1>9. Cursor(m, k) <= o /\ o < Limit(m, k, n)
  BY <1>1 DEF Between
<1>10. /\ Cursor(u, i) <= o /\ o < Limit(u, i, n) /\ Cursor(v, j) <= o /\ o < Limit(v, j, n)
  <2>1. Cursor(m, k) \in 0..n /\ Limit(m, k, n) \in 0..n
    BY <1>2, Cursors
  <2>2. /\ Cursor(u, i) \in 0..n /\ Limit(u, i, n) \in 0..n
    BY <1>2, <1>7, Cursors
  <2>3. /\ Cursor(v, j) \in 0..n /\ Limit(v, j, n) \in 0..n
    BY <1>2, <1>7, Cursors
  <2> QED
    BY <1>8, <1>9, <2>1, <2>2, <2>3
<1> DEFINE d == PrefixDelta(u, i)
           w == o + d
           c == Cursor(u, i)
           f == Limit(u, i, n)
           g == j + 1
<1>11. w \in Nat /\ w < Len(b)
  <2>1. d \in Int /\ c \in Int /\ f \in Int /\ 0 <= c + d /\ f + d <= Len(b) /\ c <= o /\ o < f
    BY <1>4, <1>7, <1>10
  <2> HIDE DEF d, c, f
  <2> QED
    BY <1>2, <2>1
<1>12. j > 0 => v[j].end + PrefixDelta(u, at[j]) <= w
  <2> SUFFICES ASSUME j > 0 PROVE v[j].end + PrefixDelta(u, at[j]) <= w
    OBVIOUS
  <2> DEFINE p == v[j]
             x == at[j]
  <2>1. j \in 1..Len(v) /\ j # 0
    BY <1>7
  <2>2. p \in Patches(V) /\ Hole(u, n, p, x) /\ p.end = Cursor(v, j) /\ p.start <= p.end
        /\ p.start \in Int /\ p.end \in Int
    BY <1>3, <2>1 DEF Cursor
  <2>3. p.start < Limit(u, i, n) /\ p.end <= o
    BY <1>4, <1>7, <1>10, <2>2
  <2> HIDE DEF p, x, w, d
  <2>4. p.end + PrefixDelta(u, x) <= o + PrefixDelta(u, i)
    BY <1>2, <1>7, <1>10, <2>2, <2>3, HoleBefore
  <2> QED
    BY <2>4 DEF p, x, w, d
<1>13. j < Len(v) => w < v[g].start + PrefixDelta(u, at[g])
  <2> SUFFICES ASSUME j < Len(v) PROVE w < v[g].start + PrefixDelta(u, at[g])
    OBVIOUS
  <2> DEFINE p == v[g]
             x == at[g]
             y == o + 1
  <2>1. g \in 1..Len(v) /\ j # Len(v)
    BY <1>2, <1>7
  <2>2. Limit(v, j, n) = p.start
    BY <2>1 DEF Limit
  <2> HIDE DEF g
  <2>3. p \in Patches(V) /\ Hole(u, n, p, x) /\ p.start \in Int
    BY <1>3, <2>1
  <2>4. x \in 0..Len(u)
    BY <2>3 DEF Hole
  <2>5. /\ Cursor(u, i) <= p.start /\ y \in Int /\ y <= Limit(u, i, n) /\ y <= p.start
    BY SMTT(40), <1>4, <1>7, <1>10, <2>2, <2>3
  <2> HIDE DEF p, x, w, d, y
  <2>6. y + PrefixDelta(u, i) <= p.start + PrefixDelta(u, x)
    BY <1>2, <1>7, <2>3, <2>5, HoleBehind
  <2>7. PrefixDelta(u, i) \in Int /\ PrefixDelta(u, x) \in Int
    BY <1>4, <1>7, <2>4
  <2>8. w < p.start + PrefixDelta(u, x)
    BY <2>3, <2>6, <2>7 DEF w, d, y
  <2> QED
    BY <2>8 DEF p, x
<1>14. Between(r, j, Len(b), w)
  <2>1. g = j + 1 /\ RebasedOn(V, r, u, v, n, at) /\ b \in Seq(V)
    BY <1>1 DEF After
  <2> HIDE DEF g, w
  <2> QED
    BY <1>2, <1>7, <1>11, <1>12, <1>13, <2>1, BetweenRebased
<1>15. z[w + PrefixDelta(v, j) + 1] = b[w + 1]
  <2> DEFINE q == w + PrefixDelta(v, j) + 1
  <2>1. q = w + PrefixDelta(v, j) + 1
    OBVIOUS
  <2> HIDE DEF q, w
  <2>2. z[q] = b[w + 1]
    BY <1>7, <1>11, <1>14, <2>1, ByteKept
  <2> QED
    BY <2>2 DEF q
<1>16. b[w + 1] = s[o + 1]
  <2>1. GapsKept(b, s, u) /\ Between(u, i, n, o)
    BY <1>10 DEF After, Between
  <2> QED
    BY <1>1, <1>7, <2>1 DEF GapsKept
<1>17. o + PrefixDelta(m, k) + 1 = w + PrefixDelta(v, j) + 1
  <2>1. PrefixDelta(v, j) \in Int /\ d \in Int
    BY <1>2, <1>4, <1>7, DeltaSums
  <2> DEFINE e == PrefixDelta(v, j)
  <2>2. PrefixDelta(m, k) = d + e
    BY <1>7
  <2> HIDE DEF d, e
  <2> QED
    BY <2>1, <2>2 DEF e
<1> QED
  BY <1>15, <1>16, <1>17

LEMMA TextOfSecond ==
    ASSUME NEW V, NEW s, NEW m, NEW u, NEW v, NEW r, NEW at, NEW b, NEW z,
           After(V, s, m, u, v, r, at, b, z),
           NEW h \in 1..Len(m), NEW l \in 1..Len(v), m[h] = v[l],
           NEW t \in 1..Len(m[h].text)
    PROVE  z[m[h].start + PrefixDelta(m, h - 1) + t] = m[h].text[t]
<1> DEFINE n == Len(s)
           k == h - 1
<1>1. n = Len(s) /\ Merged(V, m, u, v, n) /\ RebasedOn(V, r, u, v, n, at) /\ TextsWritten(z, r)
      /\ \A x \in 0..Len(v) : PrefixDelta(r, x) = PrefixDelta(v, x)
  BY DEF After
<1> HIDE DEF n
<1>2. /\ n \in Nat /\ Len(m) \in Nat /\ Len(v) \in Nat /\ Len(u) \in Nat
      /\ u \in Seq(Patches(V)) /\ v \in Seq(Patches(V))
      /\ v[l] \in Patches(V) /\ v[l].start \in Int
  BY <1>1, AfterFacts
<1>3. k \in Nat /\ k \in 0..Len(m) /\ h = k + 1 /\ k = h - 1
  BY <1>2
<1> HIDE DEF k
<1>4. PICK i, j : Halves(m, u, v, k, i, j)
  BY <1>1, <1>2, <1>3, HalvesExist
<1>5. l = j + 1 /\ Hole(u, n, v[l], i)
  <2>1. n \in Nat /\ Merged(V, m, u, v, n) /\ k \in Nat /\ h = k + 1 /\ h \in 1..Len(m)
    BY <1>1, <1>2, <1>3
  <2>2. m[h] = v[l]
    OBVIOUS
  <2> QED
    BY <1>4, <2>1, <2>2, HoleOfOther
<1>6. /\ i \in 0..Len(u) /\ j \in 0..Len(v)
      /\ PrefixDelta(m, k) = PrefixDelta(u, i) + PrefixDelta(v, j)
  BY <1>4 DEF Halves
<1>7. at[l] = i
  <2> DEFINE x == at[l]
  <2>1. Hole(u, n, v[l], x)
    BY <1>1 DEF RebasedOn
  <2> HIDE DEF x
  <2>2. x \in 0..Len(u)
    BY <2>1 DEF Hole
  <2>3. \A y \in 1..Len(u) : ~(u[y].start < v[l].start /\ v[l].start < u[y].start)
    <3>1. \A y \in 1..Len(u) : u[y].start \in Int
      <4>1. \A y \in 1..Len(u) : u[y] \in Patches(V)
        BY <1>2
      <4> QED
        BY <4>1 DEF Patches
    <3> QED
      BY <1>2, <3>1
  <2>4. ~(x < i)
    <3> SUFFICES ASSUME x < i PROVE FALSE
      OBVIOUS
    <3>1. i \in 1..Len(u) /\ i <= i /\ x < i
      BY <1>6, <2>2
    <3> QED
      BY <1>5, <2>1, <2>3, <3>1 DEF Hole
  <2>5. ~(i < x)
    <3> SUFFICES ASSUME i < x PROVE FALSE
      OBVIOUS
    <3>1. x \in 1..Len(u) /\ x <= x /\ i < x
      BY <1>6, <2>2
    <3> QED
      BY <1>5, <2>1, <2>3, <3>1 DEF Hole
  <2>6. x = i
    BY <1>6, <2>2, <2>4, <2>5
  <2> QED
    BY <2>6 DEF x
<1> DEFINE d == PrefixDelta(u, i)
           e == PrefixDelta(v, j)
           a == v[l].start
<1>8. Len(r) = Len(v) /\ r[l].start = a + d /\ r[l].text = v[l].text
  BY <1>1, <1>7 DEF RebasedOn, MovedBy
<1>9. PrefixDelta(r, l - 1) = e
  <2>1. l - 1 = j
    BY <1>5, <1>6
  <2> QED
    BY <1>1, <1>6, <2>1
<1>10. z[r[l].start + PrefixDelta(r, l - 1) + t] = r[l].text[t]
  <2>1. l \in 1..Len(r) /\ t \in 1..Len(r[l].text)
    BY <1>8
  <2> QED
    BY <1>1, <2>1 DEF TextsWritten
<1>11. d \in Int /\ e \in Int /\ a \in Int /\ t \in Int
  <2>1. d \in Int /\ e \in Int
    BY <1>2, <1>6, DeltaSums
  <2> QED
    BY <1>2, <2>1
<1>12. m[h].start + PrefixDelta(m, h - 1) = a + (d + e)
  BY <1>3, <1>6
<1> HIDE DEF d, e, a
<1>13. a + (d + e) + t = (a + d) + e + t
  BY <1>11
<1>14. m[h].start + PrefixDelta(m, h - 1) + t = r[l].start + PrefixDelta(r, l - 1) + t
  BY <1>8, <1>9, <1>12, <1>13
<1>15. r[l].text[t] = m[h].text[t]
  BY <1>8
<1> QED
  BY <1>10, <1>14, <1>15

LEMMA TextOfFirst ==
    ASSUME NEW V, NEW s, NEW m, NEW u, NEW v, NEW r, NEW at, NEW b, NEW z,
           After(V, s, m, u, v, r, at, b, z),
           NEW h \in 1..Len(m), NEW l \in 1..Len(u), m[h] = u[l],
           NEW t \in 1..Len(m[h].text)
    PROVE  z[m[h].start + PrefixDelta(m, h - 1) + t] = m[h].text[t]
<1> DEFINE n == Len(s)
           k == h - 1
<1>1. n = Len(s) /\ Merged(V, m, u, v, n) /\ RebasedOn(V, r, u, v, n, at)
      /\ TextsWritten(b, u) /\ b \in Seq(V)
  BY DEF After
<1> HIDE DEF n
<1>2. /\ n \in Nat /\ Len(b) \in Nat /\ Len(m) \in Nat /\ Len(v) \in Nat /\ Len(u) \in Nat
      /\ u \in Seq(Patches(V)) /\ v \in Seq(Patches(V)) /\ m \in Seq(Patches(V))
      /\ LaidOut(u, n) /\ LaidOut(v, n)
  BY <1>1, AfterFacts
<1>2a. \A x \in 1..Len(v) : /\ v[x] \in Patches(V) /\ Hole(u, n, v[x], at[x])
                            /\ v[x].start \in Int /\ v[x].end \in Int
                            /\ v[x].start <= v[x].end
  BY <1>1, AfterFacts
<1>2b. \A x \in 0..Len(u) : /\ PrefixDelta(u, x) \in Int
                            /\ Cursor(u, x) \in Int /\ Limit(u, x, n) \in Int
                            /\ Cursor(u, x) <= Limit(u, x, n)
                            /\ 0 <= Cursor(u, x) + PrefixDelta(u, x)
                            /\ Limit(u, x, n) + PrefixDelta(u, x) <= Len(b)
  BY <1>1, AfterFacts
<1>3. k \in Nat /\ k \in 0..Len(m) /\ h = k + 1 /\ k = h - 1
  BY <1>2
<1> HIDE DEF k
<1>4. PICK i, j : Halves(m, u, v, k, i, j)
  BY <1>1, <1>2, <1>3, HalvesExist
<1>5. Merged(V, m, v, u, n) /\ Halves(m, v, u, k, j, i)
  BY <1>1, <1>4, MergeSwapped, HalvesSwapped, Zenon
<1>6. l = i + 1 /\ Hole(v, n, u[l], j)
  BY SMTT(40), <1>2, <1>3, <1>5, HoleOfOther
<1>7. /\ i \in 0..Len(u) /\ j \in 0..Len(v) /\ l \in 0..Len(u) /\ l - 1 = i
      /\ PrefixDelta(m, k) = PrefixDelta(u, i) + PrefixDelta(v, j)
  BY <1>2, <1>4, <1>6 DEF Halves
<1> DEFINE p == u[l]
           d == PrefixDelta(u, i)
           e == PrefixDelta(v, j)
           y == p.start
           f == p.end
           q == Len(p.text)
           w == y + d + t - 1
           g == j + 1
<1>8. /\ p \in Patches(V) /\ y \in Int /\ f \in Int /\ q \in Nat /\ d \in Int /\ e \in Int
      /\ t \in Int /\ 1 <= t /\ t <= q
  <2>1. p \in Patches(V)
    BY <1>2
  <2>2. d \in Int /\ e \in Int
    BY <1>2, <1>7, DeltaSums
  <2>3. t \in 1..q
    OBVIOUS
  <2> HIDE DEF p, d, e
  <2>4. y \in Int /\ f \in Int /\ q \in Nat
    BY <2>1 DEF Patches
  <2> HIDE DEF q, y, f
  <2> QED
    BY <2>1, <2>2, <2>3, <2>4
<1>9. /\ Cursor(u, l) = f /\ Cursor(u, i) <= y /\ Limit(u, i, n) = y
  <2>1. /\ Cursor(u, l) = u[l].end
        /\ Cursor(u, l - 1) <= u[l].start /\ Limit(u, l - 1, n) = u[l].start
    BY <1>2, Cursors
  <2> QED
    BY <1>7, <2>1
<1>10. PrefixDelta(u, l) = d + (q - (f - y))
  <2>1. PrefixDelta(u, l) = PrefixDelta(u, l - 1) + Delta(u[l])
    BY <1>2, DeltaSums
  <2> QED
    BY <1>7, <2>1 DEF Delta
<1>11. /\ Cursor(v, j) <= y /\ f <= Limit(v, j, n)
       /\ \A x \in 1..Len(v) : x <= j => v[x].start < y
  BY <1>6 DEF Hole
<1> HIDE DEF p, d, e, y, f, q
<1>12. w \in Nat /\ w < Len(b)
  <2> DEFINE c == Cursor(u, i)
             x == Limit(u, l, n)
             D == PrefixDelta(u, l)
             B == Len(b)
  <2>1. /\ c \in Int /\ 0 <= c + d /\ c <= y
        /\ x \in Int /\ f <= x /\ x + D <= B /\ D = d + (q - (f - y)) /\ B \in Nat
    BY <1>2, <1>2b, <1>7, <1>9, <1>10 DEF d
  <2> HIDE DEF c, x, D, B
  <2>2. 0 <= y + d /\ y + d + q <= B
    BY <1>8, <2>1
  <2>3. w \in Nat /\ w < B
    BY <1>8, <2>1, <2>2
  <2> QED
    BY <2>3 DEF B
<1>13. j > 0 => v[j].end + PrefixDelta(u, at[j]) <= w
  <2> SUFFICES ASSUME j > 0 PROVE v[j].end + PrefixDelta(u, at[j]) <= w
    OBVIOUS
  <2> DEFINE o == v[j]
             x == at[j]
  <2>1. j \in 1..Len(v) /\ j # 0 /\ j <= j
    BY <1>7
  <2>2. /\ o \in Patches(V) /\ Hole(u, n, o, x) /\ o.end = Cursor(v, j)
        /\ o.start \in Int /\ o.end \in Int
    BY <1>2a, <2>1 DEF Cursor
  <2>3. o.start < y
    BY <1>11, <2>1
  <2>4. o.start < Limit(u, i, n) /\ o.end <= y
    BY <1>9, <1>11, <2>2, <2>3
  <2>5. x \in 0..Len(u)
    BY <2>2 DEF Hole
  <2> HIDE DEF o, x, w
  <2>6. o.end + PrefixDelta(u, x) <= y + PrefixDelta(u, i)
    BY <1>2, <1>7, <1>8, <1>9, <2>2, <2>4, HoleBefore
  <2> DEFINE a == PrefixDelta(u, x)
             c == o.end
  <2>7. a \in Int /\ c \in Int /\ c + a <= y + d
    BY <1>2b, <2>2, <2>5, <2>6 DEF d
  <2> HIDE DEF a, c
  <2>8. c + a <= w
    BY <1>8, <2>7 DEF w
  <2> QED
    BY <2>8 DEF o, x, a, c
<1>14. j < Len(v) => w < v[g].start + PrefixDelta(u, at[g])
  <2> SUFFICES ASSUME j < Len(v) PROVE w < v[g].start + PrefixDelta(u, at[g])
    OBVIOUS
  <2> DEFINE o == v[g]
             x == at[g]
  <2>1. g \in 1..Len(v) /\ j # Len(v)
    BY <1>2, <1>7
  <2>2. Limit(v, j, n) = o.start
    BY <2>1 DEF Limit
  <2> HIDE DEF g
  <2>3. o \in Patches(V) /\ Hole(u, n, o, x) /\ o.start \in Int
    BY <1>2a, <2>1
  <2>4. x \in 0..Len(u)
    BY <2>3 DEF Hole
  <2>5. Cursor(u, l) <= o.start /\ f <= Limit(u, l, n) /\ f <= o.start
    BY <1>2b, <1>7, <1>9, <1>11, <2>2
  <2> HIDE DEF o, x, w
  <2>6. f + PrefixDelta(u, l) <= o.start + PrefixDelta(u, x)
    BY <1>2, <1>7, <1>8, <2>3, <2>5, HoleBehind
  <2> DEFINE a == PrefixDelta(u, x)
             c == o.start
             D == PrefixDelta(u, l)
  <2>7. a \in Int /\ c \in Int /\ f + D <= c + a /\ D = d + (q - (f - y))
    BY <1>2b, <1>10, <2>3, <2>4, <2>6
  <2> HIDE DEF a, c, D
  <2>8. w < c + a
    BY <1>8, <2>7 DEF w
  <2> QED
    BY <2>8 DEF o, x, a, c
<1>15. Between(r, j, Len(b), w)
  <2>1. g = j + 1
    OBVIOUS
  <2> HIDE DEF g, w
  <2> QED
    BY <1>1, <1>2, <1>7, <1>12, <1>13, <1>14, <2>1, BetweenRebased
<1> DEFINE P == w + PrefixDelta(v, j) + 1
<1>16. z[P] = b[w + 1]
  <2>1. P = w + PrefixDelta(v, j) + 1
    OBVIOUS
  <2> HIDE DEF P, w
  <2> QED
    BY <1>7, <1>12, <1>15, <2>1, ByteKept
<1>17. b[w + 1] = p.text[t]
  <2>1. b[u[l].start + PrefixDelta(u, l - 1) + t] = u[l].text[t]
    BY <1>1 DEF TextsWritten
  <2>2. b[y + d + t] = p.text[t]
    BY <1>7, <2>1 DEF y, d, p
  <2>3. w + 1 = y + d + t
    BY <1>8
  <2> QED
    BY <2>2, <2>3
<1>18. m[h].start + PrefixDelta(m, h - 1) + t = P
  <2>1. m[h].start = y /\ PrefixDelta(m, h - 1) = d + e /\ PrefixDelta(v, j) = e
    BY <1>3, <1>7 DEF y, d, e, p
  <2>2. y + (d + e) + t = (y + d + t - 1) + e + 1
    BY <1>8
  <2> QED
    BY <2>1, <2>2
<1> QED
  BY <1>16, <1>17, <1>18 DEF p

(***************************************************************************)
(* Both ways give the same text.                                           *)
(***************************************************************************)
LEMMA OneAfterAnother ==
    ASSUME NEW V, NEW s \in Seq(V), NEW m, NEW u, NEW v, Merged(V, m, u, v, Len(s)),
           NEW r, NEW at, RebasedOn(V, r, u, v, Len(s), at),
           NEW b, b = Splice(s, u), NEW z, z = Splice(b, r), NEW a, a = Splice(s, m)
    PROVE  LaidOut(r, Len(b)) /\ z = a
<1>1. /\ m \in Seq(Patches(V)) /\ u \in Seq(Patches(V)) /\ v \in Seq(Patches(V))
      /\ LaidOut(m, Len(s)) /\ LaidOut(u, Len(s)) /\ IsMerge(m, u, v)
  BY DEF Merged
<1>2. /\ b \in Seq(V) /\ Lengths(b, s, u) /\ GapsKept(b, s, u) /\ TextsWritten(b, u)
  BY <1>1, SpliceIs
<1>3. LaidOut(r, Len(b))
  BY <1>2, RebasedLaidOut
<1>4. r \in Seq(Patches(V)) /\ Len(r) = Len(v)
  BY DEF RebasedOn
<1>5. /\ z \in Seq(V) /\ Lengths(z, b, r) /\ GapsKept(z, b, r) /\ TextsWritten(z, r)
  BY <1>2, <1>3, <1>4, SpliceIs
<1>6. /\ a \in Seq(V) /\ Lengths(a, s, m) /\ GapsKept(a, s, m) /\ TextsWritten(a, m)
      /\ NothingElse(a, s, m)
  BY <1>1, SpliceIs
<1>7. \A l \in 1..Len(v) : PrefixDelta(u, at[l]) \in Int
  <2>1. \A l \in 1..Len(v) : at[l] \in 0..Len(u)
    BY DEF RebasedOn, Hole
  <2> QED
    BY <1>1, <2>1, DeltaSums
<1>8. \A l \in 0..Len(v) : PrefixDelta(r, l) = PrefixDelta(v, l)
  <2> DEFINE n == Len(s)
  <2>1. RebasedOn(V, r, u, v, n, at)
    OBVIOUS
  <2> HIDE DEF n
  <2> QED
    BY <1>1, <1>7, <2>1, RebasedDeltas
<1>9. After(V, s, m, u, v, r, at, b, z)
  BY <1>2, <1>5, <1>8 DEF After
<1>10. Len(z) = Len(a)
  <2> DEFINE n == Len(s)
             k == Len(m)
  <2>1. n \in Nat /\ k \in Nat /\ k \in 0..Len(m) /\ Len(u) \in Nat /\ Len(v) \in Nat
    BY <1>1
  <2>2. PICK i, j : Halves(m, u, v, k, i, j)
    <3>1. Merged(V, m, u, v, n)
      OBVIOUS
    <3> HIDE DEF n, k
    <3> QED
      BY <2>1, <3>1, HalvesExist
  <2>3. /\ i \in 0..Len(u) /\ j \in 0..Len(v) /\ k = i + j /\ k = Len(u) + Len(v)
        /\ PrefixDelta(m, k) = PrefixDelta(u, i) + PrefixDelta(v, j)
    BY <1>1, <2>2 DEF Halves, IsMerge
  <2>4. i = Len(u) /\ j = Len(v)
    BY <2>1, <2>3
  <2>5. Len(a) = n + (PrefixDelta(u, Len(u)) + PrefixDelta(v, Len(v)))
    BY <1>6, <2>3, <2>4 DEF Lengths
  <2>6. Len(z) = n + PrefixDelta(u, Len(u)) + PrefixDelta(v, Len(v))
    <3>1. Len(z) = Len(b) + PrefixDelta(r, Len(r)) /\ Len(b) = n + PrefixDelta(u, Len(u))
      BY <1>2, <1>5 DEF Lengths
    <3>2. PrefixDelta(r, Len(r)) = PrefixDelta(v, Len(v))
      BY <1>4, <1>8, <2>1
    <3> QED
      BY <3>1, <3>2
  <2>7. PrefixDelta(u, Len(u)) \in Int /\ PrefixDelta(v, Len(v)) \in Int
    BY <1>1, <2>1, DeltaSums
  <2> DEFINE x == PrefixDelta(u, Len(u))
             y == PrefixDelta(v, Len(v))
  <2>8. n + (x + y) = n + x + y
    <3> HIDE DEF n, x, y
    <3> QED
      BY <2>1, <2>7 DEF x, y
  <2> QED
    BY <2>5, <2>6, <2>8
<1>11. ASSUME NEW p \in 1..Len(a) PROVE z[p] = a[p]
  <2>1. CASE InGap(p, s, m)
    <3>1. PICK k \in 0..Len(m) : \E o \in Int : Between(m, k, Len(s), o) /\ p = o + PrefixDelta(m, k) + 1
      BY <2>1 DEF InGap
    <3>2. PICK o \in Int : Between(m, k, Len(s), o) /\ p = o + PrefixDelta(m, k) + 1
      BY <3>1
    <3>3. a[o + PrefixDelta(m, k) + 1] = s[o + 1]
      BY <1>6, <3>2 DEF GapsKept
    <3>4. z[o + PrefixDelta(m, k) + 1] = s[o + 1]
      BY <1>9, <3>2, GapTwice
    <3> QED
      BY <3>2, <3>3, <3>4
  <2>2. CASE InText(p, m)
    <3>1. PICK h \in 1..Len(m) : \E t \in 1..Len(m[h].text) : p = m[h].start + PrefixDelta(m, h - 1) + t
      BY <2>2 DEF InText
    <3>2. PICK t \in 1..Len(m[h].text) : p = m[h].start + PrefixDelta(m, h - 1) + t
      BY <3>1
    <3>3. a[m[h].start + PrefixDelta(m, h - 1) + t] = m[h].text[t]
      BY <1>6 DEF TextsWritten
    <3>4. CASE OneOf(m[h], u)
      <4>1. PICK l \in 1..Len(u) : m[h] = u[l]
        BY <3>4 DEF OneOf
      <4>2. z[m[h].start + PrefixDelta(m, h - 1) + t] = m[h].text[t]
        BY <1>9, <4>1, TextOfFirst
      <4> QED
        BY <3>2, <3>3, <4>2
    <3>5. CASE OneOf(m[h], v)
      <4>1. PICK l \in 1..Len(v) : m[h] = v[l]
        BY <3>5 DEF OneOf
      <4>2. z[m[h].start + PrefixDelta(m, h - 1) + t] = m[h].text[t]
        BY <1>9, <4>1, TextOfSecond
      <4> QED
        BY <3>2, <3>3, <4>2
    <3> QED
      BY <1>1, <3>4, <3>5 DEF IsMerge
  <2> QED
    BY <1>6, <2>1, <2>2 DEF NothingElse
<1>12. z = a
  BY <1>5, <1>6, <1>10, <1>11, SameSequences
<1> QED
  BY <1>3, <1>12

LEMMA OneAfterTheOtherIs ==
    ASSUME NEW s \in Seq(Clean), NEW c, NEW f, Origin(c) = s, NEW m,
           Merged(Clean, m, c.patches, f.patches, Len(s))
    PROVE  OneAfterTheOther(c, f) = Normalize(Splice(s, m))
<1> DEFINE u == c.patches
           v == f.patches
           b == Splice(s, u)
           r == Rebased(f, c)
           z == Splice(b, r)
           a == Splice(s, m)
           n == Len(s)
<1>1. Merged(Clean, m, u, v, n) /\ n \in Nat
  OBVIOUS
<1>2. r = [l \in DOMAIN v |-> LET x == RangeAfterPatches(v[l], u)
                              IN [start |-> x.start, end |-> x.end, text |-> v[l].text]]
  BY DEF Rebased
<1>3. b = Splice(s, u) /\ z = Splice(b, r) /\ a = Splice(s, m) /\ n = Len(s)
  OBVIOUS
<1>4. OneAfterTheOther(c, f) = IF \A i \in DOMAIN r : Valid(r[i], Len(b))
                               THEN Normalize(Splice(b, InOrder(r))) ELSE NoDocument
  BY DEF OneAfterTheOther
<1> HIDE DEF u, v, b, r, z, a, n
<1>5. PICK at : RebasedOn(Clean, r, u, v, n, at)
  BY <1>1, <1>2, RebasedIs
<1>6. LaidOut(r, Len(b)) /\ z = a
  BY <1>1, <1>3, <1>5, OneAfterAnother
<1>7. r \in Seq(Patches(Clean)) /\ b \in Seq(Clean)
  <2>1. u \in Seq(Patches(Clean)) /\ LaidOut(u, n)
    BY <1>1 DEF Merged
  <2> QED
    BY <1>3, <1>5, <2>1, SpliceIs DEF RebasedOn
<1>8. InOrder(r) = r
  <2> DEFINE k == Len(b)
  <2>1. k \in Nat /\ LaidOut(r, k)
    BY <1>6, <1>7
  <2> HIDE DEF k
  <2> QED
    BY <1>7, <2>1, InOrderAlready
<1>9. \A i \in DOMAIN r : Valid(r[i], Len(b))
  BY <1>6 DEF LaidOut
<1>10. OneAfterTheOther(c, f) = Normalize(Splice(b, r))
  BY <1>4, <1>8, <1>9
<1>11. Splice(b, r) = Splice(s, m)
  BY <1>3, <1>6
<1> QED
  BY <1>10, <1>11

LEMMA CommuteOfHeld ==
    ASSUME IInv
    PROVE  Commute
<1> SUFFICES ASSUME Parsed, Len(pool) = 2, Compatible(pool)
             PROVE  /\ OneAfterTheOther(pool[1], pool[2]) = Result(Combined(pool), snapshot)
                    /\ OneAfterTheOther(pool[2], pool[1]) = Result(Combined(pool), snapshot)
  BY DEF Commute
<1> DEFINE s == snapshot
           c == pool[1]
           f == pool[2]
           u == c.patches
           v == f.patches
           w == u \o v
           m == InOrder(w)
           n == Len(s)
<1>1. s \in Seq(Clean) /\ n \in Nat
  BY DEF IInv
<1>2. c \in ChangeSets /\ Sound(c) /\ f \in ChangeSets /\ Sound(f) /\ DOMAIN pool = 1..2
  <2> DEFINE W == ChangeSets
  <2>1. pool \in Seq(W) /\ \A i \in 1..2 : Sound(pool[i])
    BY DEF IInv
  <2> HIDE DEF W
  <2>2. DOMAIN pool = 1..2 /\ pool[1] \in W /\ pool[2] \in W
    BY SMTT(40), <2>1
  <2> QED
    BY <2>1, <2>2 DEF W
<1>3. c.fingerprint = s /\ f.fingerprint = s /\ Accepted(n, w)
  <2>1. /\ \A i \in DOMAIN pool : pool[i].fingerprint = s
        /\ Accepted(Len(s), pool[1].patches \o pool[2].patches)
    BY DEF Compatible, Sum
  <2> QED
    BY <1>2, <2>1
<1>4. u \in Seq(Patches(Clean)) /\ v \in Seq(Patches(Clean)) /\ LaidOut(u, n) /\ LaidOut(v, n)
  BY <1>2, <1>3 DEF ChangeSets, Sound
<1>5. Result(Combined(pool), s) = Normalize(Splice(s, m))
  <2>1. Normalize(s) = s
    BY <1>1, NormalizeClean
  <2> QED
    BY <2>1 DEF Result, Combined
<1>6. Merged(Clean, m, u, v, n)
  <2>1. w \in Seq(Patches(Clean)) /\ m = InOrder(w)
    <3> DEFINE W == Patches(Clean)
    <3>1. u \in Seq(W) /\ v \in Seq(W)
      BY <1>4
    <3> HIDE DEF W, u, v
    <3>2. w \in Seq(W)
      BY <3>1
    <3> QED
      BY <3>2 DEF W
  <2>2. w = u \o v
    OBVIOUS
  <2> HIDE DEF w, m, n, u, v
  <2>3. m \in Seq(Patches(Clean)) /\ LaidOut(m, n)
    BY <1>3, <2>1, AcceptedIs
  <2>4. m = InOrder(u \o v)
    BY <2>1, <2>2
  <2>5. IsMerge(m, u, v)
    BY <1>1, <1>4, <2>3, <2>4, MergeIs
  <2> QED
    BY <1>4, <2>3, <2>5 DEF Merged
<1>7. Merged(Clean, m, v, u, n)
  BY <1>6, MergeSwapped
<1>8. Origin(c) = s /\ Origin(f) = s
  BY <1>3 DEF Origin
<1> HIDE DEF s, c, f, m
<1>9. OneAfterTheOther(c, f) = Normalize(Splice(s, m))
  BY <1>1, <1>6, <1>8, OneAfterTheOtherIs
<1>10. OneAfterTheOther(f, c) = Normalize(Splice(s, m))
  BY <1>1, <1>7, <1>8, OneAfterTheOtherIs
<1> QED
  BY <1>5, <1>9, <1>10 DEF s, c, f

\* Two changes that combine do together what they do one after the other, in
\* either order: every pair of changes that composeSourceChanges lets through.
THEOREM CombinedCommute == TextsWithoutNul => (Spec => []Commute)
<1>1. IInv => Commute
  BY CommuteOfHeld
<1> QED
  BY <1>1, Inductive, PTL
=============================================================================
