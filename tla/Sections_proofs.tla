--------------------------- MODULE Sections_proofs --------------------------
(***************************************************************************)
(* Every snapshot that edits lead to: its anchors, its table of contents,  *)
(* the nesting of its sections, and what each prepared change does to its  *)
(* sections.  Last, that the section edits implement the outline.          *)
(***************************************************************************)
EXTENDS Navigation, Markdown_proofs

LEMMA CutIs ==
    ASSUME NEW s, NEW t, IsText(s), IsText(t),
           NEW b \in Nat, NEW c \in Nat, b <= c, c <= Len(s),
           NEW p, p = Patch(b, c, t), NEW q, q = InOrder(<<p>>)
    PROVE  /\ q = <<p>>
           /\ IsText(Splice(s, q))
           /\ IsCut(Splice(s, q), s, b, c, t)
<1>1. PICK V : s \in Seq(V) /\ t \in Seq(V)
  BY TextsTogether
<1>2. Len(s) \in Nat /\ Len(t) \in Nat
  BY <1>1
<1>3. p \in Patches(V) /\ Valid(p, Len(s)) /\ p.start = b /\ p.end = c /\ p.text = t
  BY <1>1, <1>2 DEF Patch, Patches, Valid
<1>4. q = <<p>> /\ LaidOut(q, Len(s)) /\ q \in Seq(Patches(V))
  BY <1>2, <1>3, OneInOrder
<1>5. Len(q) = 1 /\ q[1] = p
  BY <1>4
<1> DEFINE a == Splice(s, q)
           x == Len(t) - (c - b)
<1>6. PrefixDelta(q, 0) = 0 /\ PrefixDelta(q, 1) = x
  BY <1>3, <1>4, OneDelta DEF Delta
<1>7. /\ a \in Seq(V) /\ Lengths(a, s, q) /\ GapsKept(a, s, q) /\ TextsWritten(a, q)
  BY <1>1, <1>4, SpliceIs
<1> HIDE DEF a
<1>8. Cursor(q, 0) = 0 /\ Limit(q, 0, Len(s)) = b /\ Cursor(q, 1) = c
      /\ Limit(q, 1, Len(s)) = Len(s)
  BY <1>3, <1>5 DEF Cursor, Limit
<1>9. Len(a) = Len(s) + x
  BY <1>5, <1>6, <1>7 DEF Lengths
<1>10. ASSUME NEW i \in 1..b PROVE a[i] = s[i]
  <2>1. 0 \in 0..Len(q) /\ i - 1 \in Int /\ Between(q, 0, Len(s), i - 1)
    BY <1>5, <1>8 DEF Between
  <2>2. a[(i - 1) + PrefixDelta(q, 0) + 1] = s[(i - 1) + 1]
    BY <1>7, <2>1 DEF GapsKept
  <2>3. (i - 1) + PrefixDelta(q, 0) + 1 = i /\ (i - 1) + 1 = i
    BY <1>6
  <2> QED
    BY <2>2, <2>3
<1>11. ASSUME NEW i \in 1..Len(t) PROVE a[b + i] = t[i]
  <2>1. 1 \in 1..Len(q) /\ 1 - 1 = 0 /\ q[1].start = b /\ q[1].text = t
    BY <1>3, <1>5
  <2>2. \A j \in 1..Len(q[1].text) : a[q[1].start + PrefixDelta(q, 1 - 1) + j] = q[1].text[j]
    BY <1>7, <2>1 DEF TextsWritten
  <2>3. a[b + PrefixDelta(q, 0) + i] = t[i]
    BY <2>1, <2>2
  <2>4. b + PrefixDelta(q, 0) + i = b + i
    BY <1>2, <1>6
  <2> QED
    BY <2>3, <2>4
<1>12. ASSUME NEW i \in (c + 1)..Len(s) PROVE a[i + x] = s[i]
  <2>1. 1 \in 0..Len(q) /\ i - 1 \in Int /\ Between(q, 1, Len(s), i - 1)
    BY <1>2, <1>5, <1>8 DEF Between
  <2>2. a[(i - 1) + PrefixDelta(q, 1) + 1] = s[(i - 1) + 1]
    BY <1>7, <2>1 DEF GapsKept
  <2>3. (i - 1) + PrefixDelta(q, 1) + 1 = i + x /\ (i - 1) + 1 = i
    BY <1>2, <1>6
  <2> QED
    BY <2>2, <2>3
<1>13. IsText(a)
  BY <1>7 DEF IsText
<1> QED
  BY <1>4, <1>9, <1>10, <1>11, <1>12, <1>13 DEF a, IsCut

-----------------------------------------------------------------------------
LEMMA ForestIs ==
    ASSUME NEW d, IsDocument(d)
    PROVE  ForestOf(d) = [k \in 1..Len(d.sections) |-> Entry(d, k)]
BY DEF ForestOf, Entry, IsDocument, Bytes

-----------------------------------------------------------------------------
LEMMA PreambleIs ==
    ASSUME NEW d, IsDocument(d)
    PROVE  PreambleOf(d) = SubSeq(d.source, 1, StartOf(d, 1))
<1> DEFINE n == Len(d.sections)
<1>1. n \in Nat /\ DOMAIN d.sections = 1..n /\ Len(d.source) \in Nat
      /\ d.sections = [k \in 1..n |-> d.sections[k]]
  BY StartsIn DEF IsDocument
<1>2. CASE n = 0
  <2>1. d.sections = << >>
    BY <1>1, <1>2
  <2>2. StartOf(d, 1) = Len(d.source)
    BY <1>2 DEF StartOf
  <2>3. SubSeq(d.source, 1, Len(d.source)) = d.source
    <3>1. PICK V : d.source \in Seq(V)
      BY DEF IsDocument, IsText
    <3> QED
      BY <3>1
  <2> QED
    BY <2>1, <2>2, <2>3 DEF PreambleOf
<1>3. CASE n # 0
  <2>1. 1 \in 1..n /\ d.sections # << >>
    BY <1>1, <1>3
  <2>2. StartOf(d, 1) = d.sections[1].range.start
    BY <2>1, PartsLie
  <2> QED
    BY <2>1, <2>2 DEF PreambleOf
<1> QED
  BY <1>2, <1>3

-----------------------------------------------------------------------------
\* z is p, then q, then r.
LEMMA ThreeParts ==
    ASSUME NEW V, NEW p \in Seq(V), NEW q \in Seq(V), NEW r \in Seq(V), NEW z \in Seq(V),
           NEW a \in Nat, OfLength(p, a), NEW b \in Nat, OfLength(q, b),
           NEW w \in Nat, OfLength(r, w), OfLength(z, (a + b) + w),
           \A k \in 1..a : z[k] = p[k],
           \A k \in 1..b : z[k + a] = q[k],
           \A k \in 1..w : z[k + (a + b)] = r[k]
    PROVE  z = p \o q \o r
<1> DEFINE u == p \o q
           y == u \o r
<1>1. u \in Seq(V) /\ IsJoin(u, p, q, a, b)
  BY TwoParts, Zenon
<1> HIDE DEF u
<1>2. OfLength(u, a + b)
  BY <1>1 DEF IsJoin
<1>3. y \in Seq(V) /\ IsJoin(y, u, r, a + b, w)
  <2>1. a + b \in Nat
    OBVIOUS
  <2> QED
    BY <1>1, <1>2, <2>1, TwoParts, Zenon
<1> HIDE DEF y
<1>4. ASSUME NEW k \in 1..((a + b) + w) PROVE z[k] = y[k]
  <2>1. k \in 1..a \/ (k - a \in 1..b /\ (k - a) + a = k /\ a + (k - a) = k)
        \/ (k - (a + b) \in 1..w /\ (k - (a + b)) + (a + b) = k
            /\ (a + b) + (k - (a + b)) = k)
    OBVIOUS
  <2>2. CASE k \in 1..a
    <3>1. k \in 1..(a + b)
      BY <2>2
    <3> QED
      BY <1>1, <1>3, <2>2, <3>1 DEF IsJoin
  <2>3. CASE k - a \in 1..b /\ (k - a) + a = k /\ a + (k - a) = k
    <3>1. k \in 1..(a + b)
      BY <2>3
    <3>2. z[(k - a) + a] = q[k - a] /\ u[a + (k - a)] = q[k - a]
      BY <1>1, <2>3 DEF IsJoin
    <3> QED
      BY <1>3, <2>3, <3>1, <3>2 DEF IsJoin
  <2>4. CASE /\ k - (a + b) \in 1..w /\ (k - (a + b)) + (a + b) = k
             /\ (a + b) + (k - (a + b)) = k
    <3>1. /\ z[(k - (a + b)) + (a + b)] = r[k - (a + b)]
          /\ y[(a + b) + (k - (a + b))] = r[k - (a + b)]
      BY <1>3, <2>4 DEF IsJoin
    <3> QED
      BY <2>4, <3>1
  <2> QED
    BY <2>1, <2>2, <2>3, <2>4
<1>5. Len(z) = Len(y)
  BY <1>3 DEF OfLength, IsJoin
<1>6. Len(z) = (a + b) + w
  BY DEF OfLength
<1>7. z = y
  BY <1>3, <1>4, <1>5, <1>6, SameSequences
<1> QED
  BY <1>7 DEF y, u

\* The sections of d outside i..(l - 1) and those of f are those of e.
Kept(d, e, f, i, l, n, c, y) ==
    /\ \A k \in 1..(i - 1) : Entry(e, k) = Entry(d, k)
    /\ \A k \in 1..c : Entry(e, k + (i - 1)) = Entry(f, k)
    /\ \A k \in l..n : Entry(e, k + y) = Entry(d, k)
    /\ PreambleOf(e) = PreambleOf(d)

LEMMA GraftedEntries ==
    ASSUME NEW d, NEW e, NEW f, IsDocument(d), IsDocument(e), IsDocument(f),
           NEW n \in Nat, Counted(d, n), NEW c \in Nat, Counted(f, c),
           NEW z \in Nat, Long(f, z),
           NEW i \in 1..(n + 1), NEW l \in i..(n + 1), Grafted(d, e, f, i, l),
           NEW a \in Nat, a = StartOf(d, i), NEW b \in Nat, b = StartOf(d, l),
           NEW x \in Int, x = z - (b - a), NEW y \in Int, y = c - (l - i)
    PROVE  Kept(d, e, f, i, l, n, c, y)
<1>1. /\ Counted(e, n + y)
      /\ \A k \in 1..i : StartOf(e, k) = StartOf(d, k)
      /\ \A k \in 1..(c + 1) : StartOf(e, k + (i - 1)) = StartOf(f, k) + a
      /\ \A k \in l..(n + 1) : StartOf(e, k + y) = StartOf(d, k) + x
  BY GraftedStarts
<1>2. /\ 1 <= i /\ i <= l /\ l <= n + 1 /\ i \in Nat /\ l \in Nat
      /\ n + y = n + (c - (l - i))
  OBVIOUS
<1>3. /\ \A k \in 1..(i - 1) : Synced(d, k, e, k, 0)
      /\ \A k \in 1..c : Synced(f, k, e, k + (i - 1), a)
      /\ \A k \in l..n : Synced(d, k, e, k + y, x)
  BY DEF Grafted, Counted, Long
<1>4. PICK w \in Nat : Long(d, w)
  <2>1. Len(d.source) \in Nat
    BY StartsIn
  <2> QED
    BY <2>1 DEF Long
<1>5. /\ Long(e, w + x)
      /\ \A j \in 1..a : e.source[j] = d.source[j]
      /\ \A j \in 1..z : e.source[a + j] = f.source[j]
      /\ \A j \in (b + 1)..w : e.source[j + x] = d.source[j]
  BY <1>4 DEF Grafted, IsCut, Long
<1>6. /\ \A k \in 1..(n + 1) : StartOf(d, k) \in Nat /\ StartOf(d, k) <= w
      /\ \A k, m \in 1..(n + 1) : k < m => StartOf(d, k) <= StartOf(d, m)
      /\ \A k \in 1..(c + 1) : StartOf(f, k) \in Nat /\ StartOf(f, k) <= z
  BY <1>4, StartsIn DEF Counted, Long
<1>7. ASSUME NEW k \in 1..(i - 1) PROVE Entry(e, k) = Entry(d, k)
  <2>1. k \in 1..n /\ k \in 1..(n + y) /\ k + 1 \in 1..i /\ k + 1 \in 1..(n + 1)
        /\ i \in 1..(n + 1)
    BY <1>2
  <2>2. k \in 1..Len(d.sections) /\ k \in 1..Len(e.sections)
    BY <1>1, <2>1 DEF Counted
  <2>3. StartOf(e, k + 1) = StartOf(d, k + 1) + 0
    BY <1>1, <1>6, <2>1
  <2>4. StartOf(d, k + 1) <= a /\ StartOf(d, k) \in Nat /\ StartOf(d, k + 1) \in Nat
    BY <1>6, <2>1
  <2>5. \A j \in (StartOf(d, k) + 1)..StartOf(d, k + 1) : e.source[j + 0] = d.source[j]
    BY <1>5, <2>4
  <2>6. Copied(d, k, e, k, 0)
    BY <1>3, <2>3, <2>5 DEF Copied
  <2> QED
    BY <1>1, <2>1, <2>6, SameEntry
<1>8. ASSUME NEW k \in 1..c PROVE Entry(e, k + (i - 1)) = Entry(f, k)
  <2>1. PICK h \in Int : h = k + (i - 1)
    BY <1>2
  <2>2. h \in 1..(n + y) /\ k + 1 \in 1..(c + 1) /\ (k + 1) + (i - 1) = h + 1
        /\ k \in 1..(c + 1)
    BY <1>2, <2>1
  <2>3. k \in 1..Len(f.sections) /\ h \in 1..Len(e.sections)
    BY <1>1, <2>2 DEF Counted
  <2>4. StartOf(e, h + 1) = StartOf(f, k + 1) + a
    BY <1>1, <2>2
  <2>5. StartOf(f, k + 1) <= z /\ StartOf(f, k) \in Nat /\ StartOf(f, k + 1) \in Nat
    BY <1>6, <2>2
  <2>6. \A j \in (StartOf(f, k) + 1)..StartOf(f, k + 1) : e.source[j + a] = f.source[j]
    <3> TAKE j \in (StartOf(f, k) + 1)..StartOf(f, k + 1)
    <3>1. j \in 1..z /\ a + j = j + a
      BY <2>5
    <3> QED
      BY <1>5, <3>1
  <2>7. Synced(f, k, e, h, a)
    BY <1>3, <2>1
  <2>8. Entry(e, h) = Entry(f, k)
    <3>1. Copied(f, k, e, h, a)
      BY <2>4, <2>6, <2>7 DEF Copied
    <3> QED
      BY <3>1, <1>1, <2>2, SameEntry
  <2> QED
    BY <2>1, <2>8
<1>9. ASSUME NEW k \in l..n PROVE Entry(e, k + y) = Entry(d, k)
  <2>1. PICK h \in Int : h = k + y
    BY <1>2
  <2>2. /\ h \in 1..(n + y) /\ k + 1 \in l..(n + 1) /\ (k + 1) + y = h + 1
        /\ k \in 1..n /\ k \in 1..(n + 1) /\ k + 1 \in 1..(n + 1) /\ l \in 1..(n + 1)
        /\ (l < k \/ l = k)
    BY <1>2, <2>1
  <2>3. k \in 1..Len(d.sections) /\ h \in 1..Len(e.sections)
    BY <1>1, <2>2 DEF Counted
  <2>4. StartOf(e, h + 1) = StartOf(d, k + 1) + x
    BY <1>1, <2>2
  <2>5. b <= StartOf(d, k) /\ StartOf(d, k) \in Nat /\ StartOf(d, k + 1) \in Nat
        /\ StartOf(d, k + 1) <= w
    BY <1>6, <2>2
  <2>6. \A j \in (StartOf(d, k) + 1)..StartOf(d, k + 1) : e.source[j + x] = d.source[j]
    <3> TAKE j \in (StartOf(d, k) + 1)..StartOf(d, k + 1)
    <3>1. j \in (b + 1)..w
      BY <2>5
    <3> QED
      BY <1>5, <3>1
  <2>7. Synced(d, k, e, h, x)
    BY <1>3, <2>1
  <2>8. Entry(e, h) = Entry(d, k)
    <3>1. Copied(d, k, e, h, x)
      BY <2>4, <2>6, <2>7 DEF Copied
    <3> QED
      BY <3>1, <1>1, <2>2, SameEntry
  <2> QED
    BY <2>1, <2>8
<1>10. PreambleOf(e) = PreambleOf(d)
  <2>1. PICK g \in Nat : g = StartOf(d, 1)
    BY <1>6
  <2>2. g <= a /\ StartOf(e, 1) = g /\ g <= w
    <3>1. 1 \in 1..i /\ i \in 1..(n + 1) /\ 1 \in 1..(n + 1) /\ (1 < i \/ 1 = i)
      BY <1>2
    <3> QED
      BY <1>1, <1>6, <2>1, <3>1
  <2>3. \A j \in (0 + 1)..g : e.source[j + 0] = d.source[j]
    BY <1>5, <2>2
  <2>4. g <= Len(d.source) /\ g + 0 <= Len(e.source)
    <3>1. Long(e, w + x) /\ Long(d, w)
      BY <1>4, <1>5
    <3>2. b <= w /\ a <= b
      <4>1. l \in 1..(n + 1) /\ i \in 1..(n + 1) /\ (i < l \/ i = l)
        BY <1>2
      <4> QED
        BY <1>6, <4>1
    <3>3. g <= w + x /\ g + 0 = g
      BY <2>2, <3>2
    <3> QED
      BY <2>2, <3>1, <3>3 DEF Long
  <2>5. IsText(d.source) /\ IsText(e.source)
    BY DEF IsDocument
  <2>6. SubSeq(e.source, 0 + 0 + 1, g + 0) = SubSeq(d.source, 0 + 1, g)
    BY <2>3, <2>4, <2>5, SameBytes
  <2>7. SubSeq(e.source, 1, g) = SubSeq(d.source, 1, g)
    BY <2>6
  <2> QED
    BY <2>1, <2>2, <2>7, PreambleIs
<1> QED
  BY <1>7, <1>8, <1>9, <1>10 DEF Kept

-----------------------------------------------------------------------------
(***************************************************************************)
(* Titles, slugs and anchors of headings.                                  *)
(***************************************************************************)
LEMMA PartIs ==
    ASSUME NEW s, IsText(s), NEW a \in Nat, NEW b \in Nat, a <= b, b <= Len(s)
    PROVE  IsText(SubSeq(s, a + 1, b))
<1>1. PICK V : s \in Seq(V)
  BY DEF IsText
<1>2. IsPart(V, SubSeq(s, a + 1, b), s, a, b)
  BY <1>1, SubSeqIs
<1> QED
  BY <1>2 DEF IsText, IsPart

LEMMA TitleIs ==
    ASSUME NEW d, IsDocument(d), NEW k \in 1..Len(d.sections)
    PROVE  IsText(Title(d, k))
<1> DEFINE t == d.sections[k]
           a == t.heading.start
           b == t.heading.end
           c == ContentRange(t)
<1>1. /\ IsText(d.source) /\ Len(d.source) \in Nat
      /\ t.kind \in HeadingKinds /\ t.heading = [start |-> a, end |-> b]
      /\ a \in Nat /\ b \in Nat /\ a < b /\ b <= Len(d.source)
      /\ t.kind = "setext" => a + 3 <= b
  BY TextIs DEF IsDocument, SectionLies
<1>2. /\ t.kind = "atx" => c = [start |-> a + 1, end |-> b]
      /\ t.kind # "atx" => c = [start |-> a, end |-> b - 2]
  <2> HIDE DEF t, a, b
  <2>1. t.kind = "atx" => c = [start |-> a + 1, end |-> b]
    BY <1>1 DEF ContentRange
  <2>2. t.kind # "atx" => c = [start |-> a, end |-> b - 2]
    BY <1>1 DEF ContentRange
  <2> QED
    BY <2>1, <2>2
<1> HIDE DEF t, a, b, c
<1>3. c.start \in Nat /\ c.end \in Nat /\ c.start <= c.end /\ c.end <= Len(d.source)
  <2>1. CASE t.kind = "atx"
    BY <1>1, <1>2, <2>1
  <2>2. CASE t.kind # "atx"
    BY <1>1, <1>2, <2>2 DEF HeadingKinds
  <2> QED
    BY <2>1, <2>2
<1>4. IsText(SubSeq(d.source, c.start + 1, c.end))
  BY <1>1, <1>3, PartIs
<1> QED
  BY <1>4 DEF Title, Bytes, c, t

LEMMA SlugIs ==
    ASSUME NEW title, IsText(title)
    PROVE  IsText(githubHeadingSlug(title))
<1> DEFINE W == UNION {ToSet(Slug[t]) : t \in DOMAIN Slug}
           n == Len(title)
           f == [k \in 1..n |-> IF title[k] \in DOMAIN Slug THEN Slug[title[k]] ELSE << >>]
           g == [k \in DOMAIN title |-> IF title[k] \in DOMAIN Slug THEN Slug[title[k]]
                                        ELSE << >>]
<1>1. n \in Nat /\ DOMAIN title = 1..n
  BY TextIs
<1>2. \A k \in 1..n : f[k] \in Seq(W)
  <2> TAKE k \in 1..n
  <2>1. CASE title[k] \in DOMAIN Slug
    <3>1. f[k] = Slug[title[k]] /\ f[k] \in Seq(ToSet(f[k]))
      BY <2>1, TitleAssumption
    <3>2. ToSet(f[k]) \subseteq W
      BY <2>1, <3>1
    <3> HIDE DEF f, W
    <3> QED
      BY <3>1, <3>2
  <2>2. CASE title[k] \notin DOMAIN Slug
    <3>1. f[k] = << >>
      BY <2>2
    <3> HIDE DEF f, W
    <3> QED
      BY <3>1
  <2> QED
    BY <2>1, <2>2
<1>3. f = g
  BY <1>1
<1>4. [k \in 1..n |-> f[k]] = f
  OBVIOUS
<1>5. githubHeadingSlug(title) = FlattenSeq(g)
  BY DEF githubHeadingSlug
<1> HIDE DEF f, g, W, n
<1>6. f \in Seq(Seq(W))
  <2>1. [k \in 1..n |-> f[k]] \in Seq(Seq(W))
    BY <1>1, <1>2, SequenceIs
  <2> QED
    BY <1>4, <2>1
<1>7. FlattenSeq(f) \in Seq(W)
  BY <1>6, FlattenType
<1> QED
  BY <1>3, <1>5, <1>7 DEF IsText

LEMMA SuffixedIs ==
    ASSUME NEW base, IsText(base), NEW n
    PROVE  IsText(Suffixed(base, n))
<1>1. PICK T : base \in Seq(T)
  BY DEF IsText
<1> DEFINE x == Suffix[n]
           V == T \cup {x}
<1>2. base \in Seq(V) /\ x \in V
  BY <1>1
<1> HIDE DEF x, V
<1>3. Append(base, x) \in Seq(V)
  BY <1>2
<1> QED
  BY <1>3 DEF Suffixed, IsText, x

\* strconv.Itoa writes every number.
EverySuffix == Nat \ {0} \subseteq DOMAIN Suffix

LEMMA SuffixesDiffer ==
    ASSUME EverySuffix, NEW base, IsText(base),
           NEW m \in Nat \ {0}, NEW n \in Nat \ {0}, Suffixed(base, m) = Suffixed(base, n)
    PROVE  m = n
<1>1. PICK T : base \in Seq(T)
  BY DEF IsText
<1> DEFINE x == Suffix[m]
           y == Suffix[n]
           l == Len(base) + 1
<1>2. Append(base, x)[l] = x /\ Append(base, y)[l] = y
  BY <1>1
<1>3. x = y
  <2>1. Append(base, x) = Append(base, y)
    BY DEF Suffixed
  <2> HIDE DEF x, y, l
  <2> QED
    BY <1>2, <2>1
<1>4. m \in DOMAIN Suffix /\ n \in DOMAIN Suffix
  BY DEF EverySuffix
<1> QED
  BY <1>3, <1>4, SuffixAssumption

\* The first suffix that is free, looked for behind u suffixes that are not.
FreeBehind(base, D, u) ==
    Min({n \in (u + 1)..((u + Cardinality(D)) + 1) : Suffixed(base, n) \notin D})

IsFree(base, D, m) ==
    /\ m \in Nat /\ m > 0
    /\ Suffixed(base, m) \notin D
    /\ \A n \in 1..(m - 1) : Suffixed(base, n) \in D

LEMMA FreeIs ==
    ASSUME EverySuffix, NEW D, IsFiniteSet(D), NEW base, IsText(base), NEW u \in Nat,
           \A n \in 1..u : Suffixed(base, n) \in D
    PROVE  IsFree(base, D, FreeBehind(base, D, u))
<1> DEFINE c == Cardinality(D)
           S == {n \in (u + 1)..((u + c) + 1) : Suffixed(base, n) \notin D}
           I == (u + 1)..((u + c) + 1)
           f == [n \in I |-> Suffixed(base, n)]
<1>1. c \in Nat
  BY FS_CardinalityType
<1> HIDE DEF c
<1>2. S # {}
  <2> SUFFICES ASSUME S = {} PROVE FALSE
    OBVIOUS
  <2>1. f \in [I -> D]
    OBVIOUS
  <2>2. IsFiniteSet(I) /\ Cardinality(I) = c + 1
    <3>1. u + 1 \in Int /\ (u + c) + 1 \in Int
          /\ ~(u + 1 > (u + c) + 1) /\ ((u + c) + 1) - (u + 1) + 1 = c + 1
      BY <1>1
    <3> QED
      BY <3>1, FS_Interval
  <2>3. c < c + 1
    BY <1>1
  <2> HIDE DEF f
  <2>4. \E x, y \in I : x # y /\ f[x] = f[y]
    <3> HIDE DEF I
    <3> QED
      BY <2>1, <2>2, <2>3, FS_PigeonHole DEF c
  <2>5. PICK x, y \in I : x # y /\ f[x] = f[y]
    BY <2>4
  <2>6. x \in Nat \ {0} /\ y \in Nat \ {0}
    BY <1>1
  <2>7. Suffixed(base, x) = Suffixed(base, y)
    BY <2>5 DEF f
  <2> QED
    BY <2>5, <2>6, <2>7, SuffixesDiffer
<1>3. S \in SUBSET Nat
  BY <1>1
<1> DEFINE m == Min(S)
<1>4. m \in S /\ \A x \in S : m <= x
  <2> HIDE DEF S
  <2> QED
    BY <1>2, <1>3, MinIs
<1>5. m = FreeBehind(base, D, u)
  BY DEF FreeBehind, c
<1> HIDE DEF m
<1>6. m \in Nat /\ m > 0 /\ m <= (u + c) + 1 /\ Suffixed(base, m) \notin D
  BY <1>1, <1>4
<1>7. ASSUME NEW n \in 1..(m - 1) PROVE Suffixed(base, n) \in D
  <2>1. CASE n <= u
    <3>1. n \in 1..u
      BY <1>6, <2>1
    <3> QED
      BY <3>1
  <2>2. CASE ~(n <= u)
    <3>1. n \in (u + 1)..((u + c) + 1) /\ ~(m <= n)
      BY <1>1, <1>6, <2>2
    <3> QED
      BY <1>4, <3>1
  <2> QED
    BY <2>1, <2>2
<1> QED
  BY <1>5, <1>6, <1>7 DEF IsFree

LEMMA FreeUnique ==
    ASSUME NEW D, NEW base, NEW m, NEW n, IsFree(base, D, m), IsFree(base, D, n)
    PROVE  m = n
<1>1. ~(m < n)
  <2>1. m < n => m \in 1..(n - 1)
    BY DEF IsFree
  <2> QED
    BY <2>1 DEF IsFree
<1>2. ~(n < m)
  <2>1. n < m => n \in 1..(m - 1)
    BY DEF IsFree
  <2> QED
    BY <2>1 DEF IsFree
<1> QED
  BY <1>1, <1>2 DEF IsFree

-----------------------------------------------------------------------------
(***************************************************************************)
(* The anchors so far, and what HeadingAnchors remembers of them.          *)
(***************************************************************************)
SlugOf(d, k) == githubHeadingSlug(Title(d, k))

AnchorStep(d, st, k) ==
    LET slug == uniqueHeadingSlug(githubHeadingSlug(Title(d, k)), st.used)
    IN [anchors |-> Append(st.anchors, slug.value), used |-> slug.used]

NoAnchors == [anchors |-> << >>, used |-> [x \in {} |-> 0]]

AnchorRun(d, g) ==
    g = [k \in 0..Len(d.sections) |->
            IF k = 0 THEN NoAnchors ELSE AnchorStep(d, g[k - 1], k)]

LEMMA AnchorRunExists ==
    ASSUME NEW d, Len(d.sections) \in Nat
    PROVE  \E g : AnchorRun(d, g) /\ HeadingAnchors(d) = g[Len(d.sections)].anchors
<1> DEFINE n == Len(d.sections)
           P(g, m) == g = [k \in 0..m |-> IF k = 0 THEN NoAnchors
                                          ELSE AnchorStep(d, g[k - 1], k)]
           X == {m \in Nat : \E g : P(g, m)}
           f == CHOOSE g : P(g, n)
<1>1. 0 \in X
  <2>1. P([k \in 0..0 |-> NoAnchors], 0)
    OBVIOUS
  <2> QED
    BY <2>1
<1>2. ASSUME NEW m \in Nat, m \in X PROVE m + 1 \in X
  <2>1. PICK g : P(g, m)
    BY <1>2
  <2> DEFINE l == m + 1
             h == [k \in 0..l |-> IF k = l THEN AnchorStep(d, g[m], l) ELSE g[k]]
  <2>2. l \in Nat /\ l # 0 /\ l - 1 = m /\ \A k \in 0..l : k = l \/ k \in 0..m
    OBVIOUS
  <2>3. \A k \in 0..m : g[k] = IF k = 0 THEN NoAnchors ELSE AnchorStep(d, g[k - 1], k)
    BY <2>1
  <2>4. \A k \in 0..m : h[k] = g[k] /\ (k # 0 => k - 1 \in 0..m)
    OBVIOUS
  <2>5. h[l] = AnchorStep(d, g[m], l) /\ m \in 0..m
    OBVIOUS
  <2>6. h = [k \in 0..l |-> h[k]]
    OBVIOUS
  <2> HIDE DEF h, l
  <2>7. \A k \in 0..l : h[k] = IF k = 0 THEN NoAnchors ELSE AnchorStep(d, h[k - 1], k)
    <3> TAKE k \in 0..l
    <3>1. CASE k = l
      BY <2>2, <2>4, <2>5, <3>1
    <3>2. CASE k \in 0..m
      <4>1. k # 0 => h[k - 1] = g[k - 1]
        BY <2>4, <3>2
      <4> QED
        BY <2>3, <2>4, <3>2, <4>1
    <3> QED
      BY <2>2, <3>1, <3>2
  <2>8. P(h, l)
    BY <2>6, <2>7
  <2>9. l \in X
    <3> HIDE DEF P
    <3> QED
      BY <2>2, <2>8
  <2> QED
    BY <2>9 DEF l
<1>3. Nat \subseteq X
  <2> HIDE DEF X
  <2> QED
    BY <1>1, <1>2, NatSetInduction
<1>4. \E g : P(g, n)
  BY <1>3
<1>5. P(f, n)
  <2> HIDE DEF P
  <2> QED
    BY <1>4
<1>6. HeadingAnchors(d) = f[n].anchors
  BY DEF HeadingAnchors, AnchorStep, NoAnchors
<1> HIDE DEF f
<1>7. AnchorRun(d, f)
  BY <1>5 DEF AnchorRun
<1> QED
  BY <1>6, <1>7

\* The anchors so far are texts, and each is in use.
Anchored(st, k) ==
    /\ \E X : st.anchors \in Seq(X) /\ \A x \in X : IsText(x)
    /\ OfLength(st.anchors, k)
    /\ DOMAIN st.used = FirstValues(st.anchors, k)

\* Up to the last suffix tried for a base, every suffix is taken.
Tried(used) ==
    \A b \in DOMAIN used :
        /\ used[b] \in Nat
        /\ \A n \in 1..used[b] : Suffixed(b, n) \in DOMAIN used

Leasts(d, st, k) ==
    \A j \in 1..k : st.anchors[j] = LeastFree(SlugOf(d, j), FirstValues(st.anchors, j - 1))

LEMMA ValuesAppend ==
    ASSUME NEW X, NEW a \in Seq(X), NEW x, NEW k \in Nat, OfLength(a, k)
    PROVE  /\ OfLength(Append(a, x), k + 1)
           /\ Append(a, x)[k + 1] = x
           /\ \A j \in 1..k : Append(a, x)[j] = a[j]
           /\ \A j \in 0..k : FirstValues(Append(a, x), j) = FirstValues(a, j)
           /\ FirstValues(Append(a, x), k + 1) = FirstValues(a, k) \cup {x}
<1> DEFINE b == Append(a, x)
<1>1. Len(a) = k
  BY DEF OfLength
<1>2. Len(b) = k + 1 /\ b[k + 1] = x /\ \A j \in 1..k : b[j] = a[j]
  BY <1>1
<1> HIDE DEF b
<1>3. ASSUME NEW j \in 0..k PROVE FirstValues(b, j) = FirstValues(a, j)
  <2>1. \A i \in 1..j : b[i] = a[i]
    BY <1>2
  <2> QED
    BY <2>1 DEF FirstValues
<1>4. FirstValues(b, k + 1) = FirstValues(a, k) \cup {x}
  <2>1. 1..(k + 1) = 1..k \cup {k + 1}
    OBVIOUS
  <2>2. FirstValues(b, k + 1) = FirstValues(b, k) \cup {x}
    BY <1>2, <2>1 DEF FirstValues
  <2>3. k \in 0..k
    OBVIOUS
  <2> QED
    BY <1>3, <2>2, <2>3
<1> QED
  BY <1>2, <1>3, <1>4 DEF b, OfLength

\* The value and the uses of the next slug.
LEMMA NextSlug ==
    ASSUME NEW base, IsText(base), NEW used, NEW slug, slug = uniqueHeadingSlug(base, used)
    PROVE  /\ IsText(slug.value)
           /\ DOMAIN slug.used = DOMAIN used \cup {slug.value}
<1>1. CASE base \notin DOMAIN used
  BY <1>1 DEF uniqueHeadingSlug, Using
<1>2. CASE base \in DOMAIN used
  <2> DEFINE n == FreeSuffix(base, used)
             v == Suffixed(base, n)
  <2>1. slug = [value |-> v, used |-> Register(used, base, n)]
    BY <1>2 DEF uniqueHeadingSlug
  <2>2. IsText(v)
    BY SuffixedIs
  <2> HIDE DEF n
  <2>3. DOMAIN Register(used, base, n) = DOMAIN used \cup {v}
    BY DEF Register, Using
  <2> HIDE DEF v
  <2> QED
    BY <2>1, <2>2, <2>3
<1> QED
  BY <1>1, <1>2

LEMMA AnchorKeeps ==
    ASSUME NEW d, NEW k \in Nat, IsText(SlugOf(d, k + 1)), NEW st, Anchored(st, k)
    PROVE  Anchored(AnchorStep(d, st, k + 1), k + 1)
<1> DEFINE slug == uniqueHeadingSlug(SlugOf(d, k + 1), st.used)
           v == slug.value
           n == AnchorStep(d, st, k + 1)
<1>1. n.anchors = Append(st.anchors, v) /\ n.used = slug.used
  BY DEF AnchorStep, SlugOf
<1>2. IsText(v) /\ DOMAIN slug.used = DOMAIN st.used \cup {v}
  BY NextSlug
<1> HIDE DEF slug, v, n
<1>3. PICK X : st.anchors \in Seq(X) /\ \A x \in X : IsText(x)
  BY DEF Anchored
<1> DEFINE Y == X \cup {v}
<1>4. st.anchors \in Seq(Y) /\ v \in Y /\ \A y \in Y : IsText(y)
  BY <1>2, <1>3
<1>5. n.anchors \in Seq(Y)
  <2> HIDE DEF Y
  <2> QED
    BY <1>1, <1>4
<1>6. /\ OfLength(n.anchors, k + 1)
      /\ FirstValues(n.anchors, k + 1) = FirstValues(st.anchors, k) \cup {v}
  <2>1. OfLength(st.anchors, k)
    BY DEF Anchored
  <2> DEFINE a == st.anchors
  <2>2. a \in Seq(X)
    BY <1>3
  <2> HIDE DEF a
  <2>3. /\ OfLength(Append(a, v), k + 1)
        /\ FirstValues(Append(a, v), k + 1) = FirstValues(a, k) \cup {v}
    BY <2>1, <2>2, ValuesAppend DEF a
  <2> QED
    BY <1>1, <2>3 DEF a
<1>7. DOMAIN n.used = FirstValues(n.anchors, k + 1)
  BY <1>1, <1>2, <1>6 DEF Anchored
<1> QED
  BY <1>4, <1>5, <1>6, <1>7 DEF n, Anchored

LEMMA SlugTried ==
    ASSUME EverySuffix, NEW base, IsText(base), NEW used,
           used = [b \in DOMAIN used |-> used[b]], IsFiniteSet(DOMAIN used), Tried(used),
           NEW slug, slug = uniqueHeadingSlug(base, used)
    PROVE  /\ Tried(slug.used)
           /\ slug.used = [b \in DOMAIN slug.used |-> slug.used[b]]
           /\ slug.value = LeastFree(base, DOMAIN used)
<1> DEFINE D == DOMAIN used
           c == Cardinality(D)
<1>1. CASE base \notin D
  <2>1. slug.value = base /\ slug.used = Using(used, base)
    BY <1>1 DEF uniqueHeadingSlug
  <2>2. slug.value = LeastFree(base, D)
    BY <1>1, <2>1 DEF LeastFree
  <2> DEFINE u == Using(used, base)
  <2>3. /\ DOMAIN u = D \cup {base} /\ u = [b \in DOMAIN u |-> u[b]]
        /\ u[base] = 0 /\ \A b \in D : u[b] = used[b]
    BY <1>1 DEF Using
  <2> HIDE DEF u
  <2>4. Tried(u)
    BY <2>3 DEF Tried
  <2> QED
    BY <2>1, <2>2, <2>3, <2>4 DEF u
<1>2. CASE base \in D
  <2> DEFINE m == FreeSuffix(base, used)
             v == Suffixed(base, m)
             u == Register(used, base, m)
             x == used[base]
  <2>1. slug.value = v /\ slug.used = u
    BY <1>2 DEF uniqueHeadingSlug
  <2>2. x \in Nat /\ \A n \in 1..x : Suffixed(base, n) \in D
    BY <1>2 DEF Tried
  <2>3. c \in Nat
    BY FS_CardinalityType
  <2>4. m = FreeBehind(base, D, x)
    BY DEF FreeSuffix, FreeBehind
  <2>5. IsFree(base, D, m)
    <3> HIDE DEF m, x, c
    <3> QED
      BY <2>2, <2>4, FreeIs
  <2>6. IsFree(base, D, FreeBehind(base, D, 0))
    BY FreeIs
  <2>7. FreeBehind(base, D, 0) = m
    <3> HIDE DEF m, D
    <3> QED
      BY <2>5, <2>6, FreeUnique
  <2>8. LeastFree(base, D) = Suffixed(base, FreeBehind(base, D, 0))
    <3>1. 0 + 1 = 1 /\ (0 + c) + 1 = c + 1
      BY <2>3
    <3> QED
      BY <1>2, <3>1 DEF LeastFree, FreeBehind
  <2>9. m \in Nat /\ v \notin D /\ \A n \in 1..(m - 1) : Suffixed(base, n) \in D
    BY <2>5 DEF IsFree
  <2> HIDE DEF m, x
  <2>10. /\ DOMAIN u = D \cup {v} /\ u = [b \in DOMAIN u |-> u[b]]
         /\ u[v] = 0 /\ u[base] = m /\ \A b \in D \ {base} : u[b] = used[b]
    BY <1>2, <2>9 DEF Register, Using
  <2>11. \A n \in 1..m : Suffixed(base, n) \in D \cup {v}
    <3> TAKE n \in 1..m
    <3>1. n \in 1..(m - 1) \/ n = m
      BY <2>9
    <3> QED
      BY <2>9, <3>1
  <2> HIDE DEF u
  <2>12. Tried(u)
    <3> SUFFICES ASSUME NEW b \in DOMAIN u
                 PROVE  u[b] \in Nat /\ \A n \in 1..u[b] : Suffixed(b, n) \in DOMAIN u
      BY DEF Tried
    <3>1. CASE b = v
      BY <2>10, <3>1
    <3>2. CASE b = base
      BY <2>9, <2>10, <2>11, <3>2
    <3>3. CASE b # v /\ b # base
      BY <2>10, <3>3 DEF Tried
    <3> QED
      BY <3>1, <3>2, <3>3
  <2> QED
    BY <2>1, <2>7, <2>8, <2>10, <2>12
<1> QED
  BY <1>1, <1>2

-----------------------------------------------------------------------------
\* What holds of the anchors and their uses after k headings.
Leastly(d, st, k) ==
    /\ st.used = [b \in DOMAIN st.used |-> st.used[b]]
    /\ Tried(st.used)
    /\ Leasts(d, st, k)

LEMMA LeastKeeps ==
    ASSUME EverySuffix, NEW d, NEW k \in Nat, IsText(SlugOf(d, k + 1)), NEW st,
           Anchored(st, k), Leastly(d, st, k)
    PROVE  Leastly(d, AnchorStep(d, st, k + 1), k + 1)
<1> DEFINE base == SlugOf(d, k + 1)
           used == st.used
           slug == uniqueHeadingSlug(base, used)
           v == slug.value
           a == st.anchors
           n == AnchorStep(d, st, k + 1)
<1>1. n.anchors = Append(a, v) /\ n.used = slug.used
  BY DEF AnchorStep, SlugOf
<1>2. PICK X : a \in Seq(X)
  BY DEF Anchored
<1>3. OfLength(a, k) /\ DOMAIN used = FirstValues(a, k)
  BY DEF Anchored
<1> HIDE DEF n, a
<1>4. IsFiniteSet(DOMAIN used)
  <2> DEFINE S == 1..k
             b == [i \in S |-> a[i]]
  <2>1. IsFiniteSet(S)
    BY FS_Interval
  <2>2. b \in Surjection(S, FirstValues(a, k))
    BY DEF Surjection, FirstValues
  <2> HIDE DEF b, S
  <2> QED
    BY <1>3, <2>1, <2>2, FS_Surjection
<1>5. /\ Tried(slug.used)
      /\ slug.used = [b \in DOMAIN slug.used |-> slug.used[b]]
      /\ v = LeastFree(base, DOMAIN used)
  <2>1. IsText(base) /\ used = [b \in DOMAIN used |-> used[b]] /\ Tried(used)
    BY DEF Leastly
  <2> HIDE DEF base, used
  <2> QED
    BY <1>4, <2>1, SlugTried
<1> HIDE DEF slug, v
<1> HIDE DEF base, used
<1>6. /\ Append(a, v)[k + 1] = v
      /\ \A j \in 1..k : Append(a, v)[j] = a[j]
      /\ \A j \in 0..k : FirstValues(Append(a, v), j) = FirstValues(a, j)
  <2>1. OfLength(a, k)
    BY <1>3
  <2>2. Append(a, v)[k + 1] = v
    BY ZenonT(40), <1>2, <2>1, ValuesAppend
  <2>3. \A j \in 1..k : Append(a, v)[j] = a[j]
    BY <1>2, <2>1 DEF OfLength
  <2>4. \A j \in 0..k : FirstValues(Append(a, v), j) = FirstValues(a, j)
    BY <1>2, <2>1, ValuesAppend
  <2> QED
    BY <2>2, <2>3, <2>4
<1>7. ASSUME NEW j \in 1..(k + 1)
      PROVE  n.anchors[j] = LeastFree(SlugOf(d, j), FirstValues(n.anchors, j - 1))
  <2>1. CASE j = k + 1
    <3>1. j - 1 = k /\ k \in 0..k
      BY <2>1
    <3>2. FirstValues(n.anchors, j - 1) = DOMAIN used
      BY <1>1, <1>3, <1>6, <3>1
    <3> QED
      BY <1>1, <1>5, <1>6, <2>1, <3>2 DEF base
  <2>2. CASE j # k + 1
    <3>1. j \in 1..k /\ j - 1 \in 0..k
      BY <2>2
    <3>2. n.anchors[j] = a[j] /\ FirstValues(n.anchors, j - 1) = FirstValues(a, j - 1)
      BY <1>1, <1>6, <3>1
    <3>3. a[j] = LeastFree(SlugOf(d, j), FirstValues(a, j - 1))
      BY <3>1 DEF Leastly, Leasts, a
    <3> QED
      BY <3>2, <3>3
  <2> QED
    BY <2>1, <2>2
<1>8. Leasts(d, n, k + 1)
  BY <1>7 DEF Leasts
<1> QED
  BY <1>1, <1>5, <1>8 DEF Leastly, n

LEMMA AnchorsAre ==
    ASSUME NEW d, IsDocument(d), NEW n \in Nat, Counted(d, n)
    PROVE  \E st : /\ HeadingAnchors(d) = st.anchors
                   /\ Anchored(st, n)
                   /\ EverySuffix => Leastly(d, st, n)
<1>1. PICK g : AnchorRun(d, g) /\ HeadingAnchors(d) = g[Len(d.sections)].anchors
  BY AnchorRunExists DEF Counted
<1>2. /\ \A k \in 0..n : g[k] = IF k = 0 THEN NoAnchors ELSE AnchorStep(d, g[k - 1], k)
      /\ HeadingAnchors(d) = g[n].anchors
  BY <1>1 DEF AnchorRun, Counted
<1>3. \A k \in 1..n : IsText(SlugOf(d, k))
  <2> TAKE k \in 1..n
  <2>1. IsText(Title(d, k))
    BY TitleIs DEF Counted
  <2> QED
    BY <2>1, SlugIs DEF SlugOf
<1> DEFINE Good(k) == Anchored(g[k], k) /\ (EverySuffix => Leastly(d, g[k], k))
           X == {k \in Nat : k \in 0..n => Good(k)}
<1>4. Anchored(NoAnchors, 0) /\ Leastly(d, NoAnchors, 0)
  <2> DEFINE nil == << >>
             none == [x \in {} |-> 0]
  <2>1. nil \in Seq({}) /\ Len(nil) = 0
    OBVIOUS
  <2>2. DOMAIN none = {} /\ none = [b \in DOMAIN none |-> none[b]]
    OBVIOUS
  <2>3. NoAnchors.anchors = nil /\ NoAnchors.used = none
    BY DEF NoAnchors
  <2>4. FirstValues(nil, 0) = {}
    BY DEF FirstValues
  <2> HIDE DEF nil, none
  <2>5. Anchored(NoAnchors, 0)
    BY <2>1, <2>2, <2>3, <2>4 DEF Anchored, OfLength
  <2>6. Leasts(d, NoAnchors, 0)
    BY DEF Leasts
  <2> QED
    BY <2>2, <2>3, <2>5, <2>6 DEF Leastly, Tried
<1>5. 0 \in X
  <2>1. 0 \in 0..n
    OBVIOUS
  <2>2. g[0] = NoAnchors
    BY <1>2, <2>1
  <2> QED
    BY <1>4, <2>2
<1>6. ASSUME NEW k \in Nat, k \in X PROVE k + 1 \in X
  <2> SUFFICES ASSUME k + 1 \in 0..n PROVE Good(k + 1)
    OBVIOUS
  <2>1. k \in 0..n /\ (k + 1) - 1 = k /\ k + 1 # 0 /\ k + 1 \in 1..n
    OBVIOUS
  <2>2. Anchored(g[k], k) /\ (EverySuffix => Leastly(d, g[k], k))
    BY <1>6, <2>1
  <2>3. g[k + 1] = AnchorStep(d, g[k], k + 1)
    BY <1>2, <2>1
  <2> HIDE DEF X
  <2>4. IsText(SlugOf(d, k + 1))
    BY <1>3, <2>1
  <2>5. Anchored(AnchorStep(d, g[k], k + 1), k + 1)
    BY <2>2, <2>4, AnchorKeeps
  <2>6. EverySuffix => Leastly(d, AnchorStep(d, g[k], k + 1), k + 1)
    BY <2>2, <2>4, LeastKeeps
  <2> QED
    BY <2>3, <2>5, <2>6
<1>7. Nat \subseteq X
  <2> HIDE DEF X
  <2> QED
    BY <1>5, <1>6, NatSetInduction
<1>8. Good(n)
  <2>1. n \in 0..n
    OBVIOUS
  <2> HIDE DEF Good
  <2> QED
    BY <1>7, <2>1
<1> QED
  BY <1>2, <1>8

(***************************************************************************)
(* The anchor of each heading is the slug of its title, with the least     *)
(* suffix that no heading before it has if one of them has the slug: what  *)
(* uniqueHeadingSlug remembers of each slug, the last suffix it tried, is  *)
(* enough to find it.                                                      *)
(***************************************************************************)
THEOREM AnchorsAreLeast ==
    ASSUME EverySuffix, NEW s, IsText(s), NEW d, d = Doc(s)
    PROVE  \A k \in DOMAIN d.sections :
              HeadingAnchors(d)[k] = LeastFree(githubHeadingSlug(Title(d, k)),
                                               {HeadingAnchors(d)[j] : j \in 1..(k - 1)})
<1>1. IsDocument(d)
  BY TextsMakeDocuments
<1>2. PICK n \in Nat : Counted(d, n) /\ DOMAIN d.sections = 1..n
  BY <1>1 DEF IsDocument, Counted
<1>3. PICK st : HeadingAnchors(d) = st.anchors /\ Leastly(d, st, n)
  BY <1>1, <1>2, AnchorsAre
<1> SUFFICES ASSUME NEW k \in 1..n
             PROVE  HeadingAnchors(d)[k] = LeastFree(githubHeadingSlug(Title(d, k)),
                                              {HeadingAnchors(d)[j] : j \in 1..(k - 1)})
  BY <1>2
<1>4. st.anchors[k] = LeastFree(SlugOf(d, k), FirstValues(st.anchors, k - 1))
  BY <1>3 DEF Leastly, Leasts
<1> QED
  BY <1>3, <1>4 DEF SlugOf, FirstValues

-----------------------------------------------------------------------------
(***************************************************************************)
(* Every change that is held lays its patches out in the document.         *)
(***************************************************************************)
\* The patches of q lie in the text s, and what they write are texts.
Fits(q, s) == \E V : s \in Seq(V) /\ q \in Seq(Patches(V)) /\ LaidOut(q, Len(s))

\* They are what a caller gave, in any order.
Given(patches, s) == \E V : s \in Seq(V) /\ patches \in Seq(Patches(V))

LEMMA FitsIs ==
    ASSUME NEW q, NEW s, Fits(q, s)
    PROVE  IsText(Splice(s, q))
<1>1. PICK V : s \in Seq(V) /\ q \in Seq(Patches(V)) /\ LaidOut(q, Len(s))
  BY DEF Fits
<1>2. Splice(s, q) \in Seq(V)
  BY <1>1, SpliceIs
<1> QED
  BY <1>2 DEF IsText

LEMMA GivenFits ==
    ASSUME NEW patches, NEW s, Given(patches, s), Accepted(Len(s), patches)
    PROVE  Fits(InOrder(patches), s)
<1>1. PICK V : s \in Seq(V) /\ patches \in Seq(Patches(V))
  BY DEF Given
<1> DEFINE q == InOrder(patches)
           n == Len(s)
<1>2. q \in Seq(Patches(V)) /\ LaidOut(q, n)
  <2> HIDE DEF q, n
  <2>1. q = InOrder(patches) /\ Accepted(n, patches)
    BY DEF q, n
  <2> QED
    BY <1>1, <2>1, AcceptedIs
<1> QED
  BY <1>1, <1>2 DEF Fits

LEMMA NoneFits ==
    ASSUME NEW s, IsText(s)
    PROVE  Fits(InOrder(<< >>), s)
<1>1. PICK V : s \in Seq(V)
  BY DEF IsText
<1> DEFINE nil == << >>
<1>2. nil \in Seq(Patches(V))
  OBVIOUS
<1>3. LaidOut(nil, Len(s)) /\ InOrder(nil) = nil
  BY NoPatch
<1> HIDE DEF nil
<1> QED
  BY <1>1, <1>2, <1>3 DEF Fits, nil

LEMMA OneFits ==
    ASSUME NEW s, IsText(s), NEW t, IsText(t),
           NEW b \in Nat, NEW c \in Nat, b <= c, c <= Len(s)
    PROVE  /\ Given(<<Patch(b, c, t)>>, s)
           /\ Fits(InOrder(<<Patch(b, c, t)>>), s)
           /\ InOrder(<<Patch(b, c, t)>>) = <<Patch(b, c, t)>>
<1>1. PICK V : s \in Seq(V) /\ t \in Seq(V)
  BY TextsTogether
<1> DEFINE p == Patch(b, c, t)
<1>2. p \in Patches(V) /\ Valid(p, Len(s)) /\ Len(s) \in Nat
  BY <1>1 DEF Patch, Patches, Valid
<1> HIDE DEF p
<1>3. InOrder(<<p>>) = <<p>> /\ LaidOut(<<p>>, Len(s)) /\ <<p>> \in Seq(Patches(V))
  BY <1>2, OneInOrder
<1>4. Given(<<p>>, s) /\ Fits(InOrder(<<p>>), s)
  BY <1>1, <1>3 DEF Fits, Given
<1> QED
  BY <1>3, <1>4 DEF p

LEMMA WiderPatches ==
    ASSUME NEW V, NEW W, V \subseteq W
    PROVE  Seq(V) \subseteq Seq(W) /\ Patches(V) \subseteq Patches(W)
           /\ Seq(Patches(V)) \subseteq Seq(Patches(W))
<1>1. Seq(V) \subseteq Seq(W)
  OBVIOUS
<1>2. Patches(V) \subseteq Patches(W)
  BY <1>1 DEF Patches
<1> DEFINE P == Patches(V)
           Q == Patches(W)
<1>3. Seq(P) \subseteq Seq(Q)
  <2>1. P \subseteq Q
    BY <1>2
  <2> HIDE DEF P, Q
  <2> QED
    BY <2>1
<1> QED
  BY <1>1, <1>2, <1>3

LEMMA BothGiven ==
    ASSUME NEW s, NEW p, NEW q, Given(p, s), Given(q, s)
    PROVE  Given(p \o q, s)
<1>1. PICK V : s \in Seq(V) /\ p \in Seq(Patches(V))
  BY DEF Given
<1>2. PICK W : s \in Seq(W) /\ q \in Seq(Patches(W))
  BY DEF Given
<1> DEFINE U == V \cup W
           P == Patches(U)
<1>3. s \in Seq(U) /\ p \in Seq(P) /\ q \in Seq(P)
  <2>1. V \subseteq U /\ W \subseteq U
    OBVIOUS
  <2> HIDE DEF U
  <2> QED
    BY <1>1, <1>2, <2>1, WiderPatches
<1> HIDE DEF U
<1>4. p \o q \in Seq(P)
  <2> HIDE DEF P
  <2> QED
    BY <1>3
<1> QED
  BY <1>3, <1>4 DEF Given

LEMMA OneMoreGiven ==
    ASSUME NEW s, NEW p, Given(p, s), NEW b \in Nat, NEW c \in Nat, NEW t, IsText(t)
    PROVE  Given(Append(p, Patch(b, c, t)), s)
<1>1. PICK V : s \in Seq(V) /\ p \in Seq(Patches(V))
  BY DEF Given
<1>2. PICK W : t \in Seq(W)
  BY DEF IsText
<1> DEFINE U == V \cup W
           P == Patches(U)
           x == Patch(b, c, t)
<1>3. s \in Seq(U) /\ p \in Seq(P) /\ t \in Seq(U)
  <2>1. V \subseteq U /\ W \subseteq U
    OBVIOUS
  <2> HIDE DEF U
  <2> QED
    BY <1>1, <1>2, <2>1, WiderPatches
<1> HIDE DEF U
<1>4. x \in P
  BY <1>3 DEF Patch, Patches
<1>5. Append(p, x) \in Seq(P)
  <2> HIDE DEF P, x
  <2> QED
    BY <1>3, <1>4
<1> QED
  BY <1>3, <1>5 DEF Given

-----------------------------------------------------------------------------
\* The document is what its text makes, and what is held fits it.
WellHeld ==
    /\ doc = Doc(doc.source)
    /\ IsText(doc.source)
    /\ \E S : pool \in Seq(S)
    /\ \A i \in DOMAIN pool : Fits(pool[i].change.patches, doc.source)

LEMMA DocumentIs ==
    ASSUME WellHeld
    PROVE  IsDocument(doc) /\ IsText(doc.source) /\ Len(doc.source) \in Nat
           /\ Targets = 1..Len(doc.sections) /\ Len(doc.sections) \in Nat
<1>1. IsDocument(Doc(doc.source)) /\ doc = Doc(doc.source)
  BY TextsMakeDocuments DEF WellHeld
<1>2. IsDocument(doc)
  BY <1>1, Zenon
<1> QED
  BY <1>2, TextIs DEF IsDocument, Targets, sections

LEMMA HoldKeepsTexts ==
    ASSUME WellHeld, NEW operation, NEW c, Hold(operation, c), Fits(c.patches, doc.source)
    PROVE  WellHeld'
<1> DEFINE x == [operations |-> <<operation>>, change |-> c]
           n == Len(pool)
<1>1. pool' = Append(pool, x) /\ doc' = doc
  BY DEF Hold
<1>2. x.change = c
  OBVIOUS
<1>3. PICK S : pool \in Seq(S)
  BY DEF WellHeld
<1> DEFINE T == S \cup {x}
<1>4. pool \in Seq(T) /\ x \in T
  BY <1>3
<1> HIDE DEF x, T
<1>5. /\ pool' \in Seq(T) /\ DOMAIN pool' = 1..(n + 1) /\ n \in Nat /\ DOMAIN pool = 1..n
      /\ pool'[n + 1] = x /\ \A i \in 1..n : pool'[i] = pool[i]
  BY <1>1, <1>4
<1> HIDE DEF n
<1>6. ASSUME NEW i \in DOMAIN pool' PROVE Fits(pool'[i].change.patches, doc.source)
  <2>1. i \in 1..n \/ i = n + 1
    BY <1>5
  <2>2. CASE i \in 1..n
    BY <1>5, <2>2 DEF WellHeld
  <2>3. CASE i = n + 1
    BY <1>2, <1>5, <2>3
  <2> QED
    BY <2>1, <2>2, <2>3
<1>7. doc' = Doc(doc'.source) /\ IsText(doc'.source)
  BY <1>1 DEF WellHeld
<1>8. \A i \in DOMAIN pool' : Fits(pool'[i].change.patches, doc'.source)
  BY <1>1, <1>6
<1> QED
  BY <1>5, <1>7, <1>8 DEF WellHeld

\* What a section's ranges are.
LEMMA RangeLies ==
    ASSUME NEW d, IsDocument(d), NEW k \in 1..Len(d.sections)
    PROVE  LET r == d.sections[k].range IN
           /\ r.start \in Nat /\ r.end \in Nat /\ r.start <= r.end /\ r.end <= Len(d.source)
           /\ r.start = StartOf(d, k)
           /\ \E l \in (k + 1)..(Len(d.sections) + 1) :
                 Closer(d.sections, k, l) /\ r.end = StartOf(d, l)
<1> DEFINE n == Len(d.sections)
           r == d.sections[k].range
<1>1. SectionLies(d, k) /\ n \in Nat
  BY DEF IsDocument
<1>2. PICK l : Closer(d.sections, k, l)
  BY <1>1 DEF SectionLies
<1>3. r = [start |-> d.sections[k].heading.start, end |-> StartOf(d, l)]
  BY <1>1, <1>2 DEF SectionLies
<1>4. StartOf(d, k) = d.sections[k].heading.start
  BY <1>1 DEF StartOf
<1>5. l \in (k + 1)..(n + 1)
  BY <1>2 DEF Closer
<1> HIDE DEF r
<1>6. r.start = StartOf(d, k) /\ r.end = StartOf(d, l)
  BY <1>3, <1>4
<1>7. /\ StartOf(d, k) \in Nat /\ StartOf(d, l) \in Nat
      /\ StartOf(d, k) <= StartOf(d, l) /\ StartOf(d, l) <= Len(d.source)
  <2>1. k \in 1..(n + 1) /\ l \in 1..(n + 1) /\ k < l
    BY <1>1, <1>5
  <2> HIDE DEF n
  <2> QED
    BY <2>1, StartsIn DEF n
<1> QED
  BY <1>2, <1>5, <1>6, <1>7 DEF r

LEMMA ContentLies ==
    ASSUME NEW d, IsDocument(d), NEW k \in 1..Len(d.sections)
    PROVE  LET c == ContentRange(d.sections[k]) IN
           /\ c.start \in Nat /\ c.end \in Nat /\ c.start <= c.end /\ c.end <= Len(d.source)
<1> DEFINE t == d.sections[k]
           a == t.heading.start
           b == t.heading.end
           c == ContentRange(t)
<1>1. /\ Len(d.source) \in Nat
      /\ t.kind \in HeadingKinds /\ t.heading = [start |-> a, end |-> b]
      /\ a \in Nat /\ b \in Nat /\ a < b /\ b <= Len(d.source)
      /\ t.kind = "setext" => a + 3 <= b
  BY TextIs DEF IsDocument, SectionLies
<1>2. /\ t.kind = "atx" => c = [start |-> a + 1, end |-> b]
      /\ t.kind # "atx" => c = [start |-> a, end |-> b - 2]
  <2> HIDE DEF t, a, b
  <2>1. t.kind = "atx" => c = [start |-> a + 1, end |-> b]
    BY <1>1 DEF ContentRange
  <2>2. t.kind # "atx" => c = [start |-> a, end |-> b - 2]
    BY <1>1 DEF ContentRange
  <2> QED
    BY <2>1, <2>2
<1> HIDE DEF t, a, b, c
<1>3. c.start \in Nat /\ c.end \in Nat /\ c.start <= c.end /\ c.end <= Len(d.source)
  <2>1. CASE t.kind = "atx"
    BY <1>1, <1>2, <2>1
  <2>2. CASE t.kind # "atx"
    BY <1>1, <1>2, <2>2 DEF HeadingKinds
  <2> QED
    BY <2>1, <2>2
<1> QED
  BY <1>3 DEF c, t

LEMMA GivenTexts ==
    \A t \in InitialTexts \cup ComposedTexts \cup Fragments \cup NewBodies : IsText(t)
BY TextAssumption DEF IsText

LEMMA NilIsText == IsText(<< >>)
<1>1. << >> \in Seq({})
  OBVIOUS
<1> QED
  BY <1>1 DEF IsText

-----------------------------------------------------------------------------
(***************************************************************************)
(* One change at a time.                                                   *)
(***************************************************************************)
LEMMA OnePatchKeeps ==
    ASSUME WellHeld, NEW operation, NEW b \in Nat, NEW c \in Nat, b <= c, c <= Len(doc.source),
           NEW t, IsText(t), Hold(operation, Change(<<Patch(b, c, t)>>))
    PROVE  WellHeld'
<1>1. Fits(InOrder(<<Patch(b, c, t)>>), doc.source)
  BY OneFits DEF WellHeld
<1>2. Change(<<Patch(b, c, t)>>).patches = InOrder(<<Patch(b, c, t)>>)
  BY DEF Change
<1>3. Fits(Change(<<Patch(b, c, t)>>).patches, doc.source)
  BY <1>1, <1>2
<1> QED
  BY <1>3, HoldKeepsTexts

LEMMA NoPatchKeeps ==
    ASSUME WellHeld, NEW operation, Hold(operation, Change(<< >>))
    PROVE  WellHeld'
<1> DEFINE c == Change(<< >>)
<1>1. Fits(InOrder(<< >>), doc.source)
  BY NoneFits DEF WellHeld
<1>2. c.patches = InOrder(<< >>)
  BY DEF Change
<1> HIDE DEF c
<1>3. Fits(c.patches, doc.source)
  BY <1>1, <1>2
<1>4. Hold(operation, c)
  BY DEF c
<1> QED
  BY <1>3, <1>4, HoldKeepsTexts

LEMMA RemoveKeepsTexts ==
    ASSUME WellHeld, NEW i \in Targets, PrepareRemoveSection(i)
    PROVE  WellHeld'
<1> DEFINE r == sections[i].range
<1>1. r.start \in Nat /\ r.end \in Nat /\ r.start <= r.end /\ r.end <= Len(doc.source)
  BY DocumentIs, RangeLies DEF sections
<1>2. Hold([kind |-> "remove", at |-> i], Change(<<Patch(r.start, r.end, << >>)>>))
  BY DEF PrepareRemoveSection
<1> HIDE DEF r
<1> QED
  BY <1>1, <1>2, NilIsText, OnePatchKeeps

LEMMA ReplaceKeepsTexts ==
    ASSUME WellHeld, NEW i \in Targets, NEW f \in Fragments, PrepareReplaceSection(i, f)
    PROVE  WellHeld'
<1> DEFINE r == sections[i].range
<1>1. r.start \in Nat /\ r.end \in Nat /\ r.start <= r.end /\ r.end <= Len(doc.source)
  BY DocumentIs, RangeLies DEF sections
<1>2. Hold([kind |-> "replace", at |-> i], Change(<<Patch(r.start, r.end, f)>>))
  BY DEF PrepareReplaceSection
<1> HIDE DEF r
<1> QED
  BY <1>1, <1>2, GivenTexts, OnePatchKeeps

LEMMA InsertKeepsTexts ==
    ASSUME WellHeld, NEW i \in Targets, NEW f \in Fragments, NEW after \in BOOLEAN,
           PrepareInsertSection(i, f, after)
    PROVE  WellHeld'
<1> DEFINE r == sections[i].range
           at == IF after THEN r.end ELSE r.start
<1>1. r.start \in Nat /\ r.end \in Nat /\ r.start <= r.end /\ r.end <= Len(doc.source)
  BY DocumentIs, RangeLies DEF sections
<1>2. Hold([kind |-> "insert", at |-> i], Change(<<Patch(at, at, f)>>))
  BY DEF PrepareInsertSection
<1> HIDE DEF r
<1>3. at \in Nat /\ at <= Len(doc.source) /\ at <= at
  BY <1>1, DocumentIs
<1> HIDE DEF at
<1> QED
  BY <1>2, <1>3, GivenTexts, OnePatchKeeps

LEMMA ChildKeepsTexts ==
    ASSUME WellHeld, NEW i \in Targets, NEW f \in Fragments, PrepareAppendSectionChild(i, f)
    PROVE  WellHeld'
<1> DEFINE at == sections[i].range.end
<1>1. at \in Nat /\ at <= Len(doc.source)
  BY DocumentIs, RangeLies DEF sections
<1>2. Hold([kind |-> "child", at |-> i, fragment |-> f], Change(<<Patch(at, at, f)>>))
  BY DEF PrepareAppendSectionChild
<1> HIDE DEF at
<1>3. at <= at
  BY <1>1
<1> QED
  BY <1>1, <1>2, <1>3, GivenTexts, OnePatchKeeps

LEMMA BodyPatchLies ==
    ASSUME NEW d, IsDocument(d), NEW k \in 1..Len(d.sections)
    PROVE  LET r == d.sections[k].bodyRange IN
           r.start \in Nat /\ r.end \in Nat /\ r.start <= r.end /\ r.end <= Len(d.source)
BY PartsLie

LEMMA BodyKeepsTexts ==
    ASSUME WellHeld, NEW i \in Targets, NEW body \in NewBodies, PrepareReplaceSectionBody(i, body)
    PROVE  WellHeld'
<1> DEFINE r == doc.sections[i].bodyRange
<1>1. r.start \in Nat /\ r.end \in Nat /\ r.start <= r.end /\ r.end <= Len(doc.source)
  BY DocumentIs, BodyPatchLies
<1>2. Hold([kind |-> "body", at |-> i], Change(<<Patch(r.start, r.end, body)>>))
  BY DEF PrepareReplaceSectionBody, BodyPatch
<1> HIDE DEF r
<1> QED
  BY <1>1, <1>2, GivenTexts, OnePatchKeeps

LEMMA DefinitionKeepsTexts ==
    ASSUME WellHeld, NEW label \in Definitions, PrepareAppendDefinition(label)
    PROVE  WellHeld'
<1> DEFINE n == Len(doc.source)
           t == AppendLayout(doc.source) \o <<label, "nl">>
<1>1. n \in Nat /\ n <= n
  BY DocumentIs
<1>2. IsText(t)
  <2> DEFINE T == {label, "nl"}
             a == AppendLayout(doc.source)
             b == <<label, "nl">>
  <2>1. a \in {<< >>, <<"nl", "nl">>, <<"nl">>}
    BY DEF AppendLayout
  <2>2. << >> \in Seq(T) /\ <<"nl", "nl">> \in Seq(T) /\ <<"nl">> \in Seq(T) /\ b \in Seq(T)
    OBVIOUS
  <2> HIDE DEF T, b
  <2>3. a \in Seq(T)
    BY <2>1, <2>2
  <2> HIDE DEF a
  <2>4. a \o b \in Seq(T)
    BY <2>2, <2>3
  <2> QED
    BY <2>4 DEF IsText, a, b
<1>3. Hold([kind |-> "definition"], Change(<<Patch(n, n, t)>>))
  BY DEF PrepareAppendDefinition
<1> HIDE DEF n, t
<1>4. n <= Len(doc.source)
  BY <1>1 DEF n
<1> QED
  BY <1>1, <1>2, <1>3, <1>4, OnePatchKeeps

-----------------------------------------------------------------------------
LEMMA PairIs ==
    ASSUME NEW o, NEW p
    PROVE  <<o>> \o <<p>> = <<o, p>>
<1> DEFINE V == {o, p}
<1>1. <<o>> \in Seq(V) /\ <<p>> \in Seq(V) /\ <<o, p>> \in Seq(V)
  OBVIOUS
<1>2. Len(<<o>>) = 1 /\ Len(<<p>>) = 1 /\ Len(<<o, p>>) = 2
  OBVIOUS
<1>3. <<o>>[1] = o /\ <<p>>[1] = p /\ <<o, p>>[1] = o /\ <<o, p>>[2] = p
  OBVIOUS
<1> HIDE DEF V
<1> DEFINE a == <<o>>
           b == <<p>>
           c == <<o, p>>
<1>4. /\ a \in Seq(V) /\ b \in Seq(V) /\ c \in Seq(V)
      /\ Len(a) = 1 /\ Len(b) = 1 /\ Len(c) = 2
      /\ a[1] = c[1] /\ b[1] = c[2]
  BY <1>1, <1>2, <1>3
<1> HIDE DEF a, b, c
<1>5. a \o b = c
  <2>1. /\ a \o b \in Seq(V)
        /\ Len(a \o b) = Len(a) + Len(b)
        /\ \A i \in 1..Len(a) : (a \o b)[i] = a[i]
        /\ \A i \in 1..Len(b) : (a \o b)[Len(a) + i] = b[i]
    BY <1>4, ConcatIs
  <2> DEFINE e == a \o b
  <2> HIDE DEF e
  <2>2. e \in Seq(V) /\ Len(e) = 1 + 1 /\ e[1] = a[1] /\ e[1 + 1] = b[1]
    BY <1>4, <2>1 DEF e
  <2>3. e = c
    BY <1>4, <2>2
  <2> QED
    BY <2>3 DEF e
<1> QED
  BY <1>5 DEF a, b, c

LEMMA BytesText ==
    ASSUME NEW s, IsText(s), NEW r, r.start \in Nat, r.end \in Nat, r.start <= r.end,
           r.end <= Len(s)
    PROVE  IsText(Bytes(s, r))
<1> DEFINE a == r.start
           b == r.end
<1>1. Bytes(s, r) = SubSeq(s, a + 1, b)
  BY DEF Bytes
<1> HIDE DEF a, b
<1> QED
  BY <1>1, PartIs DEF a, b

LEMMA SingleGiven ==
    ASSUME NEW s, IsText(s), NEW t, IsText(t), NEW b \in Nat, NEW c \in Nat
    PROVE  Given(<<Patch(b, c, t)>>, s)
<1>1. PICK V : s \in Seq(V) /\ t \in Seq(V)
  BY TextsTogether
<1> DEFINE p == Patch(b, c, t)
           P == Patches(V)
<1>2. p \in P
  BY <1>1 DEF Patch, Patches
<1> HIDE DEF p, P
<1>3. <<p>> \in Seq(P)
  BY <1>2
<1> QED
  BY <1>1, <1>3 DEF Given, p, P

LEMMA AcceptedKeeps ==
    ASSUME WellHeld, NEW operation, NEW c, Hold(operation, c),
           NEW patches, c.patches = InOrder(patches), Given(patches, doc.source),
           Accepted(Len(doc.source), patches)
    PROVE  WellHeld'
<1>1. Fits(InOrder(patches), doc.source)
  BY GivenFits
<1> QED
  BY <1>1, HoldKeepsTexts

LEMMA MoveKeepsTexts ==
    ASSUME WellHeld, NEW i \in Targets, NEW anchor \in Targets, NEW after \in BOOLEAN,
           PrepareMoveSection(i, anchor, after)
    PROVE  WellHeld'
<1> DEFINE r == sections[i].range
           plan == MovePlan(i, anchor, after)
           at == plan.at
           s == doc.source
           o == Patch(r.start, r.end, << >>)
           p == Patch(at, at, Bytes(s, r))
           patches == <<o, p>>
           change == [Change(patches) EXCEPT !.relocations = {[source |-> r, at |-> at]}]
           operation == [kind |-> "move", at |-> i]
<1>1. r.start \in Nat /\ r.end \in Nat /\ r.start <= r.end /\ r.end <= Len(s)
  BY DocumentIs, RangeLies DEF sections
<1>2. at \in Nat
  <2>1. /\ sections[anchor].range.start \in Nat /\ sections[anchor].range.end \in Nat
    BY DocumentIs, RangeLies DEF sections
  <2>2. at = IF after THEN sections[anchor].range.end ELSE sections[anchor].range.start
    BY DEF MovePlan
  <2> HIDE DEF at
  <2> QED
    BY <2>1, <2>2
<1>3. IsText(s) /\ IsText(Bytes(s, r))
  <2>1. IsText(s)
    BY DocumentIs
  <2> HIDE DEF r, s
  <2> QED
    BY <1>1, <2>1, BytesText
<1>4. \/ Hold(operation, Change(<< >>))
      \/ Accepted(Len(s), patches) /\ Hold(operation, change)
  BY DEF PrepareMoveSection
<1>5. change.patches = InOrder(patches)
  <2> HIDE DEF patches, r, at
  <2> QED
    BY DEF Change
<1>6. Given(patches, s)
  <2>1. Given(<<o>>, s)
    <3> HIDE DEF r, s
    <3> QED
      BY <1>1, <1>3, NilIsText, SingleGiven
  <2>2. Given(<<p>>, s)
    <3> HIDE DEF r, s, at
    <3> QED
      BY <1>1, <1>2, <1>3, SingleGiven
  <2> HIDE DEF o, p, s
  <2>3. Given(<<o>> \o <<p>>, s)
    BY <2>1, <2>2, BothGiven
  <2>4. <<o>> \o <<p>> = <<o, p>>
    BY PairIs
  <2> QED
    BY <2>3, <2>4
<1> HIDE DEF patches, change, operation
<1>7. CASE Hold(operation, Change(<< >>))
  BY <1>7, NoPatchKeeps
<1>8. CASE Accepted(Len(s), patches) /\ Hold(operation, change)
  BY <1>5, <1>6, <1>8, AcceptedKeeps
<1> QED
  BY <1>4, <1>7, <1>8

LEMMA FitsGiven ==
    ASSUME NEW q, NEW s, Fits(q, s)
    PROVE  Given(q, s)
BY DEF Fits, Given

\* A composition fits if its patches are accepted.
LEMMA CombinedFits ==
    ASSUME NEW c, NEW d, Fits(c.patches, doc.source), Fits(d.patches, doc.source),
           Accepted(Len(doc.source), c.patches \o d.patches)
    PROVE  Fits(Combined(c, d).patches, doc.source)
<1> DEFINE patches == c.patches \o d.patches
<1>1. Given(patches, doc.source)
  BY FitsGiven, BothGiven
<1>2. Combined(c, d).patches = InOrder(patches)
  <2> HIDE DEF patches
  <2>1. Combined(c, d) = [Change(patches) EXCEPT
                             !.relocations = c.relocations \cup d.relocations,
                             !.correspondences = c.correspondences \cup d.correspondences]
    BY DEF Combined, patches
  <2> QED
    BY <2>1 DEF Change
<1> HIDE DEF patches
<1>3. Accepted(Len(doc.source), patches)
  BY DEF patches
<1>4. Fits(InOrder(patches), doc.source)
  BY <1>1, <1>3, GivenFits
<1> QED
  BY <1>2, <1>4

LEMMA OneHeldFits ==
    ASSUME WellHeld, NEW x, pool' = <<x>>, doc' = doc, Fits(x.change.patches, doc.source)
    PROVE  WellHeld'
<1> DEFINE S == {x}
<1>1. pool' \in Seq(S) /\ DOMAIN pool' = {1} /\ pool'[1] = x
  OBVIOUS
<1>2. doc' = Doc(doc'.source) /\ IsText(doc'.source)
  BY DEF WellHeld
<1> QED
  BY <1>1, <1>2 DEF WellHeld

LEMMA ComposeKeepsTexts ==
    ASSUME WellHeld, Compose
    PROVE  WellHeld'
<1> DEFINE c == pool[1].change
           d == pool[2].change
           x == [operations |-> pool[1].operations \o pool[2].operations,
                 change     |-> Combined(c, d)]
<1>1. /\ Accepted(Len(doc.source), c.patches \o d.patches)
      /\ pool' = <<x>> /\ doc' = doc
  BY DEF Compose
<1>2. 1 \in DOMAIN pool /\ 2 \in DOMAIN pool
  <2>1. Len(pool) = 2
    BY DEF Compose
  <2>2. PICK S : pool \in Seq(S)
    BY DEF WellHeld
  <2> QED
    BY <2>1, <2>2
<1>3. Fits(c.patches, doc.source) /\ Fits(d.patches, doc.source)
  BY <1>2 DEF WellHeld
<1>4. Fits(Combined(c, d).patches, doc.source)
  <2> HIDE DEF c, d
  <2> QED
    BY <1>1, <1>3, CombinedFits
<1>5. x.change = Combined(c, d)
  OBVIOUS
<1> HIDE DEF x, c, d
<1> QED
  BY <1>1, <1>4, <1>5, OneHeldFits

LEMMA ApplyKeepsTexts ==
    ASSUME WellHeld, NEW i, Apply(i)
    PROVE  WellHeld'
<1> DEFINE q == pool[i].change.patches
           s == Splice(doc.source, q)
<1>1. i \in DOMAIN pool /\ doc' = Doc(s) /\ pool' = << >>
  BY DEF Apply, Candidate
<1>2. Fits(q, doc.source)
  BY <1>1 DEF WellHeld
<1>3. IsText(s)
  <2> HIDE DEF q
  <2> QED
    BY <1>2, FitsIs
<1> HIDE DEF s
<1>4. doc'.source = s
  BY <1>1, <1>3, DocIs
<1> DEFINE nil == << >>
<1>5. nil \in Seq({}) /\ DOMAIN nil = {}
  OBVIOUS
<1>6. pool' = nil
  BY <1>1
<1> HIDE DEF nil
<1> QED
  BY <1>1, <1>3, <1>4, <1>5, <1>6 DEF WellHeld

LEMMA InitTexts ==
    ASSUME Init
    PROVE  WellHeld
<1>1. PICK s \in InitialTexts \cup ComposedTexts : doc = Doc(s)
  BY DEF Init
<1>2. IsText(s)
  BY GivenTexts
<1>3. doc.source = s
  BY <1>1, <1>2, DocIs
<1> DEFINE nil == << >>
<1>4. nil \in Seq({}) /\ DOMAIN nil = {}
  OBVIOUS
<1>5. pool = nil
  BY DEF Init
<1> HIDE DEF nil
<1> QED
  BY <1>1, <1>2, <1>3, <1>4, <1>5 DEF WellHeld

-----------------------------------------------------------------------------
LEMMA StepKeepsTexts ==
    ASSUME WellHeld, [Next]_vars
    PROVE  WellHeld'
<1>1. ASSUME NEW i \in Targets, PrepareRemoveSection(i) PROVE WellHeld'
  BY <1>1, RemoveKeepsTexts
<1>2. ASSUME NEW i \in Targets, NEW f \in Fragments, PrepareReplaceSection(i, f)
      PROVE  WellHeld'
  BY <1>2, ReplaceKeepsTexts
<1>3. ASSUME NEW i \in Targets, NEW f \in Fragments, NEW after \in BOOLEAN,
             PrepareInsertSection(i, f, after)
      PROVE  WellHeld'
  BY <1>3, InsertKeepsTexts
<1>4. ASSUME NEW i \in Targets, NEW f \in Fragments, PrepareAppendSectionChild(i, f)
      PROVE  WellHeld'
  BY <1>4, ChildKeepsTexts
<1>5. ASSUME NEW i \in Targets, NEW anchor \in Targets, NEW after \in BOOLEAN,
             PrepareMoveSection(i, anchor, after)
      PROVE  WellHeld'
  BY <1>5, MoveKeepsTexts
<1>6. ASSUME NEW i \in Targets, NEW body \in NewBodies, PrepareReplaceSectionBody(i, body)
      PROVE  WellHeld'
  BY <1>6, BodyKeepsTexts
<1>7. ASSUME NEW label \in Definitions, PrepareAppendDefinition(label) PROVE WellHeld'
  BY <1>7, DefinitionKeepsTexts
<1>8. ASSUME Compose PROVE WellHeld'
  BY <1>8, ComposeKeepsTexts
<1>9. ASSUME NEW i \in 1..MaxPool, Apply(i) PROVE WellHeld'
  BY <1>9, ApplyKeepsTexts
<1>10. ASSUME UNCHANGED vars PROVE WellHeld'
  BY <1>10 DEF vars, WellHeld
<1> QED
  BY <1>1, <1>2, <1>3, <1>4, <1>5, <1>6, <1>7, <1>8, <1>9, <1>10 DEF Next

LEMMA TextsOfSpec == Spec => []WellHeld
<1>1. Init => WellHeld
  BY InitTexts
<1>2. WellHeld /\ [Next]_vars => WellHeld'
  BY StepKeepsTexts
<1> QED
  BY <1>1, <1>2, PTL DEF Spec

-----------------------------------------------------------------------------
(***************************************************************************)
(* What renderTOC and tocBodyProfile.render make of texts are texts.       *)
(***************************************************************************)
LEMMA JoinText ==
    ASSUME NEW a, NEW b, IsText(a), IsText(b)
    PROVE  IsText(a \o b)
<1>1. PICK V : a \in Seq(V) /\ b \in Seq(V)
  BY TextsTogether
<1>2. a \o b \in Seq(V)
  BY <1>1, ConcatIs
<1> QED
  BY <1>2 DEF IsText

LEMMA TokenText ==
    ASSUME NEW x, NEW y
    PROVE  IsText(<<x>>) /\ IsText(<<x, y>>)
<1> DEFINE V == {x, y}
<1>1. <<x>> \in Seq(V) /\ <<x, y>> \in Seq(V)
  OBVIOUS
<1> HIDE DEF V
<1> QED
  BY <1>1 DEF IsText

LEMMA FlattenText ==
    ASSUME NEW n \in Nat, NEW f, f = [k \in 1..n |-> f[k]], \A k \in 1..n : IsText(f[k])
    PROVE  IsText(FlattenSeq(f))
<1> DEFINE A(k) == CHOOSE T : f[k] \in Seq(T)
           W == UNION {A(k) : k \in 1..n}
<1>1. ASSUME NEW k \in 1..n PROVE f[k] \in Seq(W)
  <2>1. \E T : f[k] \in Seq(T)
    BY DEF IsText
  <2>2. f[k] \in Seq(A(k))
    BY <2>1
  <2>3. A(k) \subseteq W
    OBVIOUS
  <2> HIDE DEF A, W
  <2> QED
    BY <2>2, <2>3
<1> HIDE DEF A, W
<1>2. [k \in 1..n |-> f[k]] \in Seq(Seq(W))
  BY <1>1, SequenceIs
<1>3. FlattenSeq(f) \in Seq(W)
  BY <1>2, FlattenType, Zenon
<1> QED
  BY <1>3 DEF IsText

LEMMA AnchorTexts ==
    ASSUME NEW d, IsDocument(d), NEW k \in 1..Len(d.sections)
    PROVE  IsText(HeadingAnchors(d)[k])
<1>1. PICK n \in Nat : Counted(d, n) /\ k \in 1..n
  BY DEF IsDocument, Counted
<1>2. PICK st : HeadingAnchors(d) = st.anchors /\ Anchored(st, n)
  BY <1>1, AnchorsAre
<1> QED
  BY <1>1, <1>2 DEF Anchored, OfLength

LEMMA EntriesText ==
    ASSUME NEW d, IsDocument(d)
    PROVE  IsText(renderTOC(d))
<1> DEFINE n == Len(d.sections)
           x(k) == <<Bullets[SectionDepth(d)[k] + 1]>>
           y == <<"](#">>
           z == <<")", "nl">>
           a(k) == HeadingAnchors(d)[k]
           f == [k \in DOMAIN d.sections |-> x(k) \o Title(d, k) \o y \o a(k) \o z]
<1>1. n \in Nat /\ DOMAIN d.sections = 1..n
  BY DEF IsDocument
<1>2. renderTOC(d) = FlattenSeq(f)
  BY DEF renderTOC
<1>3. ASSUME NEW k \in 1..n PROVE IsText(f[k])
  <2>1. IsText(x(k)) /\ IsText(y) /\ IsText(z)
    BY TokenText
  <2>2. IsText(Title(d, k)) /\ IsText(a(k))
    BY TitleIs, AnchorTexts
  <2>3. f[k] = x(k) \o Title(d, k) \o y \o a(k) \o z
    BY <1>1
  <2> HIDE DEF x, y, z, a, f
  <2>4. IsText(x(k) \o Title(d, k))
    BY <2>1, <2>2, JoinText
  <2>5. IsText(x(k) \o Title(d, k) \o y)
    BY <2>1, <2>4, JoinText
  <2>6. IsText(x(k) \o Title(d, k) \o y \o a(k))
    BY <2>2, <2>5, JoinText
  <2>7. IsText(x(k) \o Title(d, k) \o y \o a(k) \o z)
    BY <2>1, <2>6, JoinText
  <2> QED
    BY <2>3, <2>7
<1>4. f = [k \in 1..n |-> f[k]]
  BY <1>1
<1> HIDE DEF f, n
<1>5. IsText(FlattenSeq(f))
  BY <1>1, <1>3, <1>4, FlattenText
<1> QED
  BY <1>2, <1>5

LEMMA RenderedText ==
    ASSUME NEW body, IsText(body), NEW table, IsText(table)
    PROVE  IsText(Rendered(body, table))
<1> DEFINE entries == TableLines(body)
           n == Len(body)
           A == {r.start : r \in entries}
           B == {NextLine(body, r) : r \in entries}
           first == Min(A)
           last == Max(B)
<1>1. n \in Nat
  BY TextIs
<1>2. CASE entries = {}
  <2>1. Rendered(body, table) = body \o table
    BY <1>2 DEF Rendered
  <2> QED
    BY <2>1, JoinText
<1>3. CASE entries # {}
  <2>1. \A r \in Lines(body) : r.start \in 0..n
    BY <1>1 DEF Lines, LineAt
  <2>2. A \in SUBSET (0..n) /\ A # {} /\ B # {}
    BY <1>3, <2>1 DEF TableLines
  <2>3. \A r \in entries : NextLine(body, r) \in 0..n
    <3> TAKE r \in entries
    <3> DEFINE C == {l.start : l \in {o \in Lines(body) : o.start > r.start}} \cup {n}
    <3>1. C \in SUBSET (0..n) /\ n \in C
      BY <1>1, <2>1
    <3>2. NextLine(body, r) = Min(C)
      BY DEF NextLine
    <3> HIDE DEF C, n
    <3>3. C \in SUBSET Nat /\ C # {}
      BY <1>1, <3>1
    <3>4. Min(C) \in C
      BY <3>3, MinIs
    <3> QED
      BY <3>1, <3>2, <3>4
  <2>4. B \in SUBSET (0..n)
    BY <2>3
  <2>5. Rendered(body, table) = SubSeq(body, 1, first) \o table \o SubSeq(body, last + 1, n)
    BY <1>3 DEF Rendered
  <2> HIDE DEF A, B, entries
  <2>6. first \in 0..n /\ last \in 0..n
    <3>1. A \in SUBSET Nat
      BY <1>1, <2>2
    <3>2. first \in A
      BY <2>2, <3>1, MinIs
    <3>3. last \in B
      BY <1>1, <2>2, <2>4, MaxIs
    <3> QED
      BY <2>2, <2>4, <3>2, <3>3
  <2> HIDE DEF first, last
  <2>7. IsText(SubSeq(body, 1, first))
    <3>1. 0 + 1 = 1 /\ 0 \in Nat /\ first \in Nat /\ 0 <= first /\ first <= Len(body)
      BY <1>1, <2>6 DEF n
    <3>2. IsText(SubSeq(body, 0 + 1, first))
      BY <3>1, PartIs
    <3> QED
      BY <3>1, <3>2
  <2>8. IsText(SubSeq(body, last + 1, n))
    <3>1. last \in Nat /\ n \in Nat /\ last <= n /\ n <= Len(body)
      BY <1>1, <2>6 DEF n
    <3> QED
      BY <3>1, PartIs
  <2>9. IsText(SubSeq(body, 1, first) \o table)
    BY <2>7, JoinText
  <2>10. IsText(SubSeq(body, 1, first) \o table \o SubSeq(body, last + 1, n))
    BY <2>8, <2>9, JoinText
  <2> QED
    BY <2>5, <2>10
<1> QED
  BY <1>2, <1>3

LEMMA BodyTexts ==
    ASSUME NEW d, IsDocument(d), NEW k \in 1..Len(d.sections)
    PROVE  IsText(Body(d, k)) /\ IsText(SyncedBody(d, k))
<1> DEFINE r == d.sections[k].bodyRange
<1>1. r.start \in Nat /\ r.end \in Nat /\ r.start <= r.end /\ r.end <= Len(d.source)
  BY BodyPatchLies
<1>2. IsText(d.source)
  BY DEF IsDocument
<1>3. Body(d, k) = SubSeq(d.source, r.start + 1, r.end)
  BY DEF Body, Bytes
<1> HIDE DEF r
<1>4. IsText(Body(d, k))
  BY <1>1, <1>2, <1>3, PartIs
<1>5. IsText(SyncedBody(d, k))
  BY <1>4, EntriesText, RenderedText DEF SyncedBody
<1> QED
  BY <1>4, <1>5

-----------------------------------------------------------------------------
(***************************************************************************)
(* Patches that are accepted once they are sorted.                         *)
(***************************************************************************)
LEMMA SortedAccepted ==
    ASSUME NEW V, NEW q \in Seq(Patches(V)), Sorted(q), NEW n \in Nat, Accepted(n, q)
    PROVE  LaidOut(q, n)
<1> DEFINE r == InOrder(q)
           m == Len(q)
<1>1. r = InOrder(q)
  OBVIOUS
<1> HIDE DEF r
<1>2. IsInOrder(V, r, q)
  BY <1>1, InOrderIs
<1>3. r \in Seq(Patches(V)) /\ LaidOut(r, n)
  BY <1>1, AcceptedIs
<1>4. m \in Nat /\ Len(r) = m /\ DOMAIN q = 1..m
  BY <1>2 DEF IsInOrder
<1>5. \A i \in 1..m : \E j \in 1..m : r[j] = q[i]
  BY <1>2, <1>4 DEF IsInOrder, HoldsFirst
<1>6. \A i \in 1..m : \E j \in 1..m : q[j] = r[i]
  BY <1>2, <1>4 DEF IsInOrder, HoldsFirst
<1>7. \A i, j \in 1..m : i < j => /\ r[i].end <= r[j].start
                                   /\ r[i].start < r[j].start
  BY <1>3, <1>4, Apart
<1>8. \A i \in 1..m : r[i].start \in Int /\ r[i].end \in Int
  <2>1. \A i \in 1..m : r[i] \in Patches(V)
    BY <1>3, <1>4
  <2> QED
    BY <2>1 DEF Patches
<1>9. \A i, j \in 1..m : i < j => ~Before(q[j], q[i])
  BY DEF Sorted
<1>10. \A i \in 1..m : Valid(q[i], n)
  BY <1>4 DEF Accepted
<1> HIDE DEF m
<1>11. DistinctUpTo(r, m)
  <2> SUFFICES ASSUME NEW i \in 1..m, NEW j \in 1..m, r[i] = r[j] PROVE i = j
    BY DEF DistinctUpTo
  <2>1. i < j \/ i = j \/ j < i
    BY <1>4
  <2> QED
    BY <1>7, <1>8, <2>1
<1>12. DistinctUpTo(q, m)
  BY <1>4, <1>6, <1>11, <1>5, NoRepetition DEF Covers
<1>13. ASSUME NEW i \in 2..m PROVE ~Conflicts(q[i - 1], q[i])
  <2> DEFINE h == i - 1
  <2>1. h \in 1..m /\ i \in 1..m /\ h < i /\ h # i
    BY <1>4
  <2> HIDE DEF h
  <2>2. PICK a \in 1..m : r[a] = q[h]
    BY <1>5, <2>1
  <2>3. PICK b \in 1..m : r[b] = q[i]
    BY <1>5, <2>1
  <2>4. a # b
    BY <1>12, <2>1, <2>2, <2>3 DEF DistinctUpTo
  <2>5. ~(b < a)
    <3> SUFFICES ASSUME b < a PROVE FALSE
      OBVIOUS
    <3>1. q[i].start < q[h].start
      BY <1>7, <2>2, <2>3
    <3> QED
      BY <1>9, <2>1, <3>1 DEF Before
  <2>6. a < b
    BY <1>4, <2>4, <2>5
  <2>7. q[h].end <= q[i].start /\ q[h].start < q[i].start
    BY <1>7, <2>2, <2>3, <2>6
  <2>8. q[h].end \in Int /\ q[h].start \in Int /\ q[i].start \in Int
    BY <1>8, <2>2, <2>3
  <2>9. ~Conflicts(q[h], q[i])
    BY <2>7, <2>8 DEF Conflicts
  <2> QED
    BY <2>9 DEF h
<1> QED
  BY <1>4, <1>10, <1>13 DEF LaidOut, NeighboursDisjoint, m

LEMMA GivenSortedFits ==
    ASSUME NEW patches, NEW s, Given(patches, s), Accepted(Len(s), InOrder(patches))
    PROVE  Fits(InOrder(patches), s)
<1>1. PICK V : s \in Seq(V) /\ patches \in Seq(Patches(V))
  BY DEF Given
<1> DEFINE q == InOrder(patches)
           n == Len(s)
<1>2. q = InOrder(patches) /\ n \in Nat /\ Accepted(n, q)
  BY <1>1
<1> HIDE DEF q, n
<1>3. IsInOrder(V, q, patches)
  BY <1>1, <1>2, InOrderIs
<1>4. LaidOut(q, n)
  BY <1>2, <1>3, SortedAccepted DEF IsInOrder
<1>5. q \in Seq(Patches(V))
  BY <1>3 DEF IsInOrder
<1> QED
  BY <1>1, <1>4, <1>5 DEF Fits, q, n

-----------------------------------------------------------------------------
(***************************************************************************)
(* Edits of headings.                                                      *)
(***************************************************************************)
LEMMA RewritingKeeps ==
    ASSUME WellHeld, NEW operation, NEW section,
           NEW b \in Nat, NEW c \in Nat, b <= c, c <= Len(doc.source),
           NEW t, IsText(t), Hold(operation, Rewriting(section, Patch(b, c, t)))
    PROVE  WellHeld'
<1> DEFINE p == Patch(b, c, t)
           change == Rewriting(section, p)
<1>1. Fits(InOrder(<<p>>), doc.source)
  BY OneFits DEF WellHeld
<1>2. change.patches = InOrder(<<p>>)
  <2> HIDE DEF p
  <2> QED
    BY DEF Change, Rewriting
<1> HIDE DEF p
<1>3. Hold(operation, change)
  BY DEF p
<1> HIDE DEF change
<1>4. Fits(change.patches, doc.source)
  BY <1>1, <1>2
<1> QED
  BY <1>3, <1>4, HoldKeepsTexts

LEMMA RenameKeepsTexts ==
    ASSUME WellHeld, NEW i \in Targets, NEW title \in Titles, PrepareRenameHeading(i, title)
    PROVE  WellHeld'
<1> DEFINE section == sections[i]
           content == ContentRange(section)
           operation == [kind |-> "rename", at |-> i]
<1>1. /\ content.start \in Nat /\ content.end \in Nat /\ content.start <= content.end
      /\ content.end <= Len(doc.source)
  BY DocumentIs, ContentLies DEF sections
<1>2. IsText(title)
  BY TitleAssumption DEF IsText
<1>3. \/ Hold(operation, Change(<< >>))
      \/ Hold(operation, Rewriting(section, Patch(content.start, content.end, title)))
  BY DEF PrepareRenameHeading
<1> HIDE DEF section, content, operation
<1> QED
  BY <1>1, <1>2, <1>3, NoPatchKeeps, RewritingKeeps

LEMMA LevelKeepsTexts ==
    ASSUME WellHeld, NEW i \in Targets, NEW level, PrepareSetHeadingLevel(i, level)
    PROVE  WellHeld'
<1> DEFINE section == sections[i]
           operation == [kind |-> "level", at |-> i, level |-> level]
           a == section.heading.start
           b == section.heading.end
           content == Bytes(doc.source, ContentRange(section))
<1>1. \/ Hold(operation, Change(<< >>))
      \/ \E patch \in LevelPatches(doc, section, level) : Hold(operation, Rewriting(section, patch))
  BY DEF PrepareSetHeadingLevel
<1>2. CASE Hold(operation, Change(<< >>))
  <2> HIDE DEF operation
  <2> QED
    BY <1>2, NoPatchKeeps
<1>3. ASSUME NEW patch \in LevelPatches(doc, section, level),
             Hold(operation, Rewriting(section, patch))
      PROVE  WellHeld'
  <2>1. /\ section.kind \in HeadingKinds
        /\ a \in Nat /\ b \in Nat /\ a < b /\ b <= Len(doc.source) /\ Len(doc.source) \in Nat
        /\ section.kind = "setext" => a + 3 <= b
    <3>1. IsDocument(doc) /\ Len(doc.source) \in Nat /\ i \in 1..Len(doc.sections)
      BY DocumentIs
    <3> QED
      BY <3>1 DEF IsDocument, SectionLies, sections
  <2>2. IsText(content)
    <3>1. IsDocument(doc) /\ i \in 1..Len(doc.sections)
      BY DocumentIs
    <3>2. IsText(Title(doc, i))
      BY <3>1, TitleIs
    <3> QED
      BY <3>2 DEF Title, sections
  <2>3. \/ \E x : patch = Patch(a, a + 1, <<x>>)
        \/ section.kind = "setext" /\ \E x : patch = Patch(b - 1, b, <<x>>)
        \/ \E x : patch = Patch(a, b, <<x>> \o content)
    <3> HIDE DEF section
    <3> QED
      BY DEF LevelPatches
  <2> HIDE DEF section, content, operation, a, b
  <2>4. ASSUME NEW x, patch = Patch(a, a + 1, <<x>>) PROVE WellHeld'
    <3> DEFINE e == a + 1
    <3>1. e \in Nat /\ a <= e /\ e <= Len(doc.source)
      BY <2>1
    <3>2. IsText(<<x>>)
      BY TokenText
    <3>3. patch = Patch(a, e, <<x>>)
      BY <2>4
    <3> HIDE DEF e
    <3> QED
      BY <1>3, <2>1, <3>1, <3>2, <3>3, RewritingKeeps
  <2>5. ASSUME NEW x, section.kind = "setext", patch = Patch(b - 1, b, <<x>>) PROVE WellHeld'
    <3> DEFINE e == b - 1
    <3>1. e \in Nat /\ e <= b
      BY <2>1, <2>5
    <3>2. IsText(<<x>>)
      BY TokenText
    <3>3. patch = Patch(e, b, <<x>>)
      BY <2>5
    <3> HIDE DEF e
    <3> QED
      BY <1>3, <2>1, <3>1, <3>2, <3>3, RewritingKeeps
  <2>6. ASSUME NEW x, patch = Patch(a, b, <<x>> \o content) PROVE WellHeld'
    <3>1. IsText(<<x>> \o content)
      BY <2>2, TokenText, JoinText
    <3>2. a <= b
      BY <2>1
    <3> DEFINE t == <<x>> \o content
    <3> HIDE DEF t
    <3>3. patch = Patch(a, b, t) /\ IsText(t)
      BY <2>6, <3>1 DEF t
    <3> QED
      BY <1>3, <2>1, <3>2, <3>3, RewritingKeeps
  <2> QED
    BY <2>3, <2>4, <2>5, <2>6
<1> QED
  BY <1>1, <1>2, <1>3

-----------------------------------------------------------------------------
(***************************************************************************)
(* Synchronisations of tables of contents.                                 *)
(***************************************************************************)
LEMMA SyncKeepsTexts ==
    ASSUME WellHeld, NEW i \in Targets, PrepareSyncTOC(i)
    PROVE  WellHeld'
<1> DEFINE r == doc.sections[i].bodyRange
           body == SyncedBody(doc, i)
<1>1. IsDocument(doc) /\ i \in 1..Len(doc.sections)
  BY DocumentIs
<1>2. r.start \in Nat /\ r.end \in Nat /\ r.start <= r.end /\ r.end <= Len(doc.source)
  BY <1>1, BodyPatchLies
<1>3. IsText(body)
  BY <1>1, BodyTexts
<1>4. Hold([kind |-> "sync", at |-> i], Change(<<Patch(r.start, r.end, body)>>))
  BY DEF PrepareSyncTOC, BodyPatch
<1> HIDE DEF r, body
<1> QED
  BY <1>2, <1>3, <1>4, OnePatchKeeps

LEMMA PickedType ==
    ASSUME NEW n \in Nat, NEW q, q = [i \in 1..n |-> i], NEW indices
    PROVE  Picked(q, indices) \in Seq(1..n)
<1> DEFINE f == [i \in 1..n |-> IF i \in indices THEN <<q[i]>> ELSE << >>]
           g == [i \in DOMAIN q |-> IF i \in indices THEN <<q[i]>> ELSE << >>]
           V == 1..n
<1>1. f = g
  OBVIOUS
<1>2. \A i \in 1..n : f[i] \in Seq(V)
  <2> TAKE i \in 1..n
  <2>1. <<q[i]>> \in Seq(V) /\ << >> \in Seq(V)
    OBVIOUS
  <2>2. f[i] = <<q[i]>> \/ f[i] = << >>
    OBVIOUS
  <2> HIDE DEF f, V
  <2> QED
    BY <2>1, <2>2
<1>3. f = [i \in 1..n |-> f[i]]
  OBVIOUS
<1>4. Picked(q, indices) = FlattenSeq(g)
  BY DEF Picked
<1> HIDE DEF f, g, V
<1>5. [i \in 1..n |-> f[i]] \in Seq(Seq(V))
  BY <1>2, SequenceIs
<1>6. FlattenSeq(f) \in Seq(V)
  BY <1>3, <1>5, FlattenType, Zenon
<1> QED
  BY <1>1, <1>4, <1>6 DEF V

\* Patches whose texts are texts are sequences of one set of tokens.
LEMMA PatchesTogether ==
    ASSUME NEW s, IsText(s), NEW m \in Nat, NEW p, p = [k \in 1..m |-> p[k]],
           \A k \in 1..m : \E b, c \in Nat : \E t : IsText(t) /\ p[k] = Patch(b, c, t)
    PROVE  Given(p, s)
<1> DEFINE A(k) == CHOOSE T : p[k] \in Patches(T)
           B == CHOOSE T : s \in Seq(T)
           W == B \cup UNION {A(k) : k \in 1..m}
<1>1. ASSUME NEW k \in 1..m PROVE p[k] \in Patches(W)
  <2>1. \E T : p[k] \in Patches(T)
    <3>1. PICK b, c, t : b \in Nat /\ c \in Nat /\ IsText(t) /\ p[k] = Patch(b, c, t)
      OBVIOUS
    <3>2. PICK T : t \in Seq(T)
      BY <3>1 DEF IsText
    <3>3. Patch(b, c, t) \in Patches(T)
      BY <3>1, <3>2 DEF Patch, Patches
    <3> QED
      BY <3>1, <3>3
  <2>2. p[k] \in Patches(A(k))
    BY <2>1
  <2>3. A(k) \subseteq W
    OBVIOUS
  <2> HIDE DEF A, W
  <2> QED
    BY <2>2, <2>3, WiderPatches
<1>2. s \in Seq(W)
  <2>1. \E T : s \in Seq(T)
    BY DEF IsText
  <2>2. s \in Seq(B)
    BY <2>1
  <2>3. B \subseteq W
    OBVIOUS
  <2> HIDE DEF B, W
  <2> QED
    BY <2>2, <2>3
<1> HIDE DEF A, B, W
<1> DEFINE P == Patches(W)
<1>3. \A k \in 1..m : p[k] \in P
  BY <1>1
<1> HIDE DEF P
<1>4. [k \in 1..m |-> p[k]] \in Seq(P)
  BY <1>3
<1>5. p \in Seq(P)
  BY <1>4
<1> QED
  BY <1>2, <1>5 DEF Given, P

LEMMA SyncsKeepTexts ==
    ASSUME WellHeld, NEW tables, PrepareSyncTOCs(tables)
    PROVE  WellHeld'
<1> DEFINE q == [i \in Targets |-> i]
           order == Picked(q, tables)
           p == [k \in DOMAIN order |-> BodyPatch(doc, order[k], SyncedBody(doc, order[k]))]
           change == Change(p)
           n == Len(doc.sections)
           m == Len(order)
<1>1. /\ Accepted(Len(doc.source), p)
      /\ Hold([kind |-> "syncs", tables |-> tables], change)
  BY DEF PrepareSyncTOCs
<1>2. change.patches = InOrder(p)
  <2> HIDE DEF p
  <2> QED
    BY DEF Change
<1>3. IsDocument(doc) /\ IsText(doc.source) /\ n \in Nat /\ Targets = 1..n
  BY DocumentIs
<1>4. order \in Seq(1..n)
  <2>1. q = [i \in 1..n |-> i]
    BY <1>3
  <2> HIDE DEF n, q
  <2> QED
    BY <1>3, <2>1, PickedType
<1>5. m \in Nat /\ DOMAIN order = 1..m /\ \A k \in 1..m : order[k] \in 1..n
  <2> DEFINE V == 1..n
  <2>1. order \in Seq(V)
    BY <1>4
  <2> HIDE DEF V, order
  <2>2. Len(order) \in Nat /\ DOMAIN order = 1..Len(order)
    BY <2>1
  <2>3. \A k \in 1..Len(order) : order[k] \in V
    BY <2>1
  <2> QED
    BY <2>2, <2>3 DEF V
<1>6. ASSUME NEW k \in 1..m
      PROVE  \E b, c \in Nat : \E t : IsText(t) /\ p[k] = Patch(b, c, t)
  <2> DEFINE j == order[k]
             r == doc.sections[j].bodyRange
             t == SyncedBody(doc, j)
  <2>1. p[k] = Patch(r.start, r.end, t)
    BY <1>5 DEF BodyPatch
  <2>2. j \in 1..Len(doc.sections)
    BY <1>5
  <2> HIDE DEF j, order
  <2>3. r.start \in Nat /\ r.end \in Nat
    BY <1>3, <2>2, BodyPatchLies
  <2>4. IsText(t)
    BY <1>3, <2>2, BodyTexts
  <2> HIDE DEF r, t, p
  <2> QED
    BY <2>1, <2>3, <2>4
<1>7. p = [k \in 1..m |-> p[k]]
  BY <1>5
<1> HIDE DEF p, order, m, n, q
<1>8. Given(p, doc.source)
  BY <1>3, <1>5, <1>6, <1>7, PatchesTogether
<1> HIDE DEF change
<1> QED
  BY <1>1, <1>2, <1>8, AcceptedKeeps

\* The changes held, combined, fit the document.
LEMMA BaseFits ==
    ASSUME WellHeld, Len(pool) \in {1, 2}, ComposeHolds
    PROVE  Fits(Base.patches, doc.source)
<1>1. PICK S : pool \in Seq(S)
  BY DEF WellHeld
<1>2. Accepted(Len(doc.source), Base.patches)
  BY DEF ComposeHolds
<1>3. CASE Len(pool) = 1
  <2>1. 1 \in DOMAIN pool
    BY <1>1, <1>3
  <2> QED
    BY <1>3, <2>1 DEF Base, WellHeld
<1>4. CASE Len(pool) = 2
  <2> DEFINE c == pool[1].change
             d == pool[2].change
             patches == c.patches \o d.patches
  <2>1. 1 \in DOMAIN pool /\ 2 \in DOMAIN pool
    BY <1>1, <1>4
  <2>2. Fits(c.patches, doc.source) /\ Fits(d.patches, doc.source)
    BY <2>1 DEF WellHeld
  <2>3. Given(patches, doc.source)
    BY <2>2, FitsGiven, BothGiven
  <2>4. Base = Combined(c, d)
    BY <1>4 DEF Base
  <2> HIDE DEF c, d
  <2>5. Combined(c, d).patches = InOrder(patches)
    <3> HIDE DEF patches
    <3>1. Combined(c, d) = [Change(patches) EXCEPT
                              !.relocations = c.relocations \cup d.relocations,
                              !.correspondences = c.correspondences \cup d.correspondences]
      BY DEF Combined, patches
    <3> QED
      BY <3>1 DEF Change
  <2> HIDE DEF patches
  <2>6. Fits(InOrder(patches), doc.source)
    BY <1>2, <2>3, <2>4, <2>5, GivenSortedFits
  <2> QED
    BY <2>4, <2>5, <2>6
<1> QED
  BY <1>3, <1>4

LEMMA ComposeSyncKeepsTexts ==
    ASSUME WellHeld, NEW i \in Targets, ComposeAndSyncTOC(i)
    PROVE  WellHeld'
<1> DEFINE candidate == Candidate(Base)
<1>1. Fits(Base.patches, doc.source)
  BY BaseFits DEF ComposeAndSyncTOC
<1>2. IsDocument(candidate)
  <2>1. IsText(Splice(doc.source, Base.patches))
    BY <1>1, FitsIs
  <2> QED
    BY <2>1, TextsMakeDocuments DEF Candidate
<1>3. PICK k \in TableAgain(Base, candidate, i) :
         /\ FinalHolds(Base, candidate, i, k)
         /\ pool' = <<[operations |-> Append(Prepared, [kind |-> "final", at |-> i]),
                       change     |-> Final(Base, i, SyncedFrom(candidate, k))]>>
  BY DEF ComposeAndSyncTOC
<1>4. doc' = doc
  BY DEF ComposeAndSyncTOC
<1> DEFINE body == SyncedFrom(candidate, k)
           final == Final(Base, i, body)
           r == doc.sections[i].bodyRange
           patches == Append(Base.patches, Patch(r.start, r.end, body))
<1>5. IsText(body)
  <2>1. k \in 1..Len(candidate.sections)
    <3>1. k \in DOMAIN candidate.sections
      BY DEF TableAgain
    <3> QED
      BY <1>2, <3>1 DEF IsDocument
  <2> HIDE DEF candidate
  <2>2. IsText(SyncedBody(candidate, k))
    BY <1>2, <2>1, BodyTexts
  <2> QED
    BY <2>2 DEF SyncedFrom
<1>6. final.patches = InOrder(patches)
  <2> HIDE DEF body, r
  <2>1. Final(Base, i, body) = [Change(patches) EXCEPT
                                  !.relocations = Base.relocations,
                                  !.correspondences = Base.correspondences]
    BY DEF Final, BodyPatch, r
  <2> HIDE DEF patches
  <2> QED
    BY <2>1 DEF Change
<1>7. Accepted(Len(doc.source), final.patches)
  BY <1>3 DEF FinalHolds
<1>8. r.start \in Nat /\ r.end \in Nat
  BY DocumentIs, BodyPatchLies
<1> HIDE DEF final, body, r
<1>9. Given(patches, doc.source)
  BY <1>1, <1>5, <1>8, FitsGiven, OneMoreGiven
<1> HIDE DEF patches
<1>10. Fits(final.patches, doc.source)
  BY <1>6, <1>7, <1>9, GivenSortedFits
<1> DEFINE x == [operations |-> Append(Prepared, [kind |-> "final", at |-> i]), change |-> final]
<1>11. x.change = final
  OBVIOUS
<1>12. pool' = <<x>>
  BY <1>3 DEF final, body
<1> HIDE DEF x
<1> QED
  BY <1>4, <1>10, <1>11, <1>12, OneHeldFits

-----------------------------------------------------------------------------
LEMMA EditStepKeepsTexts ==
    ASSUME WellHeld, [EditNext]_vars
    PROVE  WellHeld'
<1>1. ASSUME NEW i \in Targets, NEW title \in Titles, PrepareRenameHeading(i, title)
      PROVE  WellHeld'
  BY <1>1, RenameKeepsTexts
<1>2. ASSUME NEW i \in Targets, NEW level \in 1..3, PrepareSetHeadingLevel(i, level)
      PROVE  WellHeld'
  BY <1>2, LevelKeepsTexts
<1>3. ASSUME NEW i \in Targets, PrepareSyncTOC(i) PROVE WellHeld'
  BY <1>3, SyncKeepsTexts
<1>4. ASSUME NEW tables \in SUBSET Targets, PrepareSyncTOCs(tables) PROVE WellHeld'
  BY <1>4, SyncsKeepTexts
<1>5. ASSUME NEW i \in Targets, ComposeAndSyncTOC(i) PROVE WellHeld'
  BY <1>5, ComposeSyncKeepsTexts
<1>6. ASSUME NEW i \in Targets, PrepareRemoveSection(i) PROVE WellHeld'
  BY <1>6, RemoveKeepsTexts
<1>7. ASSUME NEW i \in Targets, NEW f \in Fragments, NEW after \in BOOLEAN,
             PrepareInsertSection(i, f, after)
      PROVE  WellHeld'
  BY <1>7, InsertKeepsTexts
<1>8. ASSUME NEW i \in Targets, NEW anchor \in Targets, NEW after \in BOOLEAN,
             PrepareMoveSection(i, anchor, after)
      PROVE  WellHeld'
  BY <1>8, MoveKeepsTexts
<1>9. ASSUME NEW i \in Targets, NEW body \in NewBodies, PrepareReplaceSectionBody(i, body)
      PROVE  WellHeld'
  BY <1>9, BodyKeepsTexts
<1>10. ASSUME Compose PROVE WellHeld'
  BY <1>10, ComposeKeepsTexts
<1>11. ASSUME NEW i \in 1..MaxPool, Apply(i) PROVE WellHeld'
  BY <1>11, ApplyKeepsTexts
<1>12. ASSUME UNCHANGED vars PROVE WellHeld'
  BY <1>12 DEF vars, WellHeld
<1> QED
  BY <1>1, <1>2, <1>3, <1>4, <1>5, <1>6, <1>7, <1>8, <1>9, <1>10, <1>11, <1>12
     DEF EditNext, Edit

LEMMA TextsOfNavigation == NavigationSpec => []WellHeld
<1>1. Init => WellHeld
  BY InitTexts
<1>2. WellHeld /\ [EditNext]_vars => WellHeld'
  BY EditStepKeepsTexts
<1> QED
  BY <1>1, <1>2, PTL DEF NavigationSpec

(***************************************************************************)
(* In every state of every sequence of edits, accepted, combined,          *)
(* synchronised and applied, each heading's anchor is its slug or the slug *)
(* with the least suffix that is free: provided that every number has a    *)
(* suffix, as strconv.Itoa gives it one.                                   *)
(***************************************************************************)
THEOREM AnchorsLeastHolds == EverySuffix => (NavigationSpec => []AnchorsLeast)
<1> SUFFICES ASSUME EverySuffix PROVE NavigationSpec => []AnchorsLeast
  OBVIOUS
<1>1. WellHeld => AnchorsLeast
  <2> SUFFICES ASSUME WellHeld PROVE AnchorsLeast
    OBVIOUS
  <2>1. doc = Doc(doc.source) /\ IsText(doc.source)
    BY DEF WellHeld
  <2>2. \A k \in DOMAIN doc.sections :
           HeadingAnchors(doc)[k] = LeastFree(githubHeadingSlug(Title(doc, k)),
                                              {HeadingAnchors(doc)[j] : j \in 1..(k - 1)})
    <3> DEFINE s == doc.source
    <3>1. doc = Doc(s) /\ IsText(s)
      BY <2>1
    <3> HIDE DEF s
    <3> QED
      BY <3>1, AnchorsAreLeast
  <2> QED
    BY <2>2 DEF AnchorsLeast, Targets, sections
<1> QED
  BY <1>1, TextsOfNavigation, PTL

-----------------------------------------------------------------------------
(***************************************************************************)
(* Outlines: what the operators of Outline make of a sequence of sections. *)
(***************************************************************************)
\* z is p, then q.
LEMMA JoinIs ==
    ASSUME NEW V, NEW p \in Seq(V), NEW q \in Seq(V), NEW z, z = p \o q,
           NEW a \in Nat, OfLength(p, a), NEW b \in Nat, OfLength(q, b)
    PROVE  z \in Seq(V) /\ IsJoin(z, p, q, a, b)
BY TwoParts, Zenon

\* Section l closes section i in f, of length n.
TreeEnds(f, n, i, l) ==
    /\ \A j \in (i + 1)..(l - 1) : f[j].level > f[i].level
    /\ l <= n => ~(f[l].level > f[i].level)

LEMMA AfterOf ==
    ASSUME NEW f, NEW n \in Nat, DOMAIN f = 1..n, OfLength(f, n),
           NEW i \in 1..n, NEW l \in (i + 1)..(n + 1), TreeEnds(f, n, i, l)
    PROVE  /\ O!Subtree(f, i) = i..(l - 1)
           /\ O!After(f, i) = l
<1> DEFINE S == O!Subtree(f, i)
           P(m) == S = i..(m - 1)
<1>1. \A k \in 1..n : (k >= i /\ \A j \in (i + 1)..k : f[j].level > f[i].level) <=> k \in i..(l - 1)
  <2> TAKE k \in 1..n
  <2>1. CASE k < i
    BY <2>1
  <2>2. CASE k >= i /\ k < l
    BY <2>2 DEF TreeEnds
  <2>3. CASE k >= l
    <3>1. l \in (i + 1)..k /\ l <= n
      BY <2>3
    <3>2. ~(f[l].level > f[i].level)
      BY <3>1 DEF TreeEnds
    <3> QED
      BY <2>3, <3>1, <3>2
  <2> QED
    BY <2>1, <2>2, <2>3
<1>2. S = {k \in DOMAIN f : k >= i /\ \A j \in (i + 1)..k : f[j].level > f[i].level}
  BY DEF O!Subtree
<1>3. \A k \in i..(l - 1) : k \in 1..n
  OBVIOUS
<1>4. S = i..(l - 1)
  BY <1>1, <1>2, <1>3
<1>5. ASSUME NEW m \in (i + 1)..(n + 1), P(m) PROVE m = l
  <2>1. i..(l - 1) = i..(m - 1)
    BY <1>4, <1>5
  <2>2. l - 1 \in i..(l - 1) /\ m - 1 \in i..(m - 1)
    BY <1>5
  <2>3. l - 1 \in i..(m - 1) /\ m - 1 \in i..(l - 1)
    BY <2>1, <2>2
  <2> QED
    BY <1>5, <2>3
<1>6. O!After(f, i) = CHOOSE m \in (i + 1)..(n + 1) : P(m)
  <2>1. Len(f) = n
    BY DEF OfLength
  <2> QED
    BY <2>1 DEF O!After
<1>7. l \in (i + 1)..(n + 1) /\ P(l)
  BY <1>4
<1> HIDE DEF P
<1>8. O!After(f, i) = l
  BY <1>5, <1>6, <1>7
<1> QED
  BY <1>4, <1>8 DEF S

\* z is f with g, of length c, for its members from i up to before l.
IsGraft(z, f, g, i, l, n, c) ==
    /\ OfLength(z, n + (c - (l - i)))
    /\ \A k \in 1..(i - 1) : z[k] = f[k]
    /\ \A k \in 1..c : z[k + (i - 1)] = g[k]
    /\ \A k \in l..n : z[k + (c - (l - i))] = f[k]

LEMMA GraftUnique ==
    ASSUME NEW V, NEW z \in Seq(V), NEW y \in Seq(V), NEW f, NEW g, NEW n \in Nat, NEW c \in Nat,
           NEW i \in 1..(n + 1), NEW l \in i..(n + 1),
           IsGraft(z, f, g, i, l, n, c), IsGraft(y, f, g, i, l, n, c)
    PROVE  z = y
<1> DEFINE x == c - (l - i)
<1>1. x \in Int /\ n + x \in Nat
  OBVIOUS
<1>2. /\ \A k \in 1..(i - 1) : z[k] = y[k]
      /\ \A k \in 1..c : z[k + (i - 1)] = y[k + (i - 1)]
      /\ \A k \in l..n : z[k + x] = y[k + x]
  BY DEF IsGraft
<1>3. ASSUME NEW k \in 1..(n + x) PROVE z[k] = y[k]
  <2>1. \/ k \in 1..(i - 1)
        \/ k - (i - 1) \in 1..c /\ (k - (i - 1)) + (i - 1) = k
        \/ k - x \in l..n /\ (k - x) + x = k
    OBVIOUS
  <2>2. CASE k \in 1..(i - 1)
    BY <1>2, <2>2
  <2>3. CASE k - (i - 1) \in 1..c /\ (k - (i - 1)) + (i - 1) = k
    BY <1>2, <2>3
  <2>4. CASE k - x \in l..n /\ (k - x) + x = k
    <3> HIDE DEF x
    <3> QED
      BY <1>2, <2>4
  <2> QED
    BY <2>1, <2>2, <2>3, <2>4
<1>4. Len(z) = n + x /\ Len(y) = n + x
  BY DEF IsGraft, OfLength
<1> HIDE DEF x
<1>5. Len(z) = Len(y) /\ \A k \in 1..Len(z) : z[k] = y[k]
  BY <1>3, <1>4
<1> QED
  BY <1>5, SameSequences

LEMMA InsertIs ==
    ASSUME NEW V, NEW f \in Seq(V), NEW g \in Seq(V),
           NEW n \in Nat, OfLength(f, n), NEW c \in Nat, OfLength(g, c),
           NEW i \in 1..(n + 1), NEW z, z = O!Insert(f, i, g)
    PROVE  z \in Seq(V) /\ IsGraft(z, f, g, i, i, n, c)
<1> DEFINE h == i - 1
           o == 0
           a == SubSeq(f, o + 1, h)
           b == SubSeq(f, h + 1, n)
           u == a \o g
           w == n - h
<1>1. h \in Nat /\ h <= n /\ w \in Nat /\ h + c \in Nat /\ 0 \in Nat /\ 0 <= h /\ n <= n
      /\ h - 0 = h
  OBVIOUS
<1>2. z = u \o b
  <2>1. O!Upto(f, i) = a
    BY DEF O!Upto, o
  <2>2. O!From(f, i) = b
    <3>1. h + 1 = i
      OBVIOUS
    <3>2. Len(f) = n
      BY DEF OfLength
    <3> QED
      BY <3>1, <3>2 DEF O!From
  <2> HIDE DEF a, b
  <2> QED
    BY <2>1, <2>2 DEF O!Insert
<1>3. a \in Seq(V) /\ OfLength(a, h) /\ \A k \in 1..h : a[k] = f[k]
  <2>1. o \in Nat /\ o <= h /\ h <= n /\ h \in Nat /\ h - o = h
    BY <1>1
  <2>2. a = SubSeq(f, o + 1, h)
    OBVIOUS
  <2> HIDE DEF h, a, o
  <2>3. IsSlice(V, a, f, o, h)
    BY <2>1, <2>2, SliceIs
  <2>4. \A k \in 1..h : o + k = k
    BY DEF o
  <2> QED
    BY <2>1, <2>3, <2>4 DEF IsSlice
<1>4. b \in Seq(V) /\ OfLength(b, w) /\ \A k \in 1..w : b[k] = f[h + k]
  <2>1. b = SubSeq(f, h + 1, n)
    OBVIOUS
  <2> HIDE DEF h, b
  <2>2. IsSlice(V, b, f, h, n)
    BY <1>1, <2>1, SliceIs
  <2> QED
    BY <2>2 DEF IsSlice
<1>5. u \in Seq(V) /\ IsJoin(u, a, g, h, c)
  <2> HIDE DEF a, h
  <2> QED
    BY <1>1, <1>3, JoinIs
<1> HIDE DEF a, b, u, w
<1>6. OfLength(u, h + c)
  BY <1>5 DEF IsJoin
<1>7. z \in Seq(V) /\ IsJoin(z, u, b, h + c, w)
  BY <1>1, <1>2, <1>4, <1>5, <1>6, JoinIs
<1>8. OfLength(z, n + (c - (i - i)))
  <2>1. (h + c) + w = n + (c - (i - i))
    BY DEF w
  <2> QED
    BY <1>7, <2>1 DEF IsJoin
<1>9. \A k \in 1..(i - 1) : z[k] = f[k]
  <2> TAKE k \in 1..(i - 1)
  <2>1. k \in 1..h /\ k \in 1..(h + c)
    OBVIOUS
  <2> HIDE DEF h
  <2> QED
    BY <1>3, <1>5, <1>7, <2>1 DEF IsJoin
<1>10. \A k \in 1..c : z[k + (i - 1)] = g[k]
  <2> TAKE k \in 1..c
  <2>1. k + (i - 1) = h + k /\ h + k \in 1..(h + c)
    OBVIOUS
  <2> HIDE DEF h
  <2>2. z[h + k] = u[h + k] /\ u[h + k] = g[k]
    BY <1>5, <1>7, <2>1 DEF IsJoin
  <2> QED
    BY <2>1, <2>2
<1>11. \A k \in i..n : z[k + (c - (i - i))] = f[k]
  <2> TAKE k \in i..n
  <2> DEFINE j == k - h
  <2>1. j \in 1..w /\ h + j = k /\ k + (c - (i - i)) = (h + c) + j
    BY DEF w
  <2> HIDE DEF h, j
  <2>2. z[(h + c) + j] = b[j] /\ b[j] = f[h + j]
    BY <1>4, <1>7, <2>1 DEF IsJoin
  <2> QED
    BY <2>1, <2>2
<1> QED
  BY <1>7, <1>8, <1>9, <1>10, <1>11 DEF IsGraft

-----------------------------------------------------------------------------
LEMMA WithoutIs ==
    ASSUME NEW V, NEW f \in Seq(V), NEW n \in Nat, OfLength(f, n), DOMAIN f = 1..n,
           NEW i \in 1..n, NEW l \in (i + 1)..(n + 1), TreeEnds(f, n, i, l),
           NEW z, z = O!Without(f, i)
    PROVE  z \in Seq(V) /\ IsGraft(z, f, << >>, i, l, n, 0)
<1> DEFINE h == i - 1
           m == l - 1
           o == 0
           a == SubSeq(f, o + 1, h)
           b == SubSeq(f, m + 1, n)
           w == n - m
<1>1. /\ h \in Nat /\ h <= n /\ m \in Nat /\ m <= n /\ w \in Nat /\ n <= n
      /\ o \in Nat /\ o <= h /\ h - o = h
  OBVIOUS
<1>2. z = a \o b
  <2>1. O!After(f, i) = l
    BY AfterOf
  <2>2. O!Upto(f, i) = a
    BY DEF O!Upto
  <2>3. m + 1 = l /\ Len(f) = n
    BY DEF OfLength
  <2>4. O!From(f, l) = b
    BY <2>3 DEF O!From
  <2> HIDE DEF a, b
  <2> QED
    BY <2>1, <2>2, <2>4 DEF O!Without
<1>3. a \in Seq(V) /\ OfLength(a, h) /\ \A k \in 1..h : a[k] = f[k]
  <2>1. a = SubSeq(f, o + 1, h)
    OBVIOUS
  <2> HIDE DEF h, a, o
  <2>2. IsSlice(V, a, f, o, h)
    BY <1>1, <2>1, SliceIs
  <2>3. \A k \in 1..h : o + k = k
    BY DEF o
  <2> QED
    BY <1>1, <2>2, <2>3 DEF IsSlice
<1>4. b \in Seq(V) /\ OfLength(b, w) /\ \A k \in 1..w : b[k] = f[m + k]
  <2>1. b = SubSeq(f, m + 1, n)
    OBVIOUS
  <2> HIDE DEF m, b
  <2>2. IsSlice(V, b, f, m, n)
    BY <1>1, <2>1, SliceIs
  <2> QED
    BY <2>2 DEF IsSlice
<1> HIDE DEF a, b, w
<1>5. z \in Seq(V) /\ IsJoin(z, a, b, h, w)
  BY <1>1, <1>2, <1>3, <1>4, JoinIs
<1>6. OfLength(z, n + (0 - (l - i)))
  <2>1. h + w = n + (0 - (l - i))
    BY DEF w
  <2> QED
    BY <1>5, <2>1 DEF IsJoin
<1>7. \A k \in 1..(i - 1) : z[k] = f[k]
  BY <1>3, <1>5 DEF IsJoin
<1>8. \A k \in l..n : z[k + (0 - (l - i))] = f[k]
  <2> TAKE k \in l..n
  <2> DEFINE j == k - m
  <2>1. j \in 1..w /\ m + j = k /\ k + (0 - (l - i)) = h + j
    BY DEF w
  <2> HIDE DEF h, j, m
  <2>2. z[h + j] = b[j] /\ b[j] = f[m + j]
    BY <1>4, <1>5, <2>1 DEF IsJoin
  <2> QED
    BY <2>1, <2>2
<1> QED
  BY <1>5, <1>6, <1>7, <1>8 DEF IsGraft

LEMMA TreeIs ==
    ASSUME NEW V, NEW f \in Seq(V), NEW n \in Nat, OfLength(f, n), DOMAIN f = 1..n,
           NEW i \in 1..n, NEW l \in (i + 1)..(n + 1), TreeEnds(f, n, i, l),
           NEW z, z = O!Tree(f, i)
    PROVE  /\ z \in Seq(V) /\ OfLength(z, l - i)
           /\ \A k \in 1..(l - i) : z[k] = f[k + (i - 1)]
<1> DEFINE h == i - 1
           m == l - 1
<1>1. h \in Nat /\ m \in Nat /\ h <= m /\ m <= n /\ m - h = l - i
  OBVIOUS
<1>2. z = SubSeq(f, h + 1, m)
  <2>1. O!After(f, i) = l
    BY AfterOf
  <2>2. h + 1 = i
    OBVIOUS
  <2> QED
    BY <2>1, <2>2 DEF O!Tree
<1> HIDE DEF m
<1>3. IsSlice(V, z, f, h, m)
  <2> HIDE DEF h
  <2> QED
    BY <1>1, <1>2, SliceIs
<1>4. \A k \in 1..(l - i) : h + k = k + (i - 1)
  OBVIOUS
<1> HIDE DEF h
<1> QED
  BY <1>1, <1>3, <1>4 DEF IsSlice

\* A tree in the place of another.
LEMMA ReplacedIs ==
    ASSUME NEW V, NEW f \in Seq(V), NEW n \in Nat, OfLength(f, n), DOMAIN f = 1..n,
           NEW i \in 1..n, NEW l \in (i + 1)..(n + 1), TreeEnds(f, n, i, l),
           NEW g \in Seq(V), NEW c \in Nat, OfLength(g, c),
           NEW z, z = O!Insert(O!Without(f, i), i, g)
    PROVE  z \in Seq(V) /\ IsGraft(z, f, g, i, l, n, c)
<1> DEFINE u == O!Without(f, i)
           m == n + (0 - (l - i))
<1>1. u \in Seq(V) /\ IsGraft(u, f, << >>, i, l, n, 0)
  <2>1. u = O!Without(f, i)
    OBVIOUS
  <2> HIDE DEF u
  <2> QED
    BY <2>1, WithoutIs
<1>2. z = O!Insert(u, i, g)
  OBVIOUS
<1> HIDE DEF u
<1>3. m \in Nat /\ i \in 1..(m + 1) /\ OfLength(u, m)
  BY <1>1 DEF IsGraft
<1>4. z \in Seq(V) /\ IsGraft(z, u, g, i, i, m, c)
  <2> HIDE DEF m
  <2> QED
    BY <1>1, <1>2, <1>3, InsertIs
<1>5. OfLength(z, n + (c - (l - i)))
  <2>1. m + (c - (i - i)) = n + (c - (l - i))
    OBVIOUS
  <2> QED
    BY <1>4, <2>1 DEF IsGraft
<1>6. \A k \in 1..(i - 1) : z[k] = f[k]
  BY <1>1, <1>4 DEF IsGraft
<1>7. \A k \in 1..c : z[k + (i - 1)] = g[k]
  BY <1>4 DEF IsGraft
<1>8. \A k \in l..n : z[k + (c - (l - i))] = f[k]
  <2> TAKE k \in l..n
  <2> DEFINE j == k + (0 - (l - i))
  <2>1. j \in i..m /\ j + (c - (i - i)) = k + (c - (l - i))
    OBVIOUS
  <2>2. u[j] = f[k]
    BY <1>1 DEF IsGraft
  <2> HIDE DEF j, m
  <2>3. z[j + (c - (i - i))] = u[j]
    BY <1>4, <2>1 DEF IsGraft
  <2> QED
    BY <2>1, <2>2, <2>3
<1> QED
  BY <1>4, <1>5, <1>6, <1>7, <1>8 DEF IsGraft

-----------------------------------------------------------------------------
(***************************************************************************)
(* The outline of a document.                                              *)
(***************************************************************************)
ForestSet(d) == {Entry(d, k) : k \in 1..Len(d.sections)}

LEMMA ForestHas ==
    ASSUME NEW d, IsDocument(d), NEW n \in Nat, Counted(d, n), NEW f, f = ForestOf(d),
           NEW V, ForestSet(d) \subseteq V
    PROVE  /\ f \in Seq(V) /\ OfLength(f, n) /\ DOMAIN f = 1..n
           /\ \A k \in 1..n : f[k] = Entry(d, k) /\ f[k].level = d.sections[k].level
<1>1. f = [k \in 1..n |-> Entry(d, k)]
  BY ForestIs DEF Counted
<1>2. \A k \in 1..n : f[k] = Entry(d, k) /\ Entry(d, k).level = d.sections[k].level
  BY <1>1 DEF Entry
<1>3. \A k \in 1..n : Entry(d, k) \in V
  BY DEF ForestSet, Counted
<1>4. [k \in 1..n |-> Entry(d, k)] \in Seq(V)
  BY <1>3
<1>5. Len(f) = n
  BY <1>1
<1> QED
  BY <1>1, <1>2, <1>4, <1>5 DEF OfLength

LEMMA ClosersEnd ==
    ASSUME NEW d, IsDocument(d), NEW n \in Nat, Counted(d, n), NEW i \in 1..n,
           NEW l, Closer(d.sections, i, l), NEW f, f = ForestOf(d)
    PROVE  /\ l \in (i + 1)..(n + 1)
           /\ TreeEnds(f, n, i, l)
<1>1. \A k \in 1..n : f[k].level = d.sections[k].level /\ d.sections[k].level \in 1..6
  <2>1. \A k \in 1..n : f[k].level = d.sections[k].level
    BY ForestHas
  <2>2. \A k \in 1..n : SectionLies(d, k)
    BY DEF IsDocument, Counted
  <2> QED
    BY <2>1, <2>2 DEF SectionLies
<1>2. /\ l \in (i + 1)..(n + 1)
      /\ \A j \in (i + 1)..(l - 1) : d.sections[j].level > d.sections[i].level
      /\ l <= n => d.sections[l].level <= d.sections[i].level
  BY DEF Closer, Counted
<1>3. \A j \in (i + 1)..(l - 1) : j \in 1..n
  BY <1>2
<1>4. l <= n => l \in 1..n
  BY <1>2
<1> QED
  BY <1>1, <1>2, <1>3, <1>4 DEF TreeEnds

\* sectionSubtreeEndIndex finds the section that closes.
LEMMA SubtreeEndIs ==
    ASSUME NEW d, IsDocument(d), NEW n \in Nat, Counted(d, n), NEW i \in 1..n,
           NEW l, Closer(d.sections, i, l)
    PROVE  /\ {k \in DOMAIN d.sections : StartsInside(d.sections[k], d.sections[i].range)}
                 = i..(l - 1)
           /\ SubtreeEnd(d.sections, i) = l
           /\ d.sections[i].range = [start |-> StartOf(d, i), end |-> StartOf(d, l)]
<1> DEFINE r == d.sections[i].range
           S == {k \in DOMAIN d.sections : StartsInside(d.sections[k], r)}
<1>1. l \in (i + 1)..(n + 1) /\ DOMAIN d.sections = 1..n
  BY DEF Closer, Counted, IsDocument
<1>2. r = [start |-> StartOf(d, i), end |-> StartOf(d, l)]
  <2>1. SectionLies(d, i) /\ i \in 1..Len(d.sections)
    BY DEF IsDocument, Counted
  <2>2. StartOf(d, i) = d.sections[i].heading.start
    BY <2>1, PartsLie
  <2> QED
    BY <2>1, <2>2 DEF SectionLies
<1>3. /\ \A k \in 1..n : d.sections[k].range.start = StartOf(d, k)
      /\ \A k \in 1..(n + 1) : StartOf(d, k) \in Nat
      /\ \A k \in 1..n : \A m \in 1..(n + 1) : k < m => StartOf(d, k) < StartOf(d, m)
  <2>1. \A k \in 1..n : /\ d.sections[k].range.start = StartOf(d, k)
                        /\ StartOf(d, k) = d.sections[k].heading.start
                        /\ d.sections[k].heading.end \in Nat
                        /\ StartOf(d, k) < d.sections[k].heading.end
                        /\ d.sections[k].heading.end <= Len(d.source)
    <3> TAKE k \in 1..n
    <3>1. k \in 1..Len(d.sections) /\ SectionLies(d, k)
      BY DEF IsDocument, Counted
    <3>2. /\ StartOf(d, k) = d.sections[k].heading.start
          /\ d.sections[k].range.start = d.sections[k].heading.start
      BY <3>1, PartsLie
    <3> QED
      BY <3>1, <3>2 DEF SectionLies
  <2>2. \A k \in 1..(n + 1) : StartOf(d, k) \in Nat
    BY StartsIn DEF Counted
  <2>3. Len(d.source) \in Nat /\ StartOf(d, n + 1) = Len(d.source)
    BY StartsIn DEF Counted
  <2>4. ASSUME NEW k \in 1..n, NEW m \in 1..(n + 1), k < m
        PROVE  StartOf(d, k) < StartOf(d, m)
    <3>1. CASE m = n + 1
      <4>1. StartOf(d, m) = Len(d.source)
        BY <2>3, <3>1
      <4> QED
        BY SMTT(40), <2>1, <2>2, <2>3, <4>1
    <3>2. CASE m # n + 1
      <4>1. m \in 1..n
        BY <3>2
      <4>2. d.sections[k].heading.end < d.sections[m].heading.start
        BY <2>4, <4>1 DEF IsDocument, Counted
      <4>3. StartOf(d, k) < d.sections[k].heading.end /\ StartOf(d, m) \in Nat
            /\ StartOf(d, k) \in Nat /\ d.sections[k].heading.end \in Nat
            /\ StartOf(d, m) = d.sections[m].heading.start
        BY <2>1, <2>2, <4>1
      <4> QED
        BY <4>2, <4>3
    <3> QED
      BY <3>1, <3>2
  <2> QED
    BY <2>1, <2>2, <2>4
<1>4. \A k \in 1..n : StartsInside(d.sections[k], r) <=> k \in i..(l - 1)
  <2> TAKE k \in 1..n
  <2>1. StartsInside(d.sections[k], r)
           <=> StartOf(d, i) <= StartOf(d, k) /\ StartOf(d, k) < StartOf(d, l)
    <3>1. r.start = StartOf(d, i) /\ r.end = StartOf(d, l)
      BY <1>2
    <3> HIDE DEF r
    <3> QED
      BY <1>3, <3>1 DEF StartsInside, Holds
  <2>2. i \in 1..(n + 1) /\ l \in 1..(n + 1) /\ k \in 1..(n + 1)
    BY <1>1
  <2>3. CASE k < i
    <3>1. StartOf(d, k) < StartOf(d, i) /\ StartOf(d, k) \in Nat /\ StartOf(d, i) \in Nat
      BY <1>3, <2>2, <2>3
    <3> QED
      BY <2>1, <2>3, <3>1
  <2>4. CASE i <= k /\ k < l
    <3>1. StartOf(d, k) < StartOf(d, l) /\ StartOf(d, k) \in Nat /\ StartOf(d, i) \in Nat
          /\ (i < k => StartOf(d, i) < StartOf(d, k)) /\ k \in i..(l - 1)
      BY <1>1, <1>3, <2>2, <2>4
    <3>2. i < k \/ i = k
      BY <2>4
    <3> QED
      BY <2>1, <3>1, <3>2
  <2>5. CASE l <= k
    <3>1. l \in 1..n /\ (l < k \/ l = k) /\ k \notin i..(l - 1)
      BY <1>1, <2>5
    <3>2. StartOf(d, l) <= StartOf(d, k) /\ StartOf(d, k) \in Nat /\ StartOf(d, l) \in Nat
      BY <1>3, <2>2, <3>1
    <3> QED
      BY <2>1, <3>1, <3>2
  <2> QED
    BY <1>1, <2>3, <2>4, <2>5
<1>5. S = i..(l - 1)
  <2>1. \A k \in i..(l - 1) : k \in 1..n
    BY <1>1
  <2> HIDE DEF r
  <2> QED
    BY <1>1, <1>4, <2>1
<1>6. Cardinality(S) = l - i
  <2> DEFINE h == l - 1
  <2>1. h \in Int /\ i \in Int /\ ~(i > h) /\ h - i + 1 = l - i
    BY <1>1
  <2>2. S = i..h
    BY <1>5
  <2> HIDE DEF h, S
  <2>3. Cardinality(i..h) = IF i > h THEN 0 ELSE h - i + 1
    BY <2>1, FS_Interval
  <2> QED
    BY <2>1, <2>2, <2>3
<1>7. SubtreeEnd(d.sections, i) = i + Cardinality(S)
  BY DEF SubtreeEnd
<1>8. SubtreeEnd(d.sections, i) = l
  <2> HIDE DEF S
  <2> QED
    BY <1>1, <1>6, <1>7
<1> QED
  BY <1>2, <1>5, <1>8

-----------------------------------------------------------------------------
(***************************************************************************)
(* What the checks of a candidate say, section by section.                 *)
(***************************************************************************)
LEMMA CandidateIs ==
    ASSUME WellHeld, NEW a \in Nat, NEW b \in Nat, a <= b, b <= Len(doc.source),
           NEW t, IsText(t), NEW e, e = Candidate(Change(<<Patch(a, b, t)>>))
    PROVE  IsDocument(e) /\ IsCut(e.source, doc.source, a, b, t)
<1> DEFINE p == Patch(a, b, t)
           q == InOrder(<<p>>)
           u == Splice(doc.source, q)
<1>1. Change(<<p>>).patches = q
  <2> HIDE DEF p
  <2> QED
    BY DEF Change
<1>2. e = Doc(u)
  BY <1>1 DEF Candidate
<1>3. IsText(u) /\ IsCut(u, doc.source, a, b, t)
  <2>1. p = Patch(a, b, t) /\ q = InOrder(<<p>>) /\ IsText(doc.source)
    BY DEF WellHeld
  <2> HIDE DEF p, q
  <2> QED
    BY <2>1, CutIs
<1> HIDE DEF u
<1>4. IsDocument(e) /\ e.source = u
  BY <1>2, <1>3, TextsMakeDocuments, DocIs
<1> QED
  BY <1>3, <1>4

LEMMA KeptSynced ==
    ASSUME NEW d, IsDocument(d), NEW n \in Nat, Counted(d, n), NEW k \in 1..n, NEW e, NEW m,
           NEW a \in Nat, NEW b \in Nat, a <= b, NEW t, IsText(t),
           NEW p, p = Patch(a, b, t),
           SameHeading(d, d.sections[k], e.sections[m], e.source,
                       RangeAfterPatches(d.sections[k].heading, <<p>>))
    PROVE  /\ d.sections[k].heading.end <= a => Synced(d, k, e, m, 0)
           /\ b <= d.sections[k].heading.start => Synced(d, k, e, m, Len(t) - (b - a))
<1> DEFINE h == d.sections[k].heading
           o == e.sections[m]
<1>1. h.start \in Nat /\ h.end \in Nat /\ h.start < h.end
  <2>1. k \in 1..Len(d.sections)
    BY DEF Counted
  <2> QED
    BY <2>1, PartsLie
<1>2. o.level = d.sections[k].level /\ o.heading = RangeAfterPatches(h, <<p>>)
  BY DEF SameHeading
<1>3. PICK V : t \in Seq(V)
  BY DEF IsText
<1>4. p \in Patches(V) /\ p.start = a /\ p.end = b /\ Delta(p) = Len(t) - (b - a)
      /\ Len(t) \in Nat
  BY <1>3 DEF Patch, Patches, Delta
<1> HIDE DEF h, o
<1>5. /\ p.start >= h.end => RangeAfterPatches(h, <<p>>) = Shifted(h, 0)
      /\ p.start < h.end /\ p.end <= h.start =>
            RangeAfterPatches(h, <<p>>) = Shifted(h, Delta(p))
  <2>1. h.start \in Int /\ h.end \in Int
    BY <1>1
  <2> QED
    BY <1>4, <2>1, RangeOne
<1>6. ASSUME NEW x \in Int, o.heading = Shifted(h, x) PROVE Synced(d, k, e, m, x)
  <2>1. o.heading.start = h.start + x /\ o.heading.end = h.end + x
    BY <1>6 DEF Shifted
  <2> QED
    BY <1>2, <2>1 DEF Synced, o, h
<1>7. h.end <= a => o.heading = Shifted(h, 0)
  BY <1>1, <1>2, <1>4, <1>5
<1>8. b <= h.start => o.heading = Shifted(h, Len(t) - (b - a))
  <2> SUFFICES ASSUME b <= h.start PROVE o.heading = Shifted(h, Len(t) - (b - a))
    OBVIOUS
  <2>1. p.start < h.end /\ p.end <= h.start
    BY <1>1, <1>4
  <2> QED
    BY <1>2, <1>4, <1>5, <2>1
<1>9. Len(t) - (b - a) \in Int /\ 0 \in Int
  BY <1>4
<1> QED
  BY <1>6, <1>7, <1>8, <1>9 DEF h

LEMMA FragmentSynced ==
    ASSUME NEW e, NEW t, NEW f, f = Doc(t), NEW c \in Nat, Counted(f, c), IsDocument(f),
           NEW i \in Nat, NEW x, FragmentInserted(e, t, i, x)
    PROVE  \A k \in 1..c : Synced(f, k, e, k + (i - 1), x)
<1> TAKE k \in 1..c
<1>1. k \in DOMAIN f.sections
  BY DEF IsDocument, Counted
<1>2. /\ e.sections[i + k - 1].level = f.sections[k].level
      /\ e.sections[i + k - 1].heading = Shifted(f.sections[k].heading, x)
  BY <1>1 DEF FragmentInserted
<1>3. i + k - 1 = k + (i - 1)
  OBVIOUS
<1>4. e.sections[k + (i - 1)].heading.start = f.sections[k].heading.start + x
      /\ e.sections[k + (i - 1)].heading.end = f.sections[k].heading.end + x
  BY <1>2, <1>3 DEF Shifted
<1> QED
  BY <1>2, <1>3, <1>4 DEF Synced

\* A fragment is one tree.
LEMMA FragmentIs ==
    ASSUME NEW t, IsText(t), NEW f, f = Doc(t), NEW level, IsFragment(t, level)
    PROVE  /\ IsDocument(f) /\ f.source = t
           /\ Len(f.sections) \in Nat /\ Len(f.sections) # 0
           /\ StartOf(f, 1) = 0
           /\ O!IsTree(ForestOf(f), level)
<1>1. IsDocument(f) /\ f.source = t
  BY TextsMakeDocuments, DocIs
<1>2. PICK c \in Nat : Counted(f, c)
  BY <1>1 DEF IsDocument, Counted
<1>3. f.sections # << >> /\ f.sections[1].level = level
      /\ f.sections[1].range = [start |-> 0, end |-> Len(t)]
  BY DEF IsFragment
<1>4. c # 0
  <2> SUFFICES ASSUME c = 0 PROVE FALSE
    OBVIOUS
  <2>1. f.sections = [k \in 1..0 |-> f.sections[k]]
    BY <1>1, <1>2 DEF IsDocument, Counted
  <2> QED
    BY <1>3, <2>1
<1>5. 1 \in 1..c
  BY <1>4
<1>6. PICK l : Closer(f.sections, 1, l)
  BY <1>1, <1>2, <1>5 DEF IsDocument, SectionLies, Counted
<1>7. f.sections[1].range = [start |-> StartOf(f, 1), end |-> StartOf(f, l)]
  BY <1>1, <1>2, <1>5, <1>6, SubtreeEndIs
<1>8. StartOf(f, 1) = 0 /\ StartOf(f, l) = Len(f.source)
  BY <1>1, <1>3, <1>7
<1> DEFINE g == ForestOf(f)
           V == ForestSet(f)
<1>9. l \in (1 + 1)..(c + 1) /\ TreeEnds(g, c, 1, l)
  BY <1>1, <1>2, <1>5, <1>6, ClosersEnd
<1>10. l = c + 1
  <2> SUFFICES ASSUME l # c + 1 PROVE FALSE
    OBVIOUS
  <2>1. l \in 1..c
    BY <1>9
  <2>2. l \in 1..Len(f.sections)
    BY <1>2, <2>1 DEF Counted
  <2>3. StartOf(f, l) = f.sections[l].heading.start /\ SectionLies(f, l)
    BY <1>1, <2>2, PartsLie DEF IsDocument
  <2>4. StartOf(f, l) < Len(f.source)
    <3>1. Len(f.source) \in Nat
      BY <1>1, StartsIn
    <3> QED
      BY <2>3, <3>1 DEF SectionLies
  <2>5. Len(f.source) \in Nat
    BY <1>1, StartsIn
  <2> QED
    BY <1>8, <2>4, <2>5
<1>11. /\ g \in Seq(V) /\ OfLength(g, c) /\ g[1].level = f.sections[1].level
  <2> HIDE DEF V, g
  <2> QED
    BY <1>1, <1>2, <1>5, ForestHas DEF V, g
<1> HIDE DEF g, V
<1>12. Len(g) = c
  BY <1>11 DEF OfLength
<1>13. g # << >>
  BY <1>4, <1>11, <1>12
<1>14. \A k \in 2..c : g[k].level > g[1].level
  <2>1. \A k \in 2..c : k \in (1 + 1)..(l - 1)
    BY <1>10
  <2> QED
    BY <1>9, <2>1 DEF TreeEnds
<1>15. O!IsTree(g, level)
  BY <1>3, <1>11, <1>12, <1>13, <1>14 DEF O!IsTree
<1> QED
  BY <1>1, <1>2, <1>4, <1>8, <1>15 DEF g, Counted

LEMMA ForestAt ==
    ASSUME NEW d, IsDocument(d), NEW n \in Nat, Counted(d, n), NEW f, f = ForestOf(d)
    PROVE  OfLength(f, n) /\ \A k \in 1..n : f[k] = Entry(d, k)
BY ForestHas

LEMMA ForestGrafted ==
    ASSUME NEW d, NEW e, NEW f, IsDocument(d), IsDocument(e), IsDocument(f),
           NEW n \in Nat, Counted(d, n), NEW c \in Nat, Counted(f, c),
           NEW i \in 1..(n + 1), NEW l \in i..(n + 1), Grafted(d, e, f, i, l)
    PROVE  /\ IsGraft(ForestOf(e), ForestOf(d), ForestOf(f), i, l, n, c)
           /\ PreambleOf(e) = PreambleOf(d)
<1>1. PICK z \in Nat : Long(f, z)
  <2>1. Len(f.source) \in Nat
    BY StartsIn
  <2> QED
    BY <2>1 DEF Long
<1>2. i \in 1..(n + 1) /\ l \in 1..(n + 1)
  OBVIOUS
<1>3. PICK a \in Nat : a = StartOf(d, i)
  BY <1>2, StartsIn DEF Counted
<1>4. PICK b \in Nat : b = StartOf(d, l)
  BY <1>2, StartsIn DEF Counted
<1>5. PICK x \in Int : x = z - (b - a)
  OBVIOUS
<1>6. PICK y \in Int : y = c - (l - i)
  OBVIOUS
<1>7. Kept(d, e, f, i, l, n, c, y)
  <2> HIDE DEF Kept
  <2> QED
    BY <1>1, <1>3, <1>4, <1>5, <1>6, GraftedEntries
<1>8. Counted(e, n + y)
  BY <1>1, <1>3, <1>4, <1>5, <1>6, GraftedStarts
<1> DEFINE F == ForestOf(d)
           G == ForestOf(f)
           H == ForestOf(e)
           m == n + y
<1>0. F = ForestOf(d) /\ G = ForestOf(f) /\ H = ForestOf(e) /\ m \in Nat
  BY <1>6
<1> HIDE DEF F, G, H
<1>9. \A k \in 1..n : F[k] = Entry(d, k)
  BY <1>0, ForestAt
<1>10. \A k \in 1..c : G[k] = Entry(f, k)
  BY <1>0, ForestAt
<1>11. OfLength(H, n + y) /\ \A k \in 1..(n + y) : H[k] = Entry(e, k)
  <2>1. Counted(e, m)
    BY <1>8
  <2> HIDE DEF m
  <2>2. OfLength(H, m) /\ \A k \in 1..m : H[k] = Entry(e, k)
    BY <1>0, <2>1, ForestAt
  <2> QED
    BY <2>2 DEF m
<1> HIDE DEF m
<1>12. \A k \in 1..(i - 1) : H[k] = F[k]
  <2> TAKE k \in 1..(i - 1)
  <2>1. k \in 1..(n + y) /\ k \in 1..n
    BY <1>6
  <2> QED
    BY <1>7, <1>9, <1>11, <2>1 DEF Kept
<1>13. \A k \in 1..c : H[k + (i - 1)] = G[k]
  <2> TAKE k \in 1..c
  <2>1. k + (i - 1) \in 1..(n + y)
    BY <1>6
  <2> QED
    BY <1>7, <1>10, <1>11, <2>1 DEF Kept
<1>14. \A k \in l..n : H[k + y] = F[k]
  <2> TAKE k \in l..n
  <2>1. k + y \in 1..(n + y) /\ k \in 1..n
    BY <1>6
  <2> QED
    BY <1>7, <1>9, <1>11, <2>1 DEF Kept
<1> QED
  BY <1>6, <1>7, <1>11, <1>12, <1>13, <1>14 DEF IsGraft, F, G, H, Kept

-----------------------------------------------------------------------------
LEMMA HeadsSynced ==
    ASSUME WellHeld, NEW n \in Nat, Counted(doc, n), NEW i \in 1..(n + 1), NEW l \in i..(n + 1),
           NEW a, a = StartOf(doc, i), NEW b, b = StartOf(doc, l),
           NEW t, IsText(t), NEW p, p = Patch(a, b, t), NEW e,
           HeadingsKept(doc, e, 1, SubSeq(sections, 1, i - 1), <<p>>)
    PROVE  \A k \in 1..(i - 1) : Synced(doc, k, e, k, 0)
<1> DEFINE h == i - 1
           o == 0
           x == SubSeq(doc.sections, o + 1, h)
<1>0. IsDocument(doc)
  BY DocumentIs
<1>1. h \in Nat /\ h <= n /\ o \in Nat /\ o <= h
  OBVIOUS
<1>2. DOMAIN x = 1..h /\ \A k \in 1..h : x[k] = doc.sections[k]
  <2>1. x = SubSeq(doc.sections, o + 1, h)
    OBVIOUS
  <2>2. h - o = h /\ \A k \in 1..h : o + k = k
    OBVIOUS
  <2> HIDE DEF h, o, x
  <2>3. DOMAIN x = 1..(h - o) /\ \A k \in 1..(h - o) : x[k] = doc.sections[o + k]
    BY <1>0, <1>1, <2>1, SectionSlice
  <2> QED
    BY <2>2, <2>3
<1>3. HeadingsKept(doc, e, 1, x, <<p>>)
  BY DEF sections
<1> HIDE DEF x
<1>4. i \in 1..(n + 1) /\ l \in 1..(n + 1) /\ 1 <= i /\ i <= l /\ (i < l \/ i = l)
      /\ i \in Nat /\ l \in Nat
  OBVIOUS
<1>5. a \in Nat /\ b \in Nat /\ a <= b
  BY <1>0, <1>4, StartsIn DEF Counted
<1> TAKE k \in 1..(i - 1)
<1>6. k \in 1..h /\ k \in 1..n /\ 1 + k - 1 = k /\ k + 1 \in 1..(n + 1)
      /\ (k + 1 < i \/ k + 1 = i)
  BY <1>4
<1>7. k \in 1..Len(doc.sections)
  BY <1>6 DEF Counted
<1>8. SameHeading(doc, doc.sections[k], e.sections[k], e.source,
                  RangeAfterPatches(doc.sections[k].heading, <<p>>))
  BY <1>2, <1>3, <1>6 DEF HeadingsKept
<1>9. doc.sections[k].heading.end <= a
  <2>1. StartOf(doc, k + 1) \in Nat /\ StartOf(doc, k + 1) <= a
    BY <1>0, <1>4, <1>5, <1>6, StartsIn DEF Counted
  <2>2. doc.sections[k].heading.end <= StartOf(doc, k + 1)
    BY <1>0, <1>7, HeadingEnds
  <2>3. doc.sections[k].heading.end \in Nat
    BY <1>0, <1>7, PartsLie
  <2> QED
    BY <1>5, <2>1, <2>2, <2>3
<1> HIDE DEF h
<1> QED
  BY <1>0, <1>5, <1>6, <1>8, <1>9, KeptSynced

LEMMA TailsSynced ==
    ASSUME WellHeld, NEW n \in Nat, Counted(doc, n), NEW i \in 1..(n + 1), NEW l \in i..(n + 1),
           NEW a, a = StartOf(doc, i), NEW b, b = StartOf(doc, l),
           NEW t, IsText(t), NEW z \in Nat, OfLength(t, z), NEW p, p = Patch(a, b, t), NEW e,
           NEW y \in Int, NEW m, m = l + y,
           HeadingsKept(doc, e, m, SubSeq(sections, l, Len(sections)), <<p>>)
    PROVE  \A k \in l..n : Synced(doc, k, e, k + y, z - (b - a))
<1> DEFINE h == l - 1
           x == SubSeq(doc.sections, h + 1, n)
<1>0. IsDocument(doc)
  BY DocumentIs
<1>1. h \in Nat /\ h <= n /\ n <= n
  OBVIOUS
<1>2. DOMAIN x = 1..(n - h) /\ \A k \in 1..(n - h) : x[k] = doc.sections[h + k]
  <2>1. x = SubSeq(doc.sections, h + 1, n)
    OBVIOUS
  <2> HIDE DEF h, x
  <2> QED
    BY <1>0, <1>1, <2>1, SectionSlice
<1>3. HeadingsKept(doc, e, m, x, <<p>>)
  <2>1. h + 1 = l /\ n = Len(sections)
    BY DEF Counted, sections
  <2> QED
    BY <2>1 DEF sections
<1> HIDE DEF x
<1>4. i \in 1..(n + 1) /\ l \in 1..(n + 1) /\ 1 <= i /\ i <= l /\ (i < l \/ i = l)
      /\ i \in Nat /\ l \in Nat
  OBVIOUS
<1>5. a \in Nat /\ b \in Nat /\ a <= b
  BY <1>0, <1>4, StartsIn DEF Counted
<1> TAKE k \in l..n
<1>6. k \in 1..n /\ k \in 1..(n + 1) /\ (l < k \/ l = k) /\ k - h \in 1..(n - h)
      /\ h + (k - h) = k /\ m + (k - h) - 1 = k + y
  BY <1>4
<1>7. k \in 1..Len(doc.sections)
  BY <1>6 DEF Counted
<1>8. SameHeading(doc, doc.sections[k], e.sections[k + y], e.source,
                  RangeAfterPatches(doc.sections[k].heading, <<p>>))
  <2> DEFINE j == k - h
  <2>1. j \in DOMAIN x /\ x[j] = doc.sections[k] /\ m + j - 1 = k + y
    BY <1>2, <1>6
  <2> HIDE DEF j
  <2>2. SameHeading(doc, x[j], e.sections[m + j - 1], e.source,
                    RangeAfterPatches(x[j].heading, <<p>>))
    BY <1>3, <2>1 DEF HeadingsKept
  <2> QED
    BY <2>1, <2>2
<1>9. b <= doc.sections[k].heading.start
  <2>1. StartOf(doc, k) \in Nat /\ b <= StartOf(doc, k)
    BY <1>0, <1>4, <1>5, <1>6, StartsIn DEF Counted
  <2>2. doc.sections[k].heading.start = StartOf(doc, k)
    BY <1>0, <1>7, PartsLie
  <2> QED
    BY <2>1, <2>2
<1>10. Len(t) = z
  BY DEF OfLength
<1>11. Synced(doc, k, e, k + y, Len(t) - (b - a))
  <2> DEFINE g == k + y
  <2>1. SameHeading(doc, doc.sections[k], e.sections[g], e.source,
                  RangeAfterPatches(doc.sections[k].heading, <<p>>))
    BY <1>8
  <2> HIDE DEF g, h
  <2>2. Synced(doc, k, e, g, Len(t) - (b - a))
    BY <1>0, <1>5, <1>6, <1>9, <2>1, KeptSynced
  <2> QED
    BY <2>2 DEF g
<1> QED
  BY <1>10, <1>11

-----------------------------------------------------------------------------
(***************************************************************************)
(* What is left when a run of places is left out.                          *)
(***************************************************************************)
PickedLength(m, i, l) == IF m < i THEN m ELSE IF m < l THEN i - 1 ELSE m - (l - i)

IsPicked(x, q, m, i, l) ==
    /\ OfLength(x, PickedLength(m, i, l))
    /\ \A k \in 1..m : k < i => x[k] = q[k]
    /\ \A k \in 1..m : k >= l => x[k - (l - i)] = q[k]

LEMMA PickedStep ==
    ASSUME NEW V, NEW x \in Seq(V), NEW y \in Seq(V), NEW q, NEW m \in Nat,
           NEW i \in Nat, NEW l \in Nat, 1 <= i, i <= l, IsPicked(x, q, m, i, l),
           NEW w \in Nat, OfLength(y, w),
           IF m + 1 \in i..(l - 1) THEN w = 0 ELSE w = 1 /\ y[1] = q[m + 1],
           NEW z, z = x \o y
    PROVE  IsPicked(z, q, m + 1, i, l)
<1> DEFINE a == PickedLength(m, i, l)
<1>1. a \in Nat /\ OfLength(x, a)
  BY DEF PickedLength, IsPicked
<1>2. a + w = PickedLength(m + 1, i, l)
  BY DEF PickedLength
<1>3. (m + 1 < i => a = m) /\ (m + 1 >= l => a + 1 = (m + 1) - (l - i))
      /\ \A k \in 1..m : (k < i => k \in 1..a) /\ (k >= l => k - (l - i) \in 1..a)
  BY DEF PickedLength
<1> HIDE DEF a
<1>4. IsJoin(z, x, y, a, w)
  BY <1>1, JoinIs
<1>5. ASSUME NEW k \in 1..(m + 1), k < i PROVE z[k] = q[k]
  <2>1. CASE k \in 1..m
    <3>1. k \in 1..a /\ x[k] = q[k]
      BY <1>3, <1>5, <2>1 DEF IsPicked
    <3> QED
      BY <1>4, <3>1 DEF IsJoin
  <2>2. CASE k = m + 1
    <3>1. w = 1 /\ y[1] = q[m + 1] /\ a = m /\ 1 \in 1..w /\ a + 1 = k
      BY <1>3, <1>5, <2>2
    <3> QED
      BY <1>4, <2>2, <3>1 DEF IsJoin
  <2>3. k \in 1..m \/ k = m + 1
    OBVIOUS
  <2> QED
    BY <2>1, <2>2, <2>3, Zenon
<1>6. ASSUME NEW k \in 1..(m + 1), k >= l PROVE z[k - (l - i)] = q[k]
  <2>1. CASE k \in 1..m
    <3> DEFINE j == k - (l - i)
    <3>1. j \in 1..a /\ x[j] = q[k]
      BY <1>3, <1>6, <2>1 DEF IsPicked
    <3> HIDE DEF j
    <3>2. z[j] = q[k]
      BY <1>4, <3>1 DEF IsJoin
    <3> QED
      BY <3>2 DEF j
  <2>2. CASE k = m + 1
    <3>1. w = 1 /\ y[1] = q[m + 1] /\ 1 \in 1..w /\ a + 1 = k - (l - i)
      BY <1>3, <1>6, <2>2
    <3>2. z[a + 1] = y[1]
      BY <1>4, <3>1 DEF IsJoin
    <3> QED
      BY <2>2, <3>1, <3>2
  <2>3. k \in 1..m \/ k = m + 1
    OBVIOUS
  <2> QED
    BY <2>1, <2>2, <2>3, Zenon
<1>7. OfLength(z, PickedLength(m + 1, i, l))
  BY <1>2, <1>4 DEF IsJoin
<1> QED
  BY <1>5, <1>6, <1>7 DEF IsPicked

LEMMA PickedOutside ==
    ASSUME NEW V, NEW q \in Seq(V), NEW n \in Nat, OfLength(q, n), DOMAIN q = 1..n,
           NEW i \in 1..(n + 1), NEW l \in i..(n + 1),
           NEW S, \A k \in 1..n : k \in S <=> ~(k \in i..(l - 1)),
           NEW x, x = Picked(q, S)
    PROVE  IsPicked(x, q, n, i, l) /\ x \in Seq(V)
<1> DEFINE a == [k \in 1..n |-> IF k \in S THEN <<q[k]>> ELSE << >>]
           nil == << >>
           W == Seq(V)
<1>1. \A k \in 1..n : a[k] \in W
  <2> TAKE k \in 1..n
  <2>1. q[k] \in V
    OBVIOUS
  <2>2. <<q[k]>> \in W /\ << >> \in W
    BY <2>1
  <2> HIDE DEF W
  <2> QED
    BY <2>2
<1>2. [k \in 1..n |-> a[k]] \in Seq(W)
  <2> HIDE DEF a, W
  <2> QED
    BY <1>1
<1>3. a \in Seq(W) /\ OfLength(a, n)
  <2>1. a = [k \in 1..n |-> a[k]]
    OBVIOUS
  <2> HIDE DEF a, W
  <2>2. a \in Seq(W)
    BY <1>2, <2>1, Zenon
  <2>3. Len([k \in 1..n |-> a[k]]) = n
    OBVIOUS
  <2>4. Len(a) = n
    BY <2>1, <2>3, Zenon
  <2> QED
    BY <2>2, <2>4 DEF OfLength
<1>4. x = FlattenSeq(a)
  BY DEF Picked
<1>5. \A k \in 1..n : a[k] = IF k \in i..(l - 1) THEN << >> ELSE <<q[k]>>
  OBVIOUS
<1> HIDE DEF a
<1>6. PICK f \in [0..n -> W] : Chained(f, n, nil, a) /\ x = f[n]
  <2>1. Len(a) = n
    BY <1>3 DEF OfLength
  <2>2. \E g \in [0..Len(a) -> Seq(V)] :
           Chained(g, Len(a), << >>, a) /\ FlattenSeq(a) = g[Len(a)]
    BY <1>3, FlattenIsChained, Zenon
  <2> QED
    BY <1>4, <2>1, <2>2, Zenon
<1> DEFINE X == {m \in Nat : m <= n => IsPicked(f[m], q, m, i, l)}
<1>7. 0 \in X
  <2>1. f[0] = nil
    BY <1>6 DEF Chained
  <2>2. OfLength(nil, 0)
    BY DEF OfLength
  <2>3. PickedLength(0, i, l) = 0
    BY DEF PickedLength
  <2> HIDE DEF nil
  <2>4. IsPicked(f[0], q, 0, i, l)
    BY <2>1, <2>2, <2>3 DEF IsPicked
  <2> QED
    BY <2>4
<1>8. ASSUME NEW m \in Nat, m \in X PROVE m + 1 \in X
  <2> SUFFICES ASSUME m + 1 <= n PROVE IsPicked(f[m + 1], q, m + 1, i, l)
    OBVIOUS
  <2>1. m \in 0..n /\ m + 1 \in 0..n /\ m + 1 # 0 /\ (m + 1) - 1 = m /\ m + 1 \in 1..n
    OBVIOUS
  <2>2. f[m + 1] = f[m] \o a[m + 1]
    BY <1>6, <2>1 DEF Chained
  <2>3. f[m] \in Seq(V) /\ a[m + 1] \in Seq(V) /\ IsPicked(f[m], q, m, i, l)
    BY <1>1, <1>6, <1>8, <2>1
  <2>4. PICK w \in Nat :
           /\ OfLength(a[m + 1], w)
           /\ IF m + 1 \in i..(l - 1) THEN w = 0 ELSE w = 1 /\ a[m + 1][1] = q[m + 1]
    <3>1. CASE m + 1 \in i..(l - 1)
      <4>1. a[m + 1] = << >> /\ Len(<< >>) = 0
        BY <1>5, <2>1, <3>1
      <4>2. OfLength(a[m + 1], 0)
        BY <4>1 DEF OfLength
      <4> QED
        BY <3>1, <4>2
    <3>2. CASE ~(m + 1 \in i..(l - 1))
      <4> DEFINE u == <<q[m + 1]>>
      <4>1. a[m + 1] = u
        BY <1>5, <2>1, <3>2
      <4>2. Len(u) = 1 /\ u[1] = q[m + 1]
        OBVIOUS
      <4> HIDE DEF u
      <4>3. OfLength(a[m + 1], 1) /\ a[m + 1][1] = q[m + 1]
        BY <4>1, <4>2 DEF OfLength
      <4> QED
        BY <3>2, <4>3
    <3> QED
      BY <3>1, <3>2
  <2>5. i \in Nat /\ l \in Nat /\ 1 <= i /\ i <= l
    OBVIOUS
  <2> HIDE DEF W, X
  <2> QED
    BY <2>2, <2>3, <2>4, <2>5, PickedStep
<1>9. Nat \subseteq X
  <2> HIDE DEF X
  <2> QED
    BY <1>7, <1>8, NatSetInduction
<1>10. n \in X /\ n <= n /\ n \in 0..n
  BY <1>9
<1> QED
  BY <1>6, <1>10

-----------------------------------------------------------------------------
(***************************************************************************)
(* What is accepted does to the outline what the operation's name says.    *)
(***************************************************************************)
Outlined(d, e) ==
    /\ PreambleOf(e) = PreambleOf(d)
    /\ \E i \in DOMAIN ForestOf(d) : ForestOf(e) \in O!Edits(ForestOf(d), i)

LEMMA SplicedIs ==
    ASSUME WellHeld, NEW n \in Nat, Counted(doc, n), NEW i \in 1..(n + 1), NEW l \in i..(n + 1),
           NEW t, IsText(t), NEW f, f = Doc(t), NEW c \in Nat, Counted(f, c), StartOf(f, 1) = 0,
           NEW p, p = Patch(StartOf(doc, i), StartOf(doc, l), t),
           NEW e, e = Candidate(Change(<<p>>)), Counted(e, n + (c - (l - i))),
           HeadingsKept(doc, e, 1, SubSeq(sections, 1, i - 1), <<p>>),
           FragmentInserted(e, t, i, StartOf(doc, i)),
           HeadingsKept(doc, e, i + c, SubSeq(sections, l, Len(sections)), <<p>>)
    PROVE  /\ IsDocument(e) /\ IsDocument(f)
           /\ IsGraft(ForestOf(e), ForestOf(doc), ForestOf(f), i, l, n, c)
           /\ PreambleOf(e) = PreambleOf(doc)
<1>1. i \in 1..(n + 1) /\ l \in 1..(n + 1) /\ (i < l \/ i = l) /\ i \in Nat
  OBVIOUS
<1>2. IsDocument(doc) /\ IsDocument(f) /\ f.source = t
  BY DocumentIs, TextsMakeDocuments, DocIs
<1>3. PICK a \in Nat : a = StartOf(doc, i)
  BY <1>1, <1>2, StartsIn DEF Counted
<1>4. PICK b \in Nat : b = StartOf(doc, l)
  BY <1>1, <1>2, StartsIn DEF Counted
<1>5. a <= b /\ b <= Len(doc.source)
  BY <1>1, <1>2, <1>3, <1>4, StartsIn DEF Counted
<1>6. PICK z \in Nat : OfLength(t, z)
  BY <1>2, StartsIn DEF OfLength
<1>7. IsDocument(e) /\ IsCut(e.source, doc.source, a, b, t)
  BY <1>3, <1>4, <1>5, CandidateIs
<1>8. \A k \in 1..(i - 1) : Synced(doc, k, e, k, 0)
  BY HeadsSynced
<1>9. \A k \in 1..c : Synced(f, k, e, k + (i - 1), a)
  BY <1>1, <1>2, <1>3, FragmentSynced
<1> DEFINE y == c - (l - i)
           m == i + c
<1>10. y \in Int /\ m = l + y
  OBVIOUS
<1>11. HeadingsKept(doc, e, m, SubSeq(sections, l, Len(sections)), <<p>>)
  OBVIOUS
<1>12. \A k \in l..n : Synced(doc, k, e, k + y, z - (b - a))
  <2> HIDE DEF y, m
  <2>1. \A k \in l..n : Synced(doc, k, e, k + y, z - (StartOf(doc, l) - StartOf(doc, i)))
    BY <1>6, <1>10, <1>11, TailsSynced
  <2> QED
    BY <1>3, <1>4, <2>1
<1>13. Grafted(doc, e, f, i, l)
  <2>1. Len(f.sections) = c /\ Len(doc.sections) = n /\ Len(f.source) = z
        /\ Len(e.sections) = n + (c - (l - i))
    BY <1>2, <1>6 DEF Counted, OfLength
  <2> QED
    BY <1>2, <1>3, <1>4, <1>7, <1>8, <1>9, <1>12, <2>1 DEF Grafted
<1> HIDE DEF y, m
<1> QED
  BY <1>2, <1>7, <1>13, ForestGrafted

\* Three documents have their sections in one set.
LEMMA ForestsTogether ==
    ASSUME NEW d, NEW e, NEW f, IsDocument(d), IsDocument(e), IsDocument(f),
           NEW n \in Nat, Counted(d, n), NEW m \in Nat, Counted(e, m), NEW c \in Nat, Counted(f, c)
    PROVE  \E V : /\ ForestOf(d) \in Seq(V) /\ OfLength(ForestOf(d), n) /\ DOMAIN ForestOf(d) = 1..n
                  /\ ForestOf(e) \in Seq(V)
                  /\ ForestOf(f) \in Seq(V) /\ OfLength(ForestOf(f), c)
                  /\ \A k \in 1..n : ForestOf(d)[k].level = d.sections[k].level
<1> DEFINE V == ForestSet(d) \cup ForestSet(e) \cup ForestSet(f)
           F == ForestOf(d)
           G == ForestOf(e)
           H == ForestOf(f)
<1>1. ForestSet(d) \subseteq V /\ ForestSet(e) \subseteq V /\ ForestSet(f) \subseteq V
      /\ F = ForestOf(d) /\ G = ForestOf(e) /\ H = ForestOf(f)
  OBVIOUS
<1> HIDE DEF V, F, G, H
<1>2. F \in Seq(V) /\ OfLength(F, n) /\ DOMAIN F = 1..n
      /\ \A k \in 1..n : F[k] = Entry(d, k) /\ F[k].level = d.sections[k].level
  BY <1>1, ForestHas
<1>3. G \in Seq(V)
  BY <1>1, ForestHas
<1>4. H \in Seq(V) /\ OfLength(H, c)
  BY <1>1, ForestHas
<1> QED
  BY <1>1, <1>2, <1>3, <1>4

\* The section behind a section's subtree.
LEMMA TreeAt ==
    ASSUME NEW d, IsDocument(d), NEW n \in Nat, Counted(d, n), NEW i \in 1..n
    PROVE  \E l \in (i + 1)..(n + 1) :
              /\ Closer(d.sections, i, l)
              /\ TreeEnds(ForestOf(d), n, i, l)
              /\ {k \in DOMAIN d.sections : StartsInside(d.sections[k], d.sections[i].range)}
                    = i..(l - 1)
              /\ SubtreeEnd(d.sections, i) = l
              /\ d.sections[i].range.start = StartOf(d, i)
              /\ d.sections[i].range.end = StartOf(d, l)
<1>1. i \in 1..Len(d.sections)
  BY DEF Counted
<1>2. PICK l : Closer(d.sections, i, l)
  BY <1>1 DEF IsDocument, SectionLies
<1>3. l \in (i + 1)..(n + 1) /\ TreeEnds(ForestOf(d), n, i, l)
  <2> DEFINE F == ForestOf(d)
  <2>1. F = ForestOf(d)
    OBVIOUS
  <2> HIDE DEF F
  <2>2. l \in (i + 1)..(n + 1) /\ TreeEnds(F, n, i, l)
    BY <1>2, <2>1, ClosersEnd
  <2> QED
    BY <2>1, <2>2
<1>4. /\ {k \in DOMAIN d.sections : StartsInside(d.sections[k], d.sections[i].range)}
                 = i..(l - 1)
      /\ SubtreeEnd(d.sections, i) = l
      /\ d.sections[i].range = [start |-> StartOf(d, i), end |-> StartOf(d, l)]
  BY <1>2, SubtreeEndIs
<1>5. d.sections[i].range.start = StartOf(d, i) /\ d.sections[i].range.end = StartOf(d, l)
  BY <1>4
<1> QED
  BY <1>2, <1>3, <1>4, <1>5

-----------------------------------------------------------------------------
LEMMA EmptyIs ==
    /\ IsText(<< >>)
    /\ \A f : f = Doc(<< >>) =>
          /\ IsDocument(f) /\ Counted(f, 0) /\ StartOf(f, 1) = 0
          /\ ForestOf(f) = << >>
<1> DEFINE nil == << >>
<1>1. IsText(nil) /\ Len(nil) = 0
  <2>1. nil \in Seq({})
    OBVIOUS
  <2> QED
    BY <2>1 DEF IsText
<1>2. ASSUME NEW f, f = Doc(nil)
      PROVE  /\ IsDocument(f) /\ Counted(f, 0) /\ StartOf(f, 1) = 0
             /\ ForestOf(f) = << >>
  <2> HIDE DEF nil
  <2>1. IsDocument(f) /\ f.source = nil
    BY <1>1, <1>2, TextsMakeDocuments, DocIs
  <2>2. PICK n \in Nat : n = Len(f.sections)
    BY <2>1 DEF IsDocument
  <2>3. n = 0
    <3> SUFFICES ASSUME n # 0 PROVE FALSE
      OBVIOUS
    <3>1. 1 \in 1..n
      OBVIOUS
    <3>2. 1 \in 1..Len(f.sections)
      BY <2>2, <3>1
    <3>3. SectionLies(f, 1)
      BY <2>1, <3>2 DEF IsDocument
    <3> DEFINE h == f.sections[1].heading
    <3>4. h.start \in Nat /\ h.end \in Nat /\ h.start < h.end /\ h.end <= 0
      BY <1>1, <2>1, <3>3 DEF SectionLies
    <3> HIDE DEF h
    <3> QED
      BY <3>4
  <2>4. Counted(f, 0)
    BY <2>2, <2>3 DEF Counted
  <2>5. StartOf(f, 1) = 0
    BY <1>1, <2>1, <2>2, <2>3 DEF StartOf
  <2>6. ForestOf(f) = << >>
    <3>1. ForestOf(f) = [k \in 1..Len(f.sections) |-> Entry(f, k)]
      BY <2>1, ForestIs
    <3>2. Len(f.sections) = 0
      BY <2>2, <2>3
    <3>3. ForestOf(f) = [k \in 1..0 |-> Entry(f, k)]
      BY <3>1, <3>2, Zenon
    <3>4. [k \in 1..0 |-> Entry(f, k)] = << >>
      OBVIOUS
    <3> QED
      BY <3>3, <3>4, Zenon
  <2> QED
    BY <2>1, <2>4, <2>5, <2>6
<1> QED
  BY <1>1, <1>2 DEF nil

(***************************************************************************)
(* Removal: the survivors are all sections outside the subtree.            *)
(***************************************************************************)
LEMMA RemoveOutlined ==
    ASSUME WellHeld, NEW i \in Targets, PrepareRemoveSection(i),
           NEW c, c = Change(<<Patch(sections[i].range.start, sections[i].range.end, << >>)>>)
    PROVE  Outlined(doc, Candidate(c)) /\ Hold([kind |-> "remove", at |-> i], c)
<1>1. IsDocument(doc)
  BY DocumentIs
<1>2. PICK n \in Nat : Counted(doc, n)
  BY DocumentIs DEF Counted
<1>3. i \in 1..n /\ i \in 1..(n + 1)
  BY <1>2, DocumentIs DEF Counted
<1>4. PICK l \in (i + 1)..(n + 1) :
         /\ TreeEnds(ForestOf(doc), n, i, l)
         /\ {k \in DOMAIN doc.sections : StartsInside(doc.sections[k], doc.sections[i].range)}
               = i..(l - 1)
         /\ doc.sections[i].range.start = StartOf(doc, i)
         /\ doc.sections[i].range.end = StartOf(doc, l)
  BY <1>1, <1>2, <1>3, TreeAt
<1> DEFINE nil == << >>
           p == Patch(StartOf(doc, i), StartOf(doc, l), nil)
           e == Candidate(c)
           S == {k \in Targets : ~StartsInside(sections[k], sections[i].range)}
           x == Picked(sections, S)
           f == Doc(nil)
           F == ForestOf(doc)
           G == ForestOf(e)
           H == ForestOf(f)
<1>5. c = Change(<<p>>)
  BY <1>4 DEF sections
<1>6. /\ Len(e.sections) = Len(x)
      /\ HeadingsKept(doc, e, 1, x, <<p>>)
      /\ Hold([kind |-> "remove", at |-> i], c)
  BY <1>4 DEF PrepareRemoveSection, sections
<1>7. l \in i..(n + 1) /\ i \in Nat /\ l \in Nat
  BY <1>3
<1>8. DOMAIN doc.sections = 1..n
  BY <1>1, <1>2 DEF IsDocument, Counted
<1>9. \A k \in 1..n : k \in S <=> ~(k \in i..(l - 1))
  BY <1>4, <1>8 DEF Targets, sections
<1>10. PICK W : doc.sections \in Seq(W) /\ OfLength(doc.sections, n)
  <2> DEFINE s == doc.sections
             V == {s[k] : k \in 1..n}
  <2>1. s = [k \in 1..n |-> s[k]] /\ Len(s) = n
    BY <1>1, <1>2 DEF IsDocument, Counted
  <2>2. \A k \in 1..n : s[k] \in V
    OBVIOUS
  <2> HIDE DEF s, V
  <2>3. [k \in 1..n |-> s[k]] \in Seq(V)
    BY <2>2
  <2>4. s \in Seq(V)
    BY <2>1, <2>3, Zenon
  <2>5. OfLength(s, n)
    BY <2>1 DEF OfLength
  <2> QED
    BY <2>4, <2>5 DEF s
<1>11. x = Picked(doc.sections, S)
  BY DEF sections
<1> HIDE DEF p, e, S, x, f, F, G, H, nil
<1>12. IsPicked(x, doc.sections, n, i, l) /\ x \in Seq(W)
  <2> DEFINE q == doc.sections
  <2>1. q \in Seq(W) /\ OfLength(q, n) /\ DOMAIN q = 1..n /\ x = Picked(q, S)
    BY <1>8, <1>10, <1>11
  <2> HIDE DEF q
  <2>2. IsPicked(x, q, n, i, l) /\ x \in Seq(W)
    BY <1>3, <1>7, <1>9, <2>1, PickedOutside
  <2> QED
    BY <2>2 DEF q
<1> DEFINE w == n - (l - i)
<1>13. w \in Nat /\ Len(x) = w /\ DOMAIN x = 1..w
  <2>1. PickedLength(n, i, l) = w
    BY <1>7 DEF PickedLength
  <2>2. Len(x) = w
    BY <1>12, <2>1 DEF IsPicked, OfLength
  <2>3. DOMAIN x = 1..Len(x)
    BY <1>12
  <2>4. w \in Nat
    BY <1>3, <1>7
  <2> QED
    BY <2>2, <2>3, <2>4
<1>14. Counted(e, n + (0 - (l - i)))
  <2>1. w = n + (0 - (l - i))
    BY <1>7
  <2> QED
    BY <1>6, <1>13, <2>1 DEF Counted
<1>15. /\ \A k \in 1..(i - 1) : x[k] = doc.sections[k]
       /\ \A k \in l..n : x[k - (l - i)] = doc.sections[k]
  <2>1. \A k \in 1..(i - 1) : k \in 1..n /\ k < i
    BY <1>7
  <2>2. \A k \in l..n : k \in 1..n /\ k >= l
    BY <1>7
  <2> QED
    BY <1>12, <2>1, <2>2 DEF IsPicked
<1>16. HeadingsKept(doc, e, 1, SubSeq(sections, 1, i - 1), <<p>>)
  <2> DEFINE h == i - 1
             o == 0
             y == SubSeq(doc.sections, o + 1, h)
  <2>1. y = SubSeq(doc.sections, o + 1, h) /\ o \in Nat /\ h \in Nat /\ o <= h /\ h <= n
        /\ h - o = h
    BY <1>3, <1>7
  <2>2. \A k \in 1..h : o + k = k
    OBVIOUS
  <2> HIDE DEF y, o, h
  <2>3. DOMAIN y = 1..(h - o) /\ \A k \in 1..(h - o) : y[k] = doc.sections[o + k]
    BY <1>1, <1>2, <2>1, SectionSlice
  <2>4. \A k \in 1..h : y[k] = x[k] /\ k \in DOMAIN x
    <3> TAKE k \in 1..h
    <3>1. y[k] = doc.sections[k]
      BY <2>1, <2>2, <2>3
    <3>2. k \in 1..w /\ k \in 1..(i - 1)
      BY <1>7 DEF h
    <3> QED
      BY <1>13, <1>15, <3>1, <3>2
  <2>5. DOMAIN y = 1..h
    BY <2>1, <2>3
  <2>6. HeadingsKept(doc, e, 1, y, <<p>>)
    BY <1>6, <2>4, <2>5 DEF HeadingsKept
  <2> QED
    BY <2>6 DEF y, o, h, sections
<1>17. HeadingsKept(doc, e, i + 0, SubSeq(sections, l, Len(sections)), <<p>>)
  <2> DEFINE h == l - 1
             y == SubSeq(doc.sections, h + 1, n)
  <2>1. y = SubSeq(doc.sections, h + 1, n) /\ h \in Nat /\ h <= n /\ n <= n
    BY <1>7
  <2> HIDE DEF y, h
  <2>2. DOMAIN y = 1..(n - h) /\ \A k \in 1..(n - h) : y[k] = doc.sections[h + k]
    BY <1>1, <1>2, <2>1, SectionSlice
  <2>3. ASSUME NEW k \in DOMAIN y
        PROVE  /\ i + k - 1 \in DOMAIN e.sections
               /\ SameHeading(doc, y[k], e.sections[i + k - 1], e.source,
                              RangeAfterPatches(y[k].heading, <<p>>))
    <3> DEFINE j == i + k - 1
               g == h + k
    <3>1. k \in 1..(n - h)
      BY <2>2, <2>3
    <3>2. j \in 1..w /\ g \in l..n /\ g - (l - i) = j /\ 1 + j - 1 = j
      BY <1>3, <1>7, <3>1 DEF h
    <3>3. y[k] = doc.sections[g]
      BY <2>2, <3>1
    <3> HIDE DEF j, g
    <3>4. x[j] = doc.sections[g] /\ j \in DOMAIN x
      BY <1>13, <1>15, <3>2
    <3>5. j \in DOMAIN e.sections
          /\ SameHeading(doc, x[j], e.sections[j], e.source,
                         RangeAfterPatches(x[j].heading, <<p>>))
      BY <1>6, <3>2, <3>4 DEF HeadingsKept
    <3>6. j \in DOMAIN e.sections
          /\ SameHeading(doc, y[k], e.sections[j], e.source,
                         RangeAfterPatches(y[k].heading, <<p>>))
      BY <3>3, <3>4, <3>5
    <3> QED
      BY <3>6 DEF j
  <2>4. HeadingsKept(doc, e, i, y, <<p>>)
    BY <2>3 DEF HeadingsKept
  <2>5. y = SubSeq(sections, l, Len(sections)) /\ i + 0 = i
    <3>1. h + 1 = l /\ n = Len(doc.sections)
      BY <1>2, <1>7 DEF h, Counted
    <3> QED
      BY <2>1, <3>1, <1>7 DEF sections
  <2> QED
    BY <2>4, <2>5
<1>18. /\ IsText(nil) /\ IsDocument(f) /\ Counted(f, 0) /\ StartOf(f, 1) = 0
       /\ ForestOf(f) = nil /\ f = Doc(nil)
  BY EmptyIs DEF nil, f
<1>19. FragmentInserted(e, nil, i, StartOf(doc, i))
  <2>1. DOMAIN f.sections = {}
    <3>1. Len(f.sections) = 0 /\ DOMAIN f.sections = 1..Len(f.sections)
      BY <1>18 DEF Counted, IsDocument
    <3> QED
      BY <3>1
  <2> QED
    BY <1>18, <2>1 DEF FragmentInserted
<1>20. /\ IsDocument(e) /\ IsDocument(f)
       /\ IsGraft(ForestOf(e), ForestOf(doc), ForestOf(f), i, l, n, 0)
       /\ PreambleOf(e) = PreambleOf(doc)
  BY <1>2, <1>3, <1>5, <1>7, <1>14, <1>16, <1>17, <1>18, <1>19, SplicedIs DEF p, e
<1>21. PICK V : /\ F \in Seq(V) /\ OfLength(F, n) /\ DOMAIN F = 1..n
                /\ G \in Seq(V)
  <2>1. PICK m \in Nat : Counted(e, m)
    BY <1>20 DEF IsDocument, Counted
  <2> QED
    BY <1>1, <1>2, <1>18, <1>20, <2>1, ForestsTogether DEF F, G
<1>22. IsGraft(G, F, << >>, i, l, n, 0)
  BY <1>18, <1>20 DEF F, G, nil
<1>23. G = O!Without(F, i)
  <2> DEFINE z == O!Without(F, i)
  <2>1. z = O!Without(F, i) /\ TreeEnds(F, n, i, l)
    BY <1>4 DEF F
  <2> HIDE DEF z
  <2>2. z \in Seq(V) /\ IsGraft(z, F, << >>, i, l, n, 0)
    BY <1>3, <1>21, <2>1, WithoutIs
  <2> DEFINE o == << >>
  <2>3. IsGraft(z, F, o, i, l, n, 0) /\ IsGraft(G, F, o, i, l, n, 0)
    BY <1>22, <2>2
  <2> HIDE DEF o
  <2>4. z = G
    <3> DEFINE q == 0
    <3>1. IsGraft(z, F, o, i, l, n, q) /\ IsGraft(G, F, o, i, l, n, q) /\ q \in Nat
      BY <2>3
    <3> HIDE DEF q
    <3> QED
      BY <1>3, <1>7, <1>21, <2>2, <3>1, GraftUnique
  <2> QED
    BY <2>1, <2>4
<1>24. ForestOf(e) \in O!Edits(ForestOf(doc), i) /\ i \in DOMAIN ForestOf(doc)
  <2>1. G \in O!Remove(F, i)
    BY <1>23 DEF O!Remove
  <2>2. G \in O!Edits(F, i)
    BY <2>1 DEF O!Edits
  <2> QED
    BY <1>3, <1>21, <2>2 DEF F, G
<1> QED
  BY <1>6, <1>20, <1>24 DEF Outlined, e

-----------------------------------------------------------------------------
(***************************************************************************)
(* Fragments in place of the sections from i to before l.                  *)
(***************************************************************************)
GraftOf(V, G, F, H, i, l, n, c) ==
    /\ F \in Seq(V) /\ OfLength(F, n) /\ DOMAIN F = 1..n
    /\ G \in Seq(V)
    /\ H \in Seq(V) /\ OfLength(H, c)
    /\ IsGraft(G, F, H, i, l, n, c)

LEMMA FragmentSpliced ==
    ASSUME WellHeld, NEW n \in Nat, Counted(doc, n), NEW i \in 1..(n + 1), NEW l \in i..(n + 1),
           NEW t, IsText(t), NEW level, IsFragment(t, level),
           NEW f, f = Doc(t), NEW c \in Nat, Counted(f, c),
           NEW p, p = Patch(StartOf(doc, i), StartOf(doc, l), t),
           NEW e, e = Candidate(Change(<<p>>)), Counted(e, n + (c - (l - i))),
           HeadingsKept(doc, e, 1, SubSeq(sections, 1, i - 1), <<p>>),
           FragmentInserted(e, t, i, StartOf(doc, i)),
           HeadingsKept(doc, e, i + c, SubSeq(sections, l, Len(sections)), <<p>>)
    PROVE  /\ PreambleOf(e) = PreambleOf(doc)
           /\ O!IsTree(ForestOf(f), level)
           /\ \E V : GraftOf(V, ForestOf(e), ForestOf(doc), ForestOf(f), i, l, n, c)
<1>1. StartOf(f, 1) = 0 /\ O!IsTree(ForestOf(f), level)
  BY FragmentIs
<1>2. /\ IsDocument(e) /\ IsDocument(f)
      /\ IsGraft(ForestOf(e), ForestOf(doc), ForestOf(f), i, l, n, c)
      /\ PreambleOf(e) = PreambleOf(doc)
  BY <1>1, SplicedIs
<1>3. PICK m \in Nat : Counted(e, m)
  BY <1>2 DEF IsDocument, Counted
<1> DEFINE F == ForestOf(doc)
           G == ForestOf(e)
           H == ForestOf(f)
<1>4. PICK V : /\ F \in Seq(V) /\ OfLength(F, n) /\ DOMAIN F = 1..n
               /\ G \in Seq(V)
               /\ H \in Seq(V) /\ OfLength(H, c)
  BY <1>2, <1>3, DocumentIs, ForestsTogether
<1>5. IsGraft(G, F, H, i, l, n, c)
  BY <1>2
<1> HIDE DEF F, G, H
<1>6. GraftOf(V, G, F, H, i, l, n, c)
  BY <1>4, <1>5 DEF GraftOf
<1>7. \E U : GraftOf(U, G, F, H, i, l, n, c)
  BY <1>6
<1> QED
  BY <1>1, <1>2, <1>7 DEF F, G, H

\* A fragment is text, with sections that are counted.
LEMMA FragmentCounted ==
    ASSUME NEW t \in Fragments, NEW f, f = Doc(t)
    PROVE  IsText(t) /\ \E c \in Nat : Counted(f, c) /\ c = Len(f.sections)
<1>1. IsText(t)
  BY GivenTexts
<1>2. IsDocument(f)
  BY <1>1, TextsMakeDocuments
<1> QED
  BY <1>1, <1>2 DEF IsDocument, Counted

LEMMA ReplaceOutlined ==
    ASSUME WellHeld, NEW i \in Targets, NEW t \in Fragments, PrepareReplaceSection(i, t),
           NEW c, c = Change(<<Patch(sections[i].range.start, sections[i].range.end, t)>>)
    PROVE  Outlined(doc, Candidate(c)) /\ Hold([kind |-> "replace", at |-> i], c)
<1>1. IsDocument(doc)
  BY DocumentIs
<1>2. PICK n \in Nat : Counted(doc, n)
  BY DocumentIs DEF Counted
<1>3. i \in 1..n /\ i \in 1..(n + 1)
  BY <1>2, DocumentIs DEF Counted
<1>4. PICK l \in (i + 1)..(n + 1) :
         /\ TreeEnds(ForestOf(doc), n, i, l)
         /\ SubtreeEnd(doc.sections, i) = l
         /\ doc.sections[i].range.start = StartOf(doc, i)
         /\ doc.sections[i].range.end = StartOf(doc, l)
  BY <1>1, <1>2, <1>3, TreeAt
<1>5. IsText(t)
  BY FragmentCounted
<1> DEFINE p == Patch(StartOf(doc, i), StartOf(doc, l), t)
           e == Candidate(c)
           f == Doc(t)
           F == ForestOf(doc)
           G == ForestOf(e)
           H == ForestOf(f)
           level == doc.sections[i].level
<1>6. PICK w \in Nat : Counted(f, w) /\ w = Len(f.sections)
  <2> HIDE DEF f
  <2>1. f = Doc(t)
    BY DEF f
  <2> QED
    BY <2>1, FragmentCounted
<1>7. c = Change(<<p>>)
  BY <1>4 DEF sections
<1>8. l \in i..(n + 1)
  BY <1>3
<1>17. n = Len(sections)
  BY <1>2 DEF Counted, sections
<1>9. /\ IsFragment(t, level)
      /\ Len(e.sections) = i - 1 + Len(f.sections) + Len(sections) - SubtreeEnd(sections, i) + 1
      /\ HeadingsKept(doc, e, 1, SubSeq(sections, 1, i - 1), <<p>>)
      /\ FragmentInserted(e, t, i, StartOf(doc, i))
      /\ HeadingsKept(doc, e, i + Len(f.sections),
                      SubSeq(sections, SubtreeEnd(sections, i), Len(sections)), <<p>>)
      /\ Hold([kind |-> "replace", at |-> i], c)
  BY <1>4 DEF PrepareReplaceSection, sections
<1>10. Counted(e, n + (w - (l - i)))
       /\ HeadingsKept(doc, e, i + w, SubSeq(sections, l, Len(sections)), <<p>>)
  <2>1. SubtreeEnd(sections, i) = l
    BY <1>4 DEF sections
  <2>2. i - 1 + w + n - l + 1 = n + (w - (l - i))
    BY <1>3, <1>8
  <2> HIDE DEF p, e, f
  <2>3. Len(e.sections) = i - 1 + w + n - l + 1
    BY <1>6, <1>9, <1>17, <2>1
  <2>4. Len(e.sections) = n + (w - (l - i))
    BY <2>2, <2>3
  <2>5. HeadingsKept(doc, e, i + w, SubSeq(sections, l, Len(sections)), <<p>>)
    BY <1>6, <1>9, <2>1
  <2> QED
    BY <2>4, <2>5 DEF Counted
<1>11. f = Doc(t) /\ p = Patch(StartOf(doc, i), StartOf(doc, l), t)
       /\ e = Candidate(Change(<<p>>)) /\ F = ForestOf(doc) /\ G = ForestOf(e) /\ H = ForestOf(f)
       /\ level = doc.sections[i].level
  BY <1>7
<1> HIDE DEF p, e, f, F, G, H, level
<1>12. /\ PreambleOf(e) = PreambleOf(doc)
       /\ O!IsTree(H, level)
       /\ \E V : GraftOf(V, G, F, H, i, l, n, w)
  <2>1. /\ IsFragment(t, level) /\ Counted(f, w)
        /\ HeadingsKept(doc, e, 1, SubSeq(sections, 1, i - 1), <<p>>)
        /\ FragmentInserted(e, t, i, StartOf(doc, i))
    BY <1>6, <1>9
  <2>2. /\ PreambleOf(e) = PreambleOf(doc)
        /\ O!IsTree(ForestOf(f), level)
        /\ \E V : GraftOf(V, ForestOf(e), ForestOf(doc), ForestOf(f), i, l, n, w)
    BY <1>2, <1>3, <1>5, <1>8, <1>10, <1>11, <2>1, FragmentSpliced
  <2> QED
    BY <1>11, <2>2
<1>13. PICK V : GraftOf(V, G, F, H, i, l, n, w)
  BY <1>12
<1>14. G = O!Insert(O!Without(F, i), i, H)
  <2> DEFINE z == O!Insert(O!Without(F, i), i, H)
  <2>1. z = O!Insert(O!Without(F, i), i, H) /\ TreeEnds(F, n, i, l)
    BY <1>4, <1>11
  <2> HIDE DEF z
  <2>2. z \in Seq(V) /\ IsGraft(z, F, H, i, l, n, w)
    BY <1>3, <1>13, <2>1, ReplacedIs DEF GraftOf
  <2>3. z = G
    BY <1>3, <1>8, <1>13, <2>2, GraftUnique DEF GraftOf
  <2> QED
    BY <2>1, <2>3
<1>15. F[i].level = level
  BY <1>1, <1>2, <1>3, <1>11, ForestHas
<1>16. G \in O!Edits(F, i) /\ i \in DOMAIN F
  <2>1. H \in {ForestOf(Doc(g)) : g \in Fragments}
    BY <1>11
  <2>2. G \in O!Replace(F, i)
    BY <1>12, <1>14, <1>15, <2>1 DEF O!Replace
  <2>3. G \in O!Edits(F, i)
    BY <2>2 DEF O!Edits
  <2> QED
    BY <1>3, <1>13, <2>3 DEF GraftOf
<1> QED
  BY <1>9, <1>11, <1>12, <1>16 DEF Outlined, e

-----------------------------------------------------------------------------
(***************************************************************************)
(* What InsertionHolds accepts is the outline with the fragment's inserted *)
(* as section number m.                                                    *)
(***************************************************************************)
LEMMA InsertionIs ==
    ASSUME WellHeld, NEW n \in Nat, Counted(doc, n), NEW m \in 1..(n + 1),
           NEW t \in Fragments, NEW level, IsFragment(t, level),
           NEW p, p = Patch(StartOf(doc, m), StartOf(doc, m), t),
           NEW c, c = Change(<<p>>), InsertionHolds(Candidate(c), t, m, p)
    PROVE  /\ PreambleOf(Candidate(c)) = PreambleOf(doc)
           /\ O!IsTree(ForestOf(Doc(t)), level)
           /\ ForestOf(Candidate(c)) = O!Insert(ForestOf(doc), m, ForestOf(Doc(t)))
<1>1. IsText(t)
  BY FragmentCounted
<1> DEFINE e == Candidate(c)
           f == Doc(t)
           F == ForestOf(doc)
           G == ForestOf(e)
           H == ForestOf(f)
<1>2. PICK w \in Nat : Counted(f, w) /\ w = Len(f.sections)
  <2> HIDE DEF f
  <2>1. f = Doc(t)
    BY DEF f
  <2> QED
    BY <2>1, FragmentCounted
<1>3. m \in m..(n + 1)
  OBVIOUS
<1>4. n = Len(sections)
  BY DEF Counted, sections
<1>5. /\ Len(e.sections) = Len(sections) + Len(f.sections)
      /\ HeadingsKept(doc, e, 1, SubSeq(sections, 1, m - 1), <<p>>)
      /\ FragmentInserted(e, t, m, p.start)
      /\ HeadingsKept(doc, e, m + Len(f.sections),
                      SubSeq(sections, m, Len(sections)), <<p>>)
  BY DEF InsertionHolds
<1>6. p.start = StartOf(doc, m)
  BY DEF Patch
<1>7. Counted(e, n + (w - (m - m)))
      /\ HeadingsKept(doc, e, m + w, SubSeq(sections, m, Len(sections)), <<p>>)
  <2>1. n + w = n + (w - (m - m))
    BY <1>3
  <2> HIDE DEF e, f
  <2>2. Len(e.sections) = n + w
    BY <1>2, <1>4, <1>5
  <2>3. Len(e.sections) = n + (w - (m - m))
    BY <2>1, <2>2
  <2>4. HeadingsKept(doc, e, m + w, SubSeq(sections, m, Len(sections)), <<p>>)
    BY <1>2, <1>5
  <2> QED
    BY <2>3, <2>4 DEF Counted
<1>8. f = Doc(t) /\ e = Candidate(Change(<<p>>))
      /\ F = ForestOf(doc) /\ G = ForestOf(e) /\ H = ForestOf(f)
  OBVIOUS
<1> HIDE DEF e, f, F, G, H
<1>9. /\ PreambleOf(e) = PreambleOf(doc)
      /\ O!IsTree(ForestOf(f), level)
      /\ \E V : GraftOf(V, ForestOf(e), ForestOf(doc), ForestOf(f), m, m, n, w)
  <2>1. /\ Counted(f, w)
        /\ HeadingsKept(doc, e, 1, SubSeq(sections, 1, m - 1), <<p>>)
        /\ FragmentInserted(e, t, m, StartOf(doc, m))
    BY <1>2, <1>5, <1>6
  <2> QED
    BY <1>1, <1>3, <1>7, <1>8, <2>1, FragmentSpliced
<1>10. PICK V : GraftOf(V, G, F, H, m, m, n, w)
  BY <1>8, <1>9
<1>11. G = O!Insert(F, m, H)
  <2> DEFINE z == O!Insert(F, m, H)
  <2>1. z = O!Insert(F, m, H)
    OBVIOUS
  <2> HIDE DEF z
  <2>2. z \in Seq(V) /\ IsGraft(z, F, H, m, m, n, w)
    BY <1>10, <2>1, InsertIs DEF GraftOf
  <2>3. z = G
    BY <1>3, <1>10, <2>2, GraftUnique DEF GraftOf
  <2> QED
    BY <2>1, <2>3
<1> QED
  BY <1>8, <1>9, <1>11 DEF e, f, F, G, H

LEMMA InsertOutlined ==
    ASSUME WellHeld, NEW i \in Targets, NEW t \in Fragments, NEW after \in BOOLEAN,
           PrepareInsertSection(i, t, after)
    PROVE  \E c : Outlined(doc, Candidate(c)) /\ Hold([kind |-> "insert", at |-> i], c)
<1>1. IsDocument(doc)
  BY DocumentIs
<1>2. PICK n \in Nat : Counted(doc, n)
  BY DocumentIs DEF Counted
<1>3. i \in 1..n /\ i \in 1..(n + 1)
  BY <1>2, DocumentIs DEF Counted
<1>4. PICK l \in (i + 1)..(n + 1) :
         /\ TreeEnds(ForestOf(doc), n, i, l)
         /\ SubtreeEnd(doc.sections, i) = l
         /\ doc.sections[i].range.start = StartOf(doc, i)
         /\ doc.sections[i].range.end = StartOf(doc, l)
  BY <1>1, <1>2, <1>3, TreeAt
<1> DEFINE m == IF after THEN l ELSE i
           p == Patch(StartOf(doc, m), StartOf(doc, m), t)
           c == Change(<<p>>)
           level == doc.sections[i].level
           F == ForestOf(doc)
           G == ForestOf(Candidate(c))
           H == ForestOf(Doc(t))
<1>5. /\ IsFragment(t, level)
      /\ InsertionHolds(Candidate(c), t, m, p)
      /\ Hold([kind |-> "insert", at |-> i], c)
  <2>1. CASE after
    BY <1>4, <2>1 DEF PrepareInsertSection, sections
  <2>2. CASE ~after
    BY <1>4, <2>2 DEF PrepareInsertSection, sections
  <2> QED
    BY <2>1, <2>2
<1>6. m \in 1..(n + 1)
  BY <1>3, <1>4
<1>7. p = Patch(StartOf(doc, m), StartOf(doc, m), t) /\ c = Change(<<p>>)
      /\ F = ForestOf(doc) /\ G = ForestOf(Candidate(c)) /\ H = ForestOf(Doc(t))
      /\ level = doc.sections[i].level
  OBVIOUS
<1> HIDE DEF m, p, c, level, F, G, H
<1>8. /\ PreambleOf(Candidate(c)) = PreambleOf(doc)
      /\ O!IsTree(H, level)
      /\ G = O!Insert(F, m, H)
  BY <1>2, <1>5, <1>6, <1>7, InsertionIs
<1>9. PICK V : F \in Seq(V) /\ OfLength(F, n) /\ DOMAIN F = 1..n /\ F[i].level = level
  <2> DEFINE V == ForestSet(doc)
  <2>1. ForestSet(doc) \subseteq V
    OBVIOUS
  <2> HIDE DEF V
  <2> QED
    BY <1>1, <1>2, <1>3, <1>7, <2>1, ForestHas
<1>10. O!After(F, i) = l
  <2>1. TreeEnds(F, n, i, l)
    BY <1>4, <1>7
  <2> QED
    BY <1>3, <1>9, <2>1, AfterOf
<1>11. G \in O!Edits(F, i) /\ i \in DOMAIN F
  <2>1. H \in {ForestOf(Doc(g)) : g \in Fragments}
    BY <1>7
  <2>2. G \in O!InsertBefore(F, i) \/ G \in O!InsertAfter(F, i)
    <3>1. CASE after
      <4>1. G = O!Insert(F, O!After(F, i), H)
        BY <1>8, <1>10, <3>1 DEF m
      <4> QED
        BY <1>8, <1>9, <2>1, <4>1 DEF O!InsertAfter
    <3>2. CASE ~after
      <4>1. G = O!Insert(F, i, H)
        BY <1>8, <3>2 DEF m
      <4> QED
        BY <1>8, <1>9, <2>1, <4>1 DEF O!InsertBefore
    <3> QED
      BY <3>1, <3>2
  <2>3. G \in O!Edits(F, i)
    BY <2>2 DEF O!Edits
  <2> QED
    BY <1>3, <1>9, <2>3
<1>12. Outlined(doc, Candidate(c))
  BY <1>7, <1>8, <1>11 DEF Outlined
<1> QED
  BY <1>5, <1>12

LEMMA ChildOutlined ==
    ASSUME WellHeld, NEW i \in Targets, NEW t \in Fragments, PrepareAppendSectionChild(i, t)
    PROVE  \E c : /\ Outlined(doc, Candidate(c))
                  /\ Hold([kind |-> "child", at |-> i, fragment |-> t], c)
<1>1. IsDocument(doc)
  BY DocumentIs
<1>2. PICK n \in Nat : Counted(doc, n)
  BY DocumentIs DEF Counted
<1>3. i \in 1..n /\ i \in 1..(n + 1)
  BY <1>2, DocumentIs DEF Counted
<1>4. PICK l \in (i + 1)..(n + 1) :
         /\ TreeEnds(ForestOf(doc), n, i, l)
         /\ SubtreeEnd(doc.sections, i) = l
         /\ doc.sections[i].range.start = StartOf(doc, i)
         /\ doc.sections[i].range.end = StartOf(doc, l)
  BY <1>1, <1>2, <1>3, TreeAt
<1> DEFINE p == Patch(StartOf(doc, l), StartOf(doc, l), t)
           c == Change(<<p>>)
           level == doc.sections[i].level + 1
           F == ForestOf(doc)
           G == ForestOf(Candidate(c))
           H == ForestOf(Doc(t))
<1>5. /\ IsFragment(t, level)
      /\ InsertionHolds(Candidate(c), t, l, p)
      /\ Hold([kind |-> "child", at |-> i, fragment |-> t], c)
  BY <1>4 DEF PrepareAppendSectionChild, sections
<1>6. l \in 1..(n + 1)
  BY <1>3
<1>7. p = Patch(StartOf(doc, l), StartOf(doc, l), t) /\ c = Change(<<p>>)
      /\ F = ForestOf(doc) /\ G = ForestOf(Candidate(c)) /\ H = ForestOf(Doc(t))
      /\ level = doc.sections[i].level + 1
  OBVIOUS
<1> HIDE DEF p, c, level, F, G, H
<1>8. /\ PreambleOf(Candidate(c)) = PreambleOf(doc)
      /\ O!IsTree(H, level)
      /\ G = O!Insert(F, l, H)
  BY <1>2, <1>5, <1>6, <1>7, InsertionIs
<1>9. PICK V : F \in Seq(V) /\ OfLength(F, n) /\ DOMAIN F = 1..n
               /\ F[i].level = doc.sections[i].level
  <2> DEFINE V == ForestSet(doc)
  <2>1. ForestSet(doc) \subseteq V
    OBVIOUS
  <2> HIDE DEF V
  <2> QED
    BY <1>1, <1>2, <1>3, <1>7, <2>1, ForestHas
<1>10. O!After(F, i) = l
  <2>1. TreeEnds(F, n, i, l)
    BY <1>4, <1>7
  <2> QED
    BY <1>3, <1>9, <2>1, AfterOf
<1>11. G \in O!Edits(F, i) /\ i \in DOMAIN F
  <2>1. H \in {ForestOf(Doc(g)) : g \in Fragments}
    BY <1>7
  <2>2. G = O!Insert(F, O!After(F, i), H) /\ O!IsTree(H, F[i].level + 1)
    BY <1>7, <1>8, <1>9, <1>10
  <2>3. G \in O!AppendChild(F, i)
    BY <2>1, <2>2 DEF O!AppendChild
  <2>4. G \in O!Edits(F, i)
    BY <2>3 DEF O!Edits
  <2> QED
    BY <1>3, <1>9, <2>4
<1>12. Outlined(doc, Candidate(c))
  BY <1>7, <1>8, <1>11 DEF Outlined
<1> QED
  BY <1>5, <1>12

-----------------------------------------------------------------------------
(***************************************************************************)
(* A body replaced.                                                        *)
(***************************************************************************)
LEMMA SameForest ==
    ASSUME NEW d, NEW e, IsDocument(d), IsDocument(e), NEW n \in Nat, Counted(d, n), Counted(e, n),
           NEW i \in 1..n, NEW body,
           \A k \in 1..n : k # i => Entry(e, k) = Entry(d, k),
           Entry(e, i).level = Entry(d, i).level,
           Entry(e, i).heading = Entry(d, i).heading,
           Entry(e, i).body = body
    PROVE  ForestOf(e) = [ForestOf(d) EXCEPT ![i].body = body]
<1>1. ForestOf(d) = [k \in 1..n |-> Entry(d, k)] /\ ForestOf(e) = [k \in 1..n |-> Entry(e, k)]
  <2>1. ForestOf(d) = [k \in 1..Len(d.sections) |-> Entry(d, k)]
        /\ ForestOf(e) = [k \in 1..Len(e.sections) |-> Entry(e, k)]
    BY ForestIs
  <2>2. Len(d.sections) = n /\ Len(e.sections) = n
    BY DEF Counted
  <2> QED
    BY <2>1, <2>2, Zenon
<1>2. Entry(e, i) = [Entry(d, i) EXCEPT !.body = body]
  <2> DEFINE u == d.sections[i].level
             v == SubSeq(d.source, d.sections[i].range.start + 1, d.sections[i].bodyRange.start)
             w == SubSeq(d.source, d.sections[i].bodyRange.start + 1, d.sections[i].bodyRange.end)
             u2 == e.sections[i].level
             v2 == SubSeq(e.source, e.sections[i].range.start + 1, e.sections[i].bodyRange.start)
             w2 == SubSeq(e.source, e.sections[i].bodyRange.start + 1, e.sections[i].bodyRange.end)
  <2>1. Entry(d, i) = [level |-> u, heading |-> v, body |-> w]
        /\ Entry(e, i) = [level |-> u2, heading |-> v2, body |-> w2]
    BY DEF Entry
  <2> HIDE DEF u, v, w, u2, v2, w2
  <2> QED
    BY <2>1
<1>3. \A k \in 1..n : Entry(e, k) = IF k = i THEN [Entry(d, k) EXCEPT !.body = body] ELSE Entry(d, k)
  BY <1>2
<1> HIDE DEF Entry
<1> DEFINE F == ForestOf(d)
<1>4. F = [k \in 1..n |-> Entry(d, k)]
  BY <1>1
<1> HIDE DEF F
<1>5. [F EXCEPT ![i].body = body]
         = [k \in 1..n |-> IF k = i THEN [Entry(d, k) EXCEPT !.body = body] ELSE Entry(d, k)]
  BY <1>4
<1>6. ForestOf(e)
         = [k \in 1..n |-> IF k = i THEN [Entry(d, k) EXCEPT !.body = body] ELSE Entry(d, k)]
  BY <1>1, <1>3
<1> QED
  BY <1>5, <1>6 DEF F

LEMMA BodyOutlined ==
    ASSUME WellHeld, NEW i \in Targets, NEW body \in NewBodies, PrepareReplaceSectionBody(i, body),
           NEW c, c = Change(<<BodyPatch(doc, i, body)>>)
    PROVE  Outlined(doc, Candidate(c)) /\ Hold([kind |-> "body", at |-> i], c)
<1>1. IsDocument(doc) /\ IsText(doc.source)
  BY DocumentIs
<1>2. PICK n \in Nat : Counted(doc, n)
  BY DocumentIs DEF Counted
<1>3. i \in 1..n /\ i \in 1..(n + 1) /\ i + 1 \in 1..(n + 1)
  BY <1>2, DocumentIs DEF Counted
<1>4. i \in 1..Len(doc.sections)
  BY <1>2, <1>3 DEF Counted
<1>5. IsText(body)
  BY GivenTexts
<1> DEFINE r == doc.sections[i].bodyRange
           a == r.start
           b == r.end
           p == Patch(a, b, body)
           e == Candidate(c)
<1>6. PICK z \in Nat : OfLength(body, z) /\ z = Len(body)
  BY <1>5, TextIs DEF OfLength
<1>7. /\ Len(e.sections) = Len(doc.sections)
      /\ HeadingsKept(doc, e, 1, doc.sections, <<p>>)
      /\ e.sections[i].bodyRange = [start |-> a, end |-> a + z]
      /\ Hold([kind |-> "body", at |-> i], c)
  BY <1>6 DEF PrepareReplaceSectionBody, BodyHolds, BodyPatch
<1>8. /\ a \in Nat /\ b \in Nat /\ a <= b /\ b <= Len(doc.source) /\ b = StartOf(doc, i + 1)
      /\ doc.sections[i].heading.end <= a
      /\ doc.sections[i].heading.end \in Nat /\ doc.sections[i].heading.start \in Nat
      /\ doc.sections[i].heading.start < doc.sections[i].heading.end
      /\ doc.sections[i].range.start = doc.sections[i].heading.start
  <2>1. a = doc.sections[i].heading.end \/ a = doc.sections[i].heading.end + 1
    BY <1>1, <1>4, PartsLie
  <2>2. /\ a \in Nat /\ b \in Nat /\ a <= b /\ b <= Len(doc.source) /\ b = StartOf(doc, i + 1)
        /\ doc.sections[i].heading.end \in Nat /\ doc.sections[i].heading.start \in Nat
        /\ doc.sections[i].heading.start < doc.sections[i].heading.end
        /\ doc.sections[i].range.start = doc.sections[i].heading.start
    BY <1>1, <1>4, PartsLie
  <2>3. doc.sections[i].heading.end <= a
    <3> HIDE DEF a, b
    <3> QED
      BY <2>1, <2>2
  <2> QED
    BY <2>2, <2>3
<1>9. p = Patch(a, b, body) /\ e = Candidate(Change(<<p>>)) /\ e = Candidate(c)
  BY DEF BodyPatch
<1> HIDE DEF p, e
<1>10. a = r.start /\ b = r.end /\ r = doc.sections[i].bodyRange
  OBVIOUS
<1> HIDE DEF a, b, r
<1>11. IsDocument(e) /\ IsCut(e.source, doc.source, a, b, body)
  BY <1>5, <1>8, <1>9, CandidateIs
<1>12. Counted(e, n)
  BY <1>2, <1>7 DEF Counted
<1> DEFINE x == z - (b - a)
<1>13. x \in Int
  BY <1>8
<1>14. PICK w \in Nat : Long(doc, w) /\ b <= w
  BY <1>1, <1>8, StartsIn DEF Long
<1>15. /\ Long(e, w + x)
       /\ \A j \in 1..a : e.source[j] = doc.source[j]
       /\ \A j \in 1..z : e.source[a + j] = body[j]
       /\ \A j \in (b + 1)..w : e.source[j + x] = doc.source[j]
  BY <1>6, <1>11, <1>14 DEF Long, IsCut
<1> HIDE DEF x
<1>16. ASSUME NEW k \in 1..n
       PROVE  SameHeading(doc, doc.sections[k], e.sections[k], e.source,
                          RangeAfterPatches(doc.sections[k].heading, <<p>>))
  <2>1. k \in DOMAIN doc.sections /\ 1 + k - 1 = k
    BY <1>1, <1>2 DEF IsDocument, Counted
  <2> QED
    BY <1>7, <2>1 DEF HeadingsKept
<1>17. ASSUME NEW k \in 1..n, k <= i PROVE Synced(doc, k, e, k, 0)
  <2>1. doc.sections[k].heading.end <= a
    <3>1. CASE k = i
      BY <1>8, <3>1
    <3>2. CASE k < i
      <4>1. k \in 1..Len(doc.sections) /\ k + 1 \in 1..(n + 1) /\ (k + 1 < i \/ k + 1 = i)
        BY <1>2, <1>3, <3>2 DEF Counted
      <4>2. doc.sections[k].heading.end <= StartOf(doc, k + 1)
        BY <1>1, <4>1, HeadingEnds
      <4>3. StartOf(doc, k + 1) \in Nat /\ StartOf(doc, i) \in Nat
            /\ StartOf(doc, k + 1) <= StartOf(doc, i)
        BY <1>1, <1>2, <1>3, <4>1, StartsIn DEF Counted
      <4>4. StartOf(doc, i) = doc.sections[i].heading.start
            /\ doc.sections[k].heading.end \in Nat
        BY <1>1, <1>4, <4>1, PartsLie
      <4> QED
        BY <1>8, <4>2, <4>3, <4>4
    <3>3. k = i \/ k < i
      BY <1>3, <1>17
    <3> QED
      BY <3>1, <3>2, <3>3
  <2> QED
    BY <1>1, <1>2, <1>5, <1>8, <1>9, <1>16, <2>1, KeptSynced
<1>18. ASSUME NEW k \in 1..n, k > i PROVE Synced(doc, k, e, k, x)
  <2>1. b <= doc.sections[k].heading.start
    <3>1. k \in 1..Len(doc.sections) /\ k \in 1..(n + 1) /\ i + 1 \in 1..(n + 1)
          /\ (i + 1 < k \/ i + 1 = k)
      BY <1>2, <1>3, <1>18 DEF Counted
    <3>2. b <= StartOf(doc, k)
      BY <1>1, <1>2, <1>8, <3>1, StartsIn DEF Counted
    <3>3. StartOf(doc, k) = doc.sections[k].heading.start
      BY <1>1, <3>1, PartsLie
    <3> QED
      BY <3>2, <3>3
  <2>2. Synced(doc, k, e, k, Len(body) - (b - a))
    BY <1>1, <1>2, <1>5, <1>8, <1>9, <1>16, <2>1, KeptSynced
  <2> QED
    BY <1>6, <2>2 DEF x
<1>19. ASSUME NEW k \in 1..(n + 1) PROVE k <= i => StartOf(e, k) = StartOf(doc, k) + 0
  <2> SUFFICES ASSUME k <= i PROVE StartOf(e, k) = StartOf(doc, k) + 0
    OBVIOUS
  <2>1. k \in 1..n
    BY <1>3
  <2>2. Synced(doc, k, e, k, 0)
    BY <1>17, <2>1
  <2>3. k \in 1..Len(doc.sections) /\ k \in 1..Len(e.sections)
    BY <1>2, <1>12, <2>1 DEF Counted
  <2>4. StartOf(doc, k) = doc.sections[k].heading.start
        /\ StartOf(e, k) = e.sections[k].heading.start
    BY <1>1, <1>11, <2>3, PartsLie
  <2> QED
    BY <2>2, <2>4 DEF Synced
<1>20. ASSUME NEW k \in 1..(n + 1) PROVE k > i => StartOf(e, k) = StartOf(doc, k) + x
  <2> SUFFICES ASSUME k > i PROVE StartOf(e, k) = StartOf(doc, k) + x
    OBVIOUS
  <2>1. CASE k \in 1..n
    <3>2. Synced(doc, k, e, k, x)
      BY <1>18, <2>1
    <3>3. k \in 1..Len(doc.sections) /\ k \in 1..Len(e.sections)
      BY <1>2, <1>12, <2>1 DEF Counted
    <3>4. StartOf(doc, k) = doc.sections[k].heading.start
          /\ StartOf(e, k) = e.sections[k].heading.start
      BY <1>1, <1>11, <3>3, PartsLie
    <3> QED
      BY <3>2, <3>4 DEF Synced
  <2>2. CASE k = n + 1
    <3>1. StartOf(doc, Len(doc.sections) + 1) = Len(doc.source)
          /\ StartOf(e, Len(e.sections) + 1) = Len(e.source)
      BY <1>1, <1>11, StartsIn
    <3>2. StartOf(doc, n + 1) = w /\ StartOf(e, n + 1) = w + x
      BY <1>2, <1>12, <1>14, <1>15, <3>1 DEF Counted, Long
    <3> QED
      BY <2>2, <3>2
  <2> QED
    BY <2>1, <2>2
<1>21. ASSUME NEW k \in 1..n, k < i PROVE Entry(e, k) = Entry(doc, k)
  <2>1. k + 1 \in 1..(n + 1) /\ k + 1 <= i /\ k <= i /\ (k + 1 < i \/ k + 1 = i)
    BY <1>3, <1>21
  <2>2. StartOf(e, k + 1) = StartOf(doc, k + 1) + 0
    BY <1>19, <2>1
  <2>3. StartOf(doc, k + 1) \in Nat /\ StartOf(doc, k) \in Nat /\ StartOf(doc, k + 1) <= a
    <3>1. StartOf(doc, k + 1) \in Nat /\ StartOf(doc, i) \in Nat /\ StartOf(doc, k) \in Nat
          /\ StartOf(doc, k + 1) <= StartOf(doc, i)
      <4>1. k \in 1..(n + 1)
        OBVIOUS
      <4> QED
        BY <1>1, <1>2, <1>3, <2>1, <4>1, StartsIn DEF Counted
    <3>2. StartOf(doc, i) = doc.sections[i].heading.start
      BY <1>1, <1>4, PartsLie
    <3> QED
      BY <1>8, <3>1, <3>2
  <2>4. \A j \in (StartOf(doc, k) + 1)..StartOf(doc, k + 1) : e.source[j + 0] = doc.source[j]
    <3> TAKE j \in (StartOf(doc, k) + 1)..StartOf(doc, k + 1)
    <3>1. j \in 1..a /\ j + 0 = j
      BY <1>8, <2>3
    <3> QED
      BY <1>15, <3>1
  <2>5. Copied(doc, k, e, k, 0)
    BY <1>17, <2>1, <2>2, <2>4 DEF Copied
  <2> QED
    BY <1>1, <1>2, <1>11, <1>12, <2>5, SameEntry
<1>22. ASSUME NEW k \in 1..n, k > i PROVE Entry(e, k) = Entry(doc, k)
  <2>1. k + 1 \in 1..(n + 1) /\ k \in 1..(n + 1) /\ k + 1 > i /\ (i + 1 < k \/ i + 1 = k)
    BY <1>3, <1>22
  <2>2. StartOf(e, k + 1) = StartOf(doc, k + 1) + x
    BY <1>20, <2>1
  <2>3. StartOf(doc, k + 1) \in Nat /\ StartOf(doc, k) \in Nat
        /\ StartOf(doc, k + 1) <= w /\ b <= StartOf(doc, k)
    BY <1>1, <1>2, <1>3, <1>8, <1>14, <2>1, StartsIn DEF Counted, Long
  <2>4. \A j \in (StartOf(doc, k) + 1)..StartOf(doc, k + 1) : e.source[j + x] = doc.source[j]
    <3> TAKE j \in (StartOf(doc, k) + 1)..StartOf(doc, k + 1)
    <3>1. j \in (b + 1)..w
      BY <1>8, <2>3
    <3> QED
      BY <1>15, <3>1
  <2>5. Copied(doc, k, e, k, x)
    BY <1>18, <1>22, <2>2, <2>4 DEF Copied
  <2> QED
    BY <1>1, <1>2, <1>11, <1>12, <1>13, <2>5, SameEntry
<1>23. e.sections[i].level = doc.sections[i].level
       /\ e.sections[i].heading.start = doc.sections[i].heading.start
  <2>1. Synced(doc, i, e, i, 0)
    BY <1>3, <1>17
  <2> QED
    BY <1>8, <2>1 DEF Synced
<1>24. Entry(e, i).level = Entry(doc, i).level
  BY <1>23 DEF Entry
<1>25. e.sections[i].range.start = doc.sections[i].range.start
  <2>1. i \in 1..Len(e.sections)
    BY <1>3, <1>12 DEF Counted
  <2>2. e.sections[i].range.start = e.sections[i].heading.start
    BY <1>11, <2>1, PartsLie
  <2> QED
    BY <1>8, <1>23, <2>2
<1>26. Entry(e, i).heading = Entry(doc, i).heading
  <2> DEFINE g == doc.sections[i].range.start
             o == 0
  <2>1. g \in Nat /\ g <= a /\ o \in Int /\ 0 <= g + o /\ g + o = g /\ a + o = a
    BY <1>8
  <2>2. IsText(e.source) /\ a <= Len(doc.source)
    <3>1. Len(doc.source) \in Nat
      BY <1>1, StartsIn
    <3> QED
      BY <1>8, <1>11, <3>1 DEF IsDocument
  <2>3. a + o <= Len(e.source)
    <3>1. a <= w + x
      BY <1>8, <1>14 DEF x
    <3> QED
      BY <1>15, <2>1, <3>1 DEF Long
  <2>4. \A j \in (g + 1)..a : e.source[j + o] = doc.source[j]
    BY <1>15, <2>1
  <2> HIDE DEF g, o
  <2>5. SubSeq(e.source, g + o + 1, a + o) = SubSeq(doc.source, g + 1, a)
    BY <1>1, <1>8, <2>1, <2>2, <2>3, <2>4, SameBytes
  <2>6. SubSeq(e.source, g + 1, a) = SubSeq(doc.source, g + 1, a)
    BY <2>1, <2>5
  <2>7. e.sections[i].bodyRange.start = a /\ doc.sections[i].bodyRange.start = a
        /\ e.sections[i].range.start = g /\ doc.sections[i].range.start = g
    BY <1>7, <1>10, <1>25 DEF g
  <2>8. Entry(e, i).heading = SubSeq(e.source, g + 1, a)
        /\ Entry(doc, i).heading = SubSeq(doc.source, g + 1, a)
    BY <2>7 DEF Entry
  <2> QED
    BY <2>6, <2>8
<1>27. Entry(e, i).body = body
  <2> DEFINE o == 0
  <2>1. o \in Nat /\ o <= z /\ 0 <= o + a /\ o + a = a /\ z + a = a + z /\ o + 1 = 1
    BY <1>8
  <2>2. IsText(e.source)
    BY <1>11 DEF IsDocument
  <2>3. z + a <= Len(e.source) /\ z <= Len(body)
    <3>1. z + a <= w + x
      BY <1>8, <1>14 DEF x
    <3> QED
      BY <1>6, <1>15, <3>1 DEF Long
  <2>4. \A j \in (o + 1)..z : e.source[j + a] = body[j]
    <3> TAKE j \in (o + 1)..z
    <3>1. j \in 1..z /\ j + a = a + j
      BY <1>8, <2>1
    <3> QED
      BY <1>15, <3>1
  <2> HIDE DEF o
  <2>5. SubSeq(e.source, o + a + 1, z + a) = SubSeq(body, o + 1, z)
    BY <1>5, <1>8, <2>1, <2>2, <2>3, <2>4, SameBytes
  <2>6. SubSeq(e.source, a + 1, a + z) = SubSeq(body, 1, z)
    BY <2>1, <2>5
  <2>7. SubSeq(body, 1, z) = body
    <3>1. PICK T : body \in Seq(T)
      BY <1>5 DEF IsText
    <3> QED
      BY <1>6, <3>1
  <2>8. Entry(e, i).body = SubSeq(e.source, a + 1, a + z)
    <3>1. e.sections[i].bodyRange.start = a /\ e.sections[i].bodyRange.end = a + z
      BY <1>7
    <3>2. Entry(e, i).body = SubSeq(e.source, e.sections[i].bodyRange.start + 1,
                                    e.sections[i].bodyRange.end)
      BY DEF Entry
    <3> QED
      BY <3>1, <3>2
  <2> QED
    BY <2>6, <2>7, <2>8
<1>28. ForestOf(e) = [ForestOf(doc) EXCEPT ![i].body = body]
  <2>1. \A k \in 1..n : k # i => Entry(e, k) = Entry(doc, k)
    BY <1>3, <1>21, <1>22
  <2> QED
    BY <1>1, <1>2, <1>3, <1>11, <1>12, <1>24, <1>26, <1>27, <2>1, SameForest
<1>29. PreambleOf(e) = PreambleOf(doc)
  <2>1. PICK g \in Nat : g = StartOf(doc, 1)
    <3>1. 1 \in 1..(n + 1)
      BY <1>2
    <3> QED
      BY <1>1, <1>2, <3>1, StartsIn DEF Counted
  <2>2. g <= a /\ StartOf(e, 1) = g
    <3>1. 1 \in 1..(n + 1) /\ 1 <= i /\ (1 < i \/ 1 = i)
      BY <1>3
    <3>2. StartOf(doc, i) = doc.sections[i].heading.start
      BY <1>1, <1>4, PartsLie
    <3>3. StartOf(doc, 1) <= StartOf(doc, i) /\ StartOf(doc, i) \in Nat
      BY <1>1, <1>2, <1>3, <2>1, <3>1, StartsIn DEF Counted
    <3>4. StartOf(e, 1) = StartOf(doc, 1) + 0
      BY <1>19, <3>1
    <3> QED
      BY <1>8, <2>1, <3>2, <3>3, <3>4
  <2>3. \A j \in (0 + 1)..g : e.source[j + 0] = doc.source[j]
    BY <1>8, <1>15, <2>2
  <2>4. g <= Len(doc.source) /\ g + 0 <= Len(e.source)
    <3>1. g <= w + x /\ g <= w /\ g + 0 = g
      BY <1>8, <1>14, <2>2 DEF x
    <3> QED
      BY <1>14, <1>15, <3>1 DEF Long
  <2>5. IsText(e.source)
    BY <1>11 DEF IsDocument
  <2>6. SubSeq(e.source, 0 + 0 + 1, g + 0) = SubSeq(doc.source, 0 + 1, g)
    BY <1>1, <2>3, <2>4, <2>5, SameBytes
  <2>7. SubSeq(e.source, 1, g) = SubSeq(doc.source, 1, g)
    BY <2>6
  <2> QED
    BY <1>1, <1>11, <2>1, <2>2, <2>7, PreambleIs
<1>30. ForestOf(e) \in O!Edits(ForestOf(doc), i) /\ i \in DOMAIN ForestOf(doc)
  <2>1. ForestOf(e) \in O!ReplaceBody(ForestOf(doc), i)
    BY <1>28 DEF O!ReplaceBody
  <2>2. ForestOf(e) \in O!Edits(ForestOf(doc), i)
    BY <2>1 DEF O!Edits
  <2>3. i \in DOMAIN ForestOf(doc)
    <3>1. ForestOf(doc) = [k \in 1..Len(doc.sections) |-> Entry(doc, k)]
      BY <1>1, ForestIs
    <3> QED
      BY <1>4, <3>1
  <2> QED
    BY <2>2, <2>3
<1> QED
  BY <1>7, <1>9, <1>29, <1>30 DEF Outlined

-----------------------------------------------------------------------------
LEMMA RewrittenElsewhere ==
    ASSUME NEW d, NEW e, IsDocument(d), IsDocument(e), NEW n \in Nat, NEW i, NEW w \in Nat,
           NEW x \in Int, NEW a, NEW b, Rewritten(d, e, i, n, w, x, a, b)
    PROVE  /\ PreambleOf(e) = PreambleOf(d)
           /\ Others(ForestOf(e), i) = Others(ForestOf(d), i)
<1>1. i \in 1..n /\ Len(d.sections) = n /\ Len(d.source) = w
      /\ Len(e.sections) = n /\ Len(e.source) = w + x
  BY DEF Rewritten, Counted, Long
<1>2. ForestOf(d) = [k \in 1..n |-> Entry(d, k)] /\ ForestOf(e) = [k \in 1..n |-> Entry(e, k)]
  <2>1. ForestOf(d) = [k \in 1..Len(d.sections) |-> Entry(d, k)]
        /\ ForestOf(e) = [k \in 1..Len(e.sections) |-> Entry(e, k)]
    BY ForestIs
  <2> QED
    BY <1>1, <2>1, Zenon
<1>3. \A k \in 1..n : (IF k = i THEN [body |-> Entry(e, k).body] ELSE Entry(e, k))
                        = (IF k = i THEN [body |-> Entry(d, k).body] ELSE Entry(d, k))
  <2>1. Entry(e, i).body = Entry(d, i).body
    BY RewrittenBody
  <2>2. \A k \in 1..n : k # i => Entry(e, k) = Entry(d, k)
    BY RewrittenEntry
  <2> HIDE DEF Entry
  <2> QED
    BY <2>1, <2>2, Zenon
<1>4. Others(ForestOf(e), i) = Others(ForestOf(d), i)
  <2> HIDE DEF Entry
  <2>1. Others(ForestOf(e), i) = [k \in 1..n |-> IF k = i THEN [body |-> Entry(e, k).body] ELSE Entry(e, k)]
    BY <1>2 DEF Others
  <2>2. Others(ForestOf(d), i) = [k \in 1..n |-> IF k = i THEN [body |-> Entry(d, k).body] ELSE Entry(d, k)]
    BY <1>2 DEF Others
  <2> QED
    BY <1>3, <2>1, <2>2
<1>5. PreambleOf(e) = PreambleOf(d)
  <2> DEFINE g == StartOf(d, 1)
             o == 0
  <2>1. 1 \in 1..(n + 1) /\ i \in 1..(n + 1) /\ (1 < i \/ 1 = i) /\ 1 <= i /\ i \in 1..Len(d.sections)
    BY <1>1
  <2>2. g \in Nat /\ g <= StartOf(d, i) /\ StartOf(d, i) \in Nat /\ StartOf(d, i) <= w
    BY <1>1, <2>1, StartsIn
  <2>3. StartOf(e, 1) = g
    BY <2>1, RewrittenStarts
  <2>4. a = StartOf(d, i) /\ g <= a /\ a <= w /\ a \in Nat
    <3>1. StartOf(d, i) = d.sections[i].heading.start
      BY <2>1, PartsLie
    <3> QED
      BY <2>2, <3>1 DEF Rewritten
  <2>5. StartOf(e, 1) \in Nat /\ StartOf(e, 1) <= w + x
    BY <1>1, <2>1, StartsIn
  <2> HIDE DEF g
  <2>6. \A j \in (o + 1)..g : e.source[j + o] = d.source[j]
    <3> TAKE j \in (o + 1)..g
    <3>1. j \in 1..a /\ j + o = j
      BY <2>2, <2>4 DEF g
    <3> QED
      BY <3>1 DEF Rewritten
  <2>7. IsText(d.source) /\ IsText(e.source) /\ g <= Len(d.source) /\ g + o <= Len(e.source)
        /\ o <= g /\ g \in Nat /\ o \in Nat /\ 0 <= o + o /\ o + o + 1 = 1 /\ o + 1 = 1 /\ g + o = g
        /\ o \in Int
    BY <1>1, <2>2, <2>3, <2>4, <2>5 DEF IsDocument, g
  <2> HIDE DEF o
  <2>8. SubSeq(e.source, o + o + 1, g + o) = SubSeq(d.source, o + 1, g)
    BY <2>6, <2>7, SameBytes
  <2>9. SubSeq(e.source, 1, g) = SubSeq(d.source, 1, g)
    BY <2>7, <2>8
  <2> QED
    BY <2>3, <2>9, PreambleIs DEF g
<1> QED
  BY <1>4, <1>5

-----------------------------------------------------------------------------
(***************************************************************************)
(* A heading whose level is changed.                                       *)
(***************************************************************************)
IsHeading(d, i, w, a, b) ==
    /\ d.sections[i].kind \in HeadingKinds
    /\ d.sections[i].heading = [start |-> a, end |-> b]
    /\ a \in Nat /\ b \in Nat /\ a < b /\ b <= w
    /\ StartsLine(d.source, a)
    /\ b = w \/ d.source[b + 1] = "nl"
    /\ d.sections[i].kind = "setext" => a + 3 <= b
    /\ d.sections[i].kind = "atx" => ContentRange(d.sections[i]) = [start |-> a + 1, end |-> b]
    /\ d.sections[i].kind # "atx" => ContentRange(d.sections[i]) = [start |-> a, end |-> b - 2]

LEMMA HeadingIs ==
    ASSUME NEW d, IsDocument(d), NEW n \in Nat, Counted(d, n), NEW w \in Nat, Long(d, w),
           NEW i \in 1..n
    PROVE  IsHeading(d, i, w, d.sections[i].heading.start, d.sections[i].heading.end)
<1> DEFINE t == d.sections[i]
           a == t.heading.start
           b == t.heading.end
<1>1. /\ t.kind \in HeadingKinds /\ t.heading = [start |-> a, end |-> b]
      /\ a \in Nat /\ b \in Nat /\ a < b /\ b <= w
      /\ StartsLine(d.source, a)
      /\ b = w \/ d.source[b + 1] = "nl"
      /\ t.kind = "setext" => a + 3 <= b
  BY DEF IsDocument, SectionLies, Counted, Long
<1> HIDE DEF t, a, b
<1>2. t.kind = "atx" => ContentRange(t) = [start |-> a + 1, end |-> b]
  BY <1>1 DEF ContentRange
<1>3. t.kind # "atx" => ContentRange(t) = [start |-> a, end |-> b - 2]
  BY <1>1 DEF ContentRange
<1> QED
  BY <1>1, <1>2, <1>3 DEF IsHeading, t, a, b

LEMMA RewritingPatches ==
    ASSUME NEW section, NEW p
    PROVE  Rewriting(section, p).patches = Change(<<p>>).patches
BY DEF Change, Rewriting

LEMMA RewritingIs ==
    ASSUME WellHeld, NEW section, NEW a \in Nat, NEW b \in Nat, a <= b, b <= Len(doc.source),
           NEW t, IsText(t), NEW p, p = Patch(a, b, t), NEW e, e = Candidate(Rewriting(section, p))
    PROVE  IsDocument(e) /\ IsCut(e.source, doc.source, a, b, t) /\ e = Candidate(Change(<<p>>))
<1>1. e = Candidate(Change(<<p>>))
  BY RewritingPatches DEF Candidate
<1>2. e = Candidate(Change(<<Patch(a, b, t)>>))
  BY <1>1
<1> QED
  BY <1>1, <1>2, CandidateIs

LEMMA CutRewrites ==
    ASSUME NEW d, NEW e, IsDocument(d), IsDocument(e), NEW n \in Nat, Counted(d, n), Counted(e, n),
           NEW i \in 1..n, NEW w \in Nat, Long(d, w), NEW a, NEW b,
           a = d.sections[i].heading.start, b = d.sections[i].heading.end,
           NEW f \in Nat, NEW g \in Nat, a <= f, f <= g, g <= b, NEW t, NEW z \in Nat, OfLength(t, z),
           IsCut(e.source, d.source, f, g, t), NEW x, x = z - (g - f),
           \A k \in 1..n : k < i => Synced(d, k, e, k, 0),
           \A k \in 1..n : k > i => Synced(d, k, e, k, x),
           e.sections[i].heading.start = a, e.sections[i].heading.end = b + x
    PROVE  Rewritten(d, e, i, n, w, x, a, b)
<1>1. /\ Len(e.source) = Len(d.source) + (Len(t) - (g - f))
      /\ \A j \in 1..f : e.source[j] = d.source[j]
      /\ \A j \in (g + 1)..Len(d.source) : e.source[j + (Len(t) - (g - f))] = d.source[j]
  BY DEF IsCut
<1>2. Len(t) - (g - f) = x /\ Len(d.source) = w
  BY DEF OfLength, Long
<1>3. Long(e, w + x)
  BY <1>1, <1>2 DEF Long
<1>4. IsHeading(d, i, w, a, b)
  BY HeadingIs
<1>5. a \in Nat /\ b \in Nat
  BY <1>4 DEF IsHeading
<1>6. \A j \in 1..a : e.source[j] = d.source[j]
  <2> TAKE j \in 1..a
  <2>1. j \in 1..f
    BY <1>5
  <2> QED
    BY <1>1, <2>1
<1>7. \A j \in (b + 1)..w : e.source[j + x] = d.source[j]
  <2> TAKE j \in (b + 1)..w
  <2>1. j \in (g + 1)..w
    BY <1>5
  <2> QED
    BY <1>1, <1>2, <2>1
<1> QED
  BY <1>3, <1>6, <1>7 DEF Rewritten

LEMMA BytesLong ==
    ASSUME NEW s, IsText(s), NEW w \in Nat, OfLength(s, w),
           NEW a \in Nat, NEW b \in Nat, a <= b, b <= w, NEW r, r = [start |-> a, end |-> b]
    PROVE  OfLength(Bytes(s, r), b - a)
<1>1. Bytes(s, r) = SubSeq(s, a + 1, b)
  BY DEF Bytes
<1>2. PICK V : s \in Seq(V)
  BY DEF IsText
<1>3. OfLength(SubSeq(s, a + 1, b), b - a)
  BY <1>2, SliceIs DEF IsSlice
<1> QED
  BY <1>1, <1>3

LEMMA TitleLong ==
    ASSUME NEW d, IsDocument(d), NEW n \in Nat, Counted(d, n), NEW w \in Nat, Long(d, w),
           NEW i \in 1..n, NEW a, NEW b, IsHeading(d, i, w, a, b)
    PROVE  OfLength(Title(d, i), IF d.sections[i].kind = "atx" THEN b - (a + 1) ELSE (b - 2) - a)
<1>1. IsText(d.source) /\ OfLength(d.source, w)
  BY DEF IsDocument, Long, OfLength
<1> DEFINE r == ContentRange(d.sections[i])
           s == d.source
<1>2. Title(d, i) = Bytes(s, r)
  BY DEF Title
<1>3. CASE d.sections[i].kind = "atx"
  <2> DEFINE f == a + 1
  <2>1. f \in Nat /\ b \in Nat /\ f <= b /\ b <= w /\ r = [start |-> f, end |-> b]
    BY <1>3 DEF IsHeading
  <2> HIDE DEF f, r, s
  <2>2. OfLength(Bytes(s, r), b - f)
    BY <1>1, <2>1, BytesLong DEF s
  <2> QED
    BY <1>2, <1>3, <2>2 DEF f
<1>4. CASE d.sections[i].kind # "atx"
  <2> DEFINE f == b - 2
  <2>1. f \in Nat /\ a \in Nat /\ a <= f /\ f <= w /\ r = [start |-> a, end |-> f]
    BY <1>4 DEF IsHeading, HeadingKinds
  <2> HIDE DEF f, r, s
  <2>2. OfLength(Bytes(s, r), f - a)
    BY <1>1, <2>1, BytesLong DEF s
  <2> QED
    BY <1>2, <1>4, <2>2 DEF f
<1> QED
  BY <1>3, <1>4

\* The patch lies in the heading, and what LevelHolds says of the candidate.
LEMMA LevelRewrites ==
    ASSUME WellHeld, NEW n \in Nat, Counted(doc, n), NEW w \in Nat, Long(doc, w), NEW i \in 1..n,
           NEW a, NEW b, IsHeading(doc, i, w, a, b),
           NEW f \in Nat, NEW g \in Nat, a <= f, f <= g, g <= b,
           NEW t, IsText(t), NEW z \in Nat, OfLength(t, z), NEW x, x = z - (g - f),
           NEW p, p = Patch(f, g, t), NEW e, e = Candidate(Rewriting(sections[i], p)),
           NEW level, LevelHolds(e, i, level, p),
           IF e.sections[i].kind = doc.sections[i].kind THEN x = 0
           ELSE doc.sections[i].kind = "setext" /\ e.sections[i].kind = "atx" /\ x = -1
    PROVE  IsDocument(e) /\ Rewritten(doc, e, i, n, w, x, a, b)
<1>1. IsDocument(doc) /\ IsText(doc.source) /\ Targets = 1..Len(doc.sections)
  BY DocumentIs
<1>2. /\ a \in Nat /\ b \in Nat /\ a < b /\ b <= w
      /\ a = doc.sections[i].heading.start /\ b = doc.sections[i].heading.end
  BY DEF IsHeading
<1>3. IsDocument(e) /\ IsCut(e.source, doc.source, f, g, t)
  <2>1. g <= Len(doc.source)
    BY <1>2 DEF Long
  <2> QED
    BY <2>1, RewritingIs
<1>4. Counted(e, n)
  BY DEF LevelHolds, Counted, sections
<1>5. \A k \in 1..n : k # i =>
         SameHeading(doc, doc.sections[k], e.sections[k], e.source,
                     RangeAfterPatches(doc.sections[k].heading, <<p>>))
  <2>1. Targets = 1..n
    BY <1>1 DEF Counted
  <2> QED
    BY <2>1 DEF LevelHolds, sections
<1>6. x = Len(t) - (g - f)
  BY DEF OfLength
<1>7. i \in 1..(n + 1) /\ i + 1 \in 1..(n + 1) /\ i \in 1..Len(doc.sections) /\ Len(doc.sections) = n
  BY DEF Counted
<1>8. StartOf(doc, i) = a /\ b <= StartOf(doc, i + 1) /\ StartOf(doc, i + 1) \in Nat
  <2>1. StartOf(doc, i) = doc.sections[i].heading.start
        /\ StartOf(doc, i + 1) \in Nat
    BY <1>1, <1>7, PartsLie
  <2>2. doc.sections[i].heading.end <= StartOf(doc, i + 1)
    BY <1>1, <1>7, HeadingEnds
  <2> QED
    BY <1>2, <2>1, <2>2
<1>9. ASSUME NEW k \in 1..n, k < i PROVE Synced(doc, k, e, k, 0)
  <2>1. k \in 1..Len(doc.sections) /\ k + 1 \in 1..(n + 1) /\ (k + 1 < i \/ k + 1 = i)
    BY <1>7, <1>9
  <2>2. doc.sections[k].heading.end <= StartOf(doc, k + 1) /\ doc.sections[k].heading.end \in Nat
    BY <1>1, <2>1, HeadingEnds, PartsLie
  <2>3. StartOf(doc, k + 1) \in Nat /\ StartOf(doc, k + 1) <= StartOf(doc, i)
    BY <1>1, <1>7, <2>1, StartsIn
  <2>4. doc.sections[k].heading.end <= f
    BY <1>2, <1>8, <2>2, <2>3
  <2>5. SameHeading(doc, doc.sections[k], e.sections[k], e.source,
                    RangeAfterPatches(doc.sections[k].heading, <<p>>))
    BY <1>5, <1>9
  <2> QED
    BY <1>1, <2>4, <2>5, KeptSynced
<1>10. ASSUME NEW k \in 1..n, k > i PROVE Synced(doc, k, e, k, x)
  <2>1. k \in 1..Len(doc.sections) /\ k \in 1..(n + 1) /\ (i + 1 < k \/ i + 1 = k)
    BY <1>7, <1>10
  <2>2. StartOf(doc, k) = doc.sections[k].heading.start
    BY <1>1, <2>1, PartsLie
  <2>3. StartOf(doc, k) \in Nat /\ StartOf(doc, i + 1) <= StartOf(doc, k)
    BY <1>1, <1>7, <2>1, StartsIn
  <2>4. g <= doc.sections[k].heading.start
    BY <1>2, <1>8, <2>2, <2>3
  <2>5. SameHeading(doc, doc.sections[k], e.sections[k], e.source,
                    RangeAfterPatches(doc.sections[k].heading, <<p>>))
    BY <1>5, <1>10
  <2>6. Synced(doc, k, e, k, Len(t) - (g - f))
    BY <1>1, <2>4, <2>5, KeptSynced
  <2> QED
    BY <1>6, <2>6
<1>11. /\ e.sections[i].heading.start = a
       /\ Title(e, i) = Title(doc, i)
  BY <1>2 DEF LevelHolds, sections
<1>12. e.sections[i].heading.end = b + x
  <2> DEFINE l == e.sections[i].heading.end
             k1 == doc.sections[i].kind
             k2 == e.sections[i].kind
  <2>1. PICK v \in Nat : Long(e, v)
    <3>1. Len(e.source) \in Nat
      BY <1>3, TextIs DEF IsDocument
    <3> QED
      BY <3>1 DEF Long
  <2>2. IsHeading(e, i, v, a, l)
    <3>1. IsHeading(e, i, v, e.sections[i].heading.start, e.sections[i].heading.end)
      BY <1>3, <1>4, <2>1, HeadingIs
    <3> QED
      BY <1>11, <3>1
  <2>3. OfLength(Title(e, i), IF k2 = "atx" THEN l - (a + 1) ELSE (l - 2) - a)
    BY <1>3, <1>4, <2>1, <2>2, TitleLong
  <2>4. OfLength(Title(doc, i), IF k1 = "atx" THEN b - (a + 1) ELSE (b - 2) - a)
    BY <1>1, TitleLong
  <2>5. (IF k2 = "atx" THEN l - (a + 1) ELSE (l - 2) - a)
           = (IF k1 = "atx" THEN b - (a + 1) ELSE (b - 2) - a)
    BY <1>11, <2>3, <2>4 DEF OfLength
  <2>6. l \in Nat
    BY <2>2 DEF IsHeading
  <2>7. IF k2 = k1 THEN x = 0 ELSE k1 = "setext" /\ k2 = "atx" /\ x = -1
    OBVIOUS
  <2> HIDE DEF l, k1, k2
  <2>8. l = b + x
    <3>1. CASE k2 = k1
      <4>1. x = 0
        BY <2>7, <3>1
      <4>2. l = b
        BY <1>2, <2>5, <2>6, <3>1
      <4> QED
        BY <1>2, <4>1, <4>2
    <3>2. CASE k2 # k1
      <4>1. x = -1 /\ k1 = "setext" /\ k2 = "atx"
        BY <2>7, <3>2
      <4>2. l - (a + 1) = (b - 2) - a
        BY <2>5, <4>1
      <4> QED
        BY <1>2, <2>6, <4>1, <4>2
    <3> QED
      BY <3>1, <3>2
  <2> QED
    BY <2>8 DEF l
<1>13. Rewritten(doc, e, i, n, w, x, a, b)
  BY <1>1, <1>2, <1>3, <1>4, <1>9, <1>10, <1>11, <1>12, CutRewrites
<1> QED
  BY <1>3, <1>13

-----------------------------------------------------------------------------
LEMMA SpliceNone ==
    ASSUME NEW s, IsText(s)
    PROVE  Splice(s, InOrder(<< >>)) = s
<1>1. PICK V : s \in Seq(V)
  BY DEF IsText
<1> DEFINE nil == << >>
           q == InOrder(nil)
           a == Splice(s, q)
<1>2. nil \in Seq(Patches(V)) /\ Len(nil) = 0
  OBVIOUS
<1>3. q = nil /\ LaidOut(q, Len(s))
  BY NoPatch
<1>4. q \in Seq(Patches(V)) /\ Len(q) = 0 /\ Len(s) \in Nat
  <2>1. q \in Seq(Patches(V)) /\ Len(q) = 0
    <3> HIDE DEF q
    <3> QED
      BY <1>2, <1>3
  <2> QED
    BY <1>1, <2>1
<1> HIDE DEF nil, q
<1>5. a \in Seq(V) /\ Lengths(a, s, q) /\ GapsKept(a, s, q)
  BY <1>1, <1>3, <1>4, SpliceIs
<1>6. PrefixDelta(q, 0) = 0
  BY <1>4, DeltaSums
<1>7. Len(a) = Len(s)
  BY <1>4, <1>5, <1>6 DEF Lengths
<1>8. Cursor(q, 0) = 0 /\ Limit(q, 0, Len(s)) = Len(s)
  BY <1>4 DEF Cursor, Limit
<1> HIDE DEF a
<1>9. ASSUME NEW i \in 1..Len(a) PROVE a[i] = s[i]
  <2>1. 0 \in 0..Len(q) /\ i - 1 \in Int /\ Between(q, 0, Len(s), i - 1)
    BY <1>4, <1>7, <1>8 DEF Between
  <2>2. a[(i - 1) + PrefixDelta(q, 0) + 1] = s[(i - 1) + 1]
    BY <1>5, <2>1 DEF GapsKept
  <2>3. (i - 1) + PrefixDelta(q, 0) + 1 = i /\ (i - 1) + 1 = i
    BY <1>6
  <2> QED
    BY <2>2, <2>3
<1>10. a = s
  BY <1>1, <1>5, <1>7, <1>9, SameSequences
<1> QED
  BY <1>10 DEF a, q, nil

LEMMA UnchangedIs ==
    ASSUME WellHeld
    PROVE  Candidate(Change(<< >>)) = doc
<1>1. Change(<< >>).patches = InOrder(<< >>)
  BY DEF Change
<1>2. Splice(doc.source, InOrder(<< >>)) = doc.source
  BY SpliceNone DEF WellHeld
<1> QED
  BY <1>1, <1>2 DEF Candidate, WellHeld

LocalTo(d, e, i) ==
    /\ PreambleOf(e) = PreambleOf(d)
    /\ Others(ForestOf(e), i) = Others(ForestOf(d), i)

\* A patch p of the heading [a, b) of d that changes its length, if at all, by
\* the one byte that turns a Setext heading into an ATX one.
LevelPatch(d, i, level, p, a, b) ==
    \E f, g, z \in Nat : \E t :
       /\ p = Patch(f, g, t) /\ IsText(t) /\ OfLength(t, z)
       /\ a <= f /\ f <= g /\ g <= b
       /\ d.sections[i].kind = "atx" \/ level <= 2 => z = g - f
       /\ ~(d.sections[i].kind = "atx" \/ level <= 2) =>
             d.sections[i].kind = "setext" /\ z - (g - f) = -1

LEMMA LevelPatchIs ==
    ASSUME NEW d, NEW i, NEW w, NEW a, NEW b, IsHeading(d, i, w, a, b), IsText(d.source),
           OfLength(d.source, w), w \in Nat,
           NEW level \in Int, NEW p \in LevelPatches(d, d.sections[i], level)
    PROVE  LevelPatch(d, i, level, p, a, b)
<1> DEFINE section == d.sections[i]
           content == Bytes(d.source, ContentRange(section))
<1>1. /\ section.kind \in {"atx", "setext"}
      /\ a \in Nat /\ b \in Nat /\ a < b /\ b <= w
      /\ section.heading.start = a /\ section.heading.end = b
      /\ section.kind = "setext" => a + 3 <= b
  BY DEF IsHeading, HeadingKinds
<1>2. CASE section.kind = "atx"
  <2>1. PICK m : p = Patch(a, a + 1, <<m>>)
    <3> HIDE DEF section
    <3> QED
      BY <1>1, <1>2 DEF LevelPatches, section
  <2>2. IsText(<<m>>) /\ OfLength(<<m>>, 1)
    BY TokenText DEF OfLength
  <2>3. a + 1 \in Nat /\ a <= a /\ a <= a + 1 /\ a + 1 <= b /\ 1 = (a + 1) - a /\ 1 \in Nat
    BY <1>1
  <2> QED
    BY <1>1, <1>2, <2>1, <2>2, <2>3 DEF LevelPatch
<1>3. CASE section.kind = "setext" /\ level <= 2
  <2>1. PICK m : p = Patch(b - 1, b, <<m>>)
    <3>1. section.kind # "atx" /\ ~(level > 2)
      BY <1>3
    <3>2. section.heading.end = b
      BY <1>1
    <3> DEFINE low == level <= 2
               high == level > 2
               all == LevelPatches(d, section, level)
    <3>3. all = {Patch(b - 1, b, <<u>>) : u \in UnderlinesOf(level)}
      <4> HIDE DEF section
      <4>1. low /\ ~high
        BY <1>3, <3>1
      <4>2. all = CASE section.kind = "atx" ->
                       {Patch(section.heading.start, section.heading.start + 1, <<m>>) : m \in MarkersOf(level)}
                    [] section.kind = "setext" /\ low ->
                       {Patch(section.heading.end - 1, section.heading.end, <<u>>) : u \in UnderlinesOf(level)}
                    [] section.kind = "setext" /\ high /\ "nl" \notin ToSet(content) ->
                       {Patch(section.heading.start, section.heading.end, <<m>> \o content) : m \in MarkersOf(level)}
                    [] OTHER -> {}
        BY DEF LevelPatches
      <4> HIDE DEF low, high, all, content
      <4> QED
        BY <1>3, <3>1, <3>2, <4>1, <4>2
    <3> QED
      BY <3>3
  <2>2. IsText(<<m>>) /\ OfLength(<<m>>, 1)
    BY TokenText DEF OfLength
  <2>3. b - 1 \in Nat /\ a <= b - 1 /\ b - 1 <= b /\ 1 = b - (b - 1) /\ b <= b /\ 1 \in Nat
    BY <1>1
  <2> QED
    BY <1>1, <1>3, <2>1, <2>2, <2>3 DEF LevelPatch
<1>4. CASE section.kind = "setext" /\ ~(level <= 2)
  <2>1. PICK m : p = Patch(a, b, <<m>> \o content)
    <3> HIDE DEF section
    <3> QED
      BY <1>1, <1>4 DEF LevelPatches, section
  <2> DEFINE c == b - 2
             z == 1 + (c - a)
             t == <<m>> \o content
  <2>2. c \in Nat /\ a <= c /\ c <= w /\ z \in Nat /\ z - (b - a) = -1 /\ a <= a /\ b <= b /\ a <= b
        /\ c - a \in Nat
    BY <1>1, <1>4
  <2>3. ContentRange(section) = [start |-> a, end |-> c]
    BY <1>4 DEF IsHeading
  <2> DEFINE r == ContentRange(section)
  <2> HIDE DEF r, c
  <2>4. OfLength(Bytes(d.source, r), c - a) /\ IsText(Bytes(d.source, r))
    <3>1. r = [start |-> a, end |-> c]
      BY <2>3 DEF r
    <3>2. OfLength(Bytes(d.source, r), c - a)
      BY <1>1, <2>2, <3>1, BytesLong
    <3>3. r.start = a /\ r.end = c /\ c <= Len(d.source)
      BY <2>2, <3>1 DEF OfLength
    <3>4. IsText(Bytes(d.source, r))
      BY <1>1, <2>2, <3>3, BytesText
    <3> QED
      BY <3>2, <3>4
  <2>5. OfLength(content, c - a) /\ IsText(content)
    BY <2>4 DEF r
  <2> HIDE DEF content
  <2>6. IsText(t) /\ OfLength(t, z)
    <3> DEFINE one == <<m>>
               y == c - a
    <3>1. IsText(one) /\ IsText(content)
      BY <2>5, TokenText
    <3>2. OfLength(one, 1)
      BY DEF OfLength
    <3>3. y \in Nat /\ OfLength(content, y)
      BY <2>2, <2>5
    <3> HIDE DEF one, y
    <3>4. PICK V : one \in Seq(V) /\ content \in Seq(V)
      BY <3>1, TextsTogether
    <3>5. IsJoin(one \o content, one, content, 1, y) /\ one \o content \in Seq(V)
      BY <3>2, <3>3, <3>4, TwoParts
    <3>6. OfLength(one \o content, 1 + y) /\ IsText(one \o content)
      BY <3>5 DEF IsJoin, IsText
    <3> QED
      BY <3>6 DEF one, y
  <2> HIDE DEF t, z
  <2>7. p = Patch(a, b, t)
    BY <2>1 DEF t
  <2> QED
    BY <1>1, <1>4, <2>2, <2>6, <2>7 DEF LevelPatch
<1>5. \/ section.kind = "atx"
      \/ section.kind = "setext" /\ level <= 2
      \/ section.kind = "setext" /\ ~(level <= 2)
  BY <1>1
<1> QED
  BY <1>2, <1>3, <1>4, <1>5

LEMMA LevelLocal ==
    ASSUME WellHeld, NEW i \in Targets, NEW level \in Int, PrepareSetHeadingLevel(i, level)
    PROVE  \E c : /\ LocalTo(doc, Candidate(c), i)
                  /\ Hold([kind |-> "level", at |-> i, level |-> level], c)
<1> DEFINE operation == [kind |-> "level", at |-> i, level |-> level]
           section == sections[i]
<1>1. IsDocument(doc) /\ IsText(doc.source)
  BY DocumentIs
<1>2. PICK n \in Nat : Counted(doc, n)
  BY DocumentIs DEF Counted
<1>3. PICK w \in Nat : Long(doc, w)
  BY DocumentIs DEF Long
<1>4. i \in 1..n
  BY <1>2, DocumentIs DEF Counted
<1> DEFINE a == doc.sections[i].heading.start
           b == doc.sections[i].heading.end
<1>5. IsHeading(doc, i, w, a, b)
  BY <1>1, <1>2, <1>3, <1>4, HeadingIs
<1> HIDE DEF a, b
<1>6. \/ Hold(operation, Change(<< >>))
      \/ \E patch \in LevelPatches(doc, section, level) :
            /\ LevelHolds(Candidate(Rewriting(section, patch)), i, level, patch)
            /\ Hold(operation, Rewriting(section, patch))
  BY DEF PrepareSetHeadingLevel
<1> HIDE DEF operation, section
<1>7. CASE Hold(operation, Change(<< >>))
  <2>1. LocalTo(doc, Candidate(Change(<< >>)), i)
    BY UnchangedIs DEF LocalTo
  <2> QED
    BY <1>7, <2>1 DEF operation
<1>8. ASSUME NEW p \in LevelPatches(doc, section, level),
             LevelHolds(Candidate(Rewriting(section, p)), i, level, p),
             Hold(operation, Rewriting(section, p))
      PROVE  LocalTo(doc, Candidate(Rewriting(section, p)), i)
  <2> DEFINE kind == doc.sections[i].kind
             short == kind = "atx" \/ level <= 2
  <2>1. \E f, g, z \in Nat : \E t :
              /\ p = Patch(f, g, t) /\ IsText(t) /\ OfLength(t, z)
              /\ a <= f /\ f <= g /\ g <= b
              /\ short => z = g - f
              /\ ~short => kind = "setext" /\ z - (g - f) = -1
    <3>1. OfLength(doc.source, w)
      BY <1>3 DEF OfLength, Long
    <3>2. p \in LevelPatches(doc, doc.sections[i], level)
      BY DEF section, sections
    <3>3. LevelPatch(doc, i, level, p, a, b)
      BY <1>1, <1>3, <1>5, <3>1, <3>2, LevelPatchIs
    <3> QED
      BY <3>3, Zenon DEF LevelPatch, kind, short
  <2>7. PICK f \in Nat, g \in Nat, z \in Nat :
           \E t : /\ p = Patch(f, g, t) /\ IsText(t) /\ OfLength(t, z)
                  /\ a <= f /\ f <= g /\ g <= b
                  /\ short => z = g - f
                  /\ ~short => kind = "setext" /\ z - (g - f) = -1
    BY <2>1
  <2>8. PICK t : /\ p = Patch(f, g, t) /\ IsText(t) /\ OfLength(t, z)
                 /\ a <= f /\ f <= g /\ g <= b
                 /\ short => z = g - f
                 /\ ~short => kind = "setext" /\ z - (g - f) = -1
    BY <2>7
  <2> DEFINE x == z - (g - f)
             e == Candidate(Rewriting(sections[i], p))
  <2>2. e.sections[i].kind = (IF level > 2 THEN "atx" ELSE kind) /\ LevelHolds(e, i, level, p)
    BY <1>8 DEF LevelHolds, section, sections
  <2> HIDE DEF e
  <2>3. IF e.sections[i].kind = doc.sections[i].kind THEN x = 0
        ELSE doc.sections[i].kind = "setext" /\ e.sections[i].kind = "atx" /\ x = -1
    <3>1. kind \in {"atx", "setext"}
      BY <1>5 DEF IsHeading, HeadingKinds
    <3>2. CASE short
      <4>1. x = 0
        BY <2>8, <3>2
      <4>2. e.sections[i].kind = kind
        BY <2>2, <3>1, <3>2
      <4> QED
        BY <4>1, <4>2
    <3>3. CASE ~short
      <4>1. x = -1 /\ kind = "setext" /\ level > 2
        BY <2>8, <3>3
      <4>2. e.sections[i].kind = "atx"
        BY <2>2, <4>1
      <4> QED
        BY <4>1, <4>2
    <3> QED
      BY <3>2, <3>3
  <2>4. x = z - (g - f) /\ x \in Int /\ e = Candidate(Rewriting(sections[i], p))
    BY DEF e
  <2> HIDE DEF x, kind, short
  <2>5. IsDocument(e) /\ Rewritten(doc, e, i, n, w, x, a, b)
    BY <1>2, <1>3, <1>4, <1>5, <2>8, <2>2, <2>3, <2>4, LevelRewrites
  <2>6. LocalTo(doc, e, i)
    BY <1>1, <2>4, <2>5, RewrittenElsewhere DEF LocalTo
  <2> QED
    BY <2>6 DEF e, section
<1> QED
  BY <1>6, <1>7, <1>8 DEF operation

-----------------------------------------------------------------------------
LEMMA HeadReplaced ==
    ASSUME NEW d, NEW m, NEW w \in Nat, NEW n \in Nat, HasRun(d, m, w, n),
           NEW e, NEW v, NEW y \in Nat, NEW g \in Nat, HasRun(e, v, y, g),
           NEW i \in 1..n, NEW a, NEW b, IsHeading(d, i, w, a, b),
           NEW x \in Int, y = w + x, a <= y, AgreeTo(d, e, a),
           SameText(d.source, e.source, b, w, x), IsNow(e.source, v, y, i, a, b + x)
    PROVE  Restored(d, e, n, i, a, b, x)
<1>21. PICK j \in 0..(y - 1) : NowAt(e.source, v, i, j, a, b + x)
  BY DEF IsNow
<1>22. PICK h : MadeAt(e.source, v, i, h, j) /\ h.start = a /\ h.end = b + x
  BY <1>21 DEF NowAt
<1>23. d.sections[i].heading.start = a /\ d.sections[i].heading.end = b /\ a \in Nat /\ b \in Nat
  BY DEF IsHeading
<1> DEFINE s == d.source
           u == e.source
           t == m[w].heads[i]
<1>1. /\ IsText(s) /\ IsRun(s, m) /\ OfLength(s, w) /\ OfLength(m[w].heads, n)
      /\ \A k \in 1..n : IsHead(d, k, m[w].heads[k])
  BY DEF HasRun
<1>2. /\ IsText(u) /\ IsRun(u, v) /\ OfLength(u, y) /\ OfLength(v[y].heads, g) /\ Counted(e, g)
      /\ \A k \in 1..g : IsHead(e, k, v[y].heads[k])
  BY DEF HasRun
<1>3. MadeAt(u, v, i, h, j) /\ SameText(s, u, b, w, x) /\ \A k \in 1..a : u[k] = s[k]
  BY <1>22 DEF AgreeTo
<1>4. t.start = a /\ t.end = b
  <2>1. d.sections[i].heading.start = t.start /\ d.sections[i].heading.end = t.end
    BY RunHead
  <2> HIDE DEF t
  <2> QED
    BY <1>23, <2>1
<1>5. i \in Nat /\ i # 0 /\ w \in 0..w /\ y \in 0..y
  OBVIOUS
<1>6. PICK l \in 0..(w - 1) : MadeAt(s, m, i, t, l)
  BY <1>1, <1>5, HeadMade
<1> HIDE DEF s, u, t
<1>7. /\ t.end \in (l + 1)..w
      /\ t.end = w \/ s[t.end + 1] = "nl"
      /\ ~StartsLine(s, t.end)
      /\ m[t.end].open = "none"
      /\ OfLength(m[t.end].heads, i)
  BY <1>1, <1>5, <1>6, AfterHead
<1>8. /\ t.start \in 0..l
      /\ StartsLine(s, t.start)
      /\ OfLength(m[t.start].heads, i - 1)
  BY <1>1, <1>5, <1>6, BeforeHead
<1>9. /\ b \in (l + 1)..w
      /\ b = w \/ s[b + 1] = "nl"
      /\ ~StartsLine(s, b)
      /\ m[b].open = "none"
      /\ OfLength(m[b].heads, i)
      /\ a \in 0..l
      /\ StartsLine(s, a)
      /\ OfLength(m[a].heads, i - 1)
  BY <1>4, <1>7, <1>8
<1>10. /\ h.end \in (j + 1)..y
       /\ ~StartsLine(u, h.end)
       /\ v[h.end].open = "none"
       /\ OfLength(v[h.end].heads, i)
       /\ v[h.end].heads[i] = h
  BY <1>2, <1>3, <1>5, AfterHead
<1> DEFINE f == b + x
<1>11. /\ f \in (j + 1)..y
       /\ ~StartsLine(u, f)
       /\ v[f].open = "none"
       /\ OfLength(v[f].heads, i)
       /\ v[f].heads[i] = h
  BY <1>10, <1>22
<1>12. b \in 0..w /\ 0 <= b + x /\ a \in 0..w /\ a \in 0..y /\ f \in 0..y /\ y \in f..y /\ w \in a..w
       /\ y \in a..y
  <2>1. b \in Nat /\ b <= w /\ a <= w /\ a \in Nat
    BY <1>9
  <2>2. f \in Nat /\ f <= y /\ f = b + x
    BY <1>11
  <2> HIDE DEF f
  <2> QED
    BY <2>1, <2>2
<1>13. \E c \in Nat : Alike(m[w], v[y], x, i, i, c)
  BY <1>1, <1>2, <1>3, <1>5, <1>9, <1>11, <1>12, SyncAfter
<1>14. PICK c \in Nat : Alike(m[w], v[y], x, i, i, c)
  BY <1>13
<1>15. n = i + c /\ g = n
  BY <1>1, <1>2, <1>14 DEF Alike, OfLength
<1>16. \A k \in 1..n : IsHead(e, k, v[y].heads[k]) /\ IsHead(d, k, m[w].heads[k])
  BY <1>1, <1>2, <1>15
<1>17. ASSUME NEW k \in 1..n, k > i PROVE Synced(d, k, e, k, x)
  <2> DEFINE r == k - i
  <2>1. r \in 1..c /\ i + r = k
    BY <1>15, <1>17
  <2>2. v[y].heads[i + r] = HeadMoved(m[w].heads[i + r], x)
    BY <1>14, <2>1 DEF Alike
  <2>3. v[y].heads[k] = HeadMoved(m[w].heads[k], x)
    BY <2>1, <2>2
  <2> QED
    BY <1>16, <2>3, HeadsSame
<1>18. ASSUME NEW k \in 1..n, k < i PROVE Synced(d, k, e, k, 0)
  <2>8. SameHeads(m[a].heads, v[a].heads)
    <3> HIDE DEF f
    <3>1. a \in 0..w /\ a <= y
      BY <1>12
    <3> QED
      BY <1>1, <1>2, <1>3, <1>9, <3>1, SameHeadsBefore
  <2>1. PICK q \in Nat :
           /\ OfLength(m[a].heads, q) /\ OfLength(v[a].heads, q)
           /\ \A r \in 1..q : v[a].heads[r] = HeadMoved(m[a].heads[r], 0)
    BY <2>8 DEF SameHeads
  <2>9. q = i - 1
    BY <1>9, <2>1 DEF OfLength
  <2>2. k \in 1..q
    BY <1>18, <2>9
  <2>3. Begun(m[a].heads, m[w].heads)
    BY <1>1, <1>12, HeadsGrow
  <2>4. Begun(v[a].heads, v[y].heads)
    BY <1>2, <1>12, HeadsGrow
  <2>5. m[w].heads[k] = m[a].heads[k]
    BY <2>1, <2>2, <2>3 DEF Begun, OfLength
  <2>6. v[y].heads[k] = v[a].heads[k]
    BY <2>1, <2>2, <2>4 DEF Begun, OfLength
  <2>7. v[y].heads[k] = HeadMoved(m[w].heads[k], 0)
    BY <2>1, <2>2, <2>5, <2>6
  <2> QED
    BY <1>16, <2>7, HeadsSame
<1>19. v[y].heads[i] = h
  <2>1. Begun(v[f].heads, v[y].heads)
    BY <1>2, <1>12, HeadsGrow
  <2>2. i \in 1..i
    BY <1>5
  <2> HIDE DEF f
  <2>3. v[y].heads[i] = v[f].heads[i]
    BY <1>11, <2>1, <2>2 DEF Begun, OfLength
  <2> QED
    BY <1>11, <2>3
<1>20. e.sections[i].heading.start = h.start /\ e.sections[i].heading.end = h.end
  BY <1>16, <1>19, SectionIs
<1> QED
  BY <1>2, <1>15, <1>17, <1>18, <1>20, <1>22 DEF Restored

-----------------------------------------------------------------------------
(***************************************************************************)
(* A heading that is renamed.                                              *)
(***************************************************************************)
LEMMA CandidateRun ==
    ASSUME NEW c, NEW e, e = Candidate(c), IsDocument(e)
    PROVE  \E v : \E y, g \in Nat : HasRun(e, v, y, g)
<1> DEFINE s == Splice(doc.source, c.patches)
<1>1. e = Doc(s)
  BY DEF Candidate
<1>2. e.source = s
  BY <1>1 DEF Doc
<1>3. IsText(s)
  BY <1>2 DEF IsDocument
<1> HIDE DEF s
<1> QED
  BY <1>1, <1>3, DocRun

LEMMA DocumentRun ==
    ASSUME WellHeld, NEW n \in Nat, Counted(doc, n), NEW w \in Nat, Long(doc, w)
    PROVE  \E m : HasRun(doc, m, w, n)
<1>1. IsText(doc.source) /\ doc = Doc(doc.source)
  BY DEF WellHeld
<1>2. PICK m : \E z, g \in Nat : HasRun(doc, m, z, g)
  BY <1>1, DocRun
<1>3. PICK z \in Nat, g \in Nat : HasRun(doc, m, z, g)
  BY <1>2
<1>4. z = w /\ g = n
  BY <1>3 DEF HasRun, OfLength, Counted, Long
<1> QED
  BY <1>3, <1>4

\* The kind of heading i of e, which RenameHolds compares.
RenamedTo(e, k, a, kind) ==
    e.sections[k].heading.start = a /\ e.sections[k].kind = kind

LEMMA RenamedRun ==
    ASSUME NEW d, NEW m, NEW w \in Nat, NEW n \in Nat, HasRun(d, m, w, n),
           NEW e, NEW v, NEW y \in Nat, NEW g \in Nat, HasRun(e, v, y, g),
           NEW i \in 1..n, NEW a, NEW b, IsHeading(d, i, w, a, b),
           NEW f, NEW h, IsContent(d, i, a, b, f, h),
           NEW t, NEW z \in Nat, z # 0, NEW x \in Int, x = z - (h - f), y = w + x,
           Swapped(e.source, d.source, f, h, t, z, w, x), OneLine(t, z),
           NEW k \in 1..g, RenamedTo(e, k, a, d.sections[i].kind)
    PROVE  IsNow(e.source, v, y, i, a, b + x)
<1> DEFINE s == d.source
           u == e.source
           kind == d.sections[i].kind
           o == m[w].heads[i]
           r == v[y].heads[k]
<1>1. /\ IsText(s) /\ IsRun(s, m) /\ OfLength(s, w) /\ OfLength(m[w].heads, n)
  BY DEF HasRun
<1>2. /\ IsText(u) /\ IsRun(u, v) /\ OfLength(u, y) /\ OfLength(v[y].heads, g)
  BY DEF HasRun
<1>3. /\ a \in Nat /\ b \in Nat /\ a < b /\ b <= w /\ StopsAt(s, b, w)
      /\ kind \in {"atx", "setext"} /\ (kind = "setext" => a + 3 <= b)
      /\ d.sections[i].heading = [start |-> a, end |-> b]
  BY DEF IsHeading, HeadingKinds, StopsAt
<1>4. IF kind = "atx" THEN f = a + 1 /\ h = b ELSE f = a /\ h = b - 2
  BY DEF IsContent
<1>5. Swapped(u, s, f, h, t, z, w, x)
  OBVIOUS
<1>6. o.start = a /\ o.end = b /\ o.kind = kind
  <2>1. d.sections[i].heading.start = a /\ d.sections[i].heading.end = b
    BY <1>3
  <2>2. IsHead(d, i, o)
    BY DEF HasRun
  <2> HIDE DEF o
  <2> QED
    BY <2>1, <2>2 DEF IsHead
<1>7. r.start = a /\ r.kind = kind
  <2>1. IsHead(e, k, r)
    BY DEF HasRun
  <2> HIDE DEF r
  <2> QED
    BY <2>1 DEF IsHead, RenamedTo
<1>8. k = i
  <2>1. BeginsAt(d, i, a) /\ BeginsAt(e, k, a)
    BY <1>3 DEF BeginsAt, RenamedTo
  <2>2. a \in 0..w /\ a <= y
    BY <1>3, <1>4
  <2>3. \A q \in 1..a : e.source[q] = d.source[q]
    <3> TAKE q \in 1..a
    <3>1. q \in 1..f
      BY <1>3, <1>4
    <3> QED
      BY <3>1 DEF Swapped
  <2> QED
    BY <2>1, <2>2, <2>3, SameIndex
<1>9. i \in Nat /\ i # 0 /\ w \in 0..w /\ y \in 0..y
  OBVIOUS
<1>10. PICK l \in 0..(w - 1) : MadeAt(s, m, i, o, l)
  BY <1>1, <1>9, HeadMade
<1>11. PICK j \in 0..(y - 1) : MadeAt(u, v, i, r, j)
  BY <1>2, <1>8, <1>9, HeadMade
<1> HIDE DEF s, u, o, r
<1>12. CASE kind = "atx"
  <2>1. f = a + 1 /\ h = b
    BY <1>4, <1>12
  <2>2. Swapped(u, s, f, b, t, z, w, x) /\ x = z - (b - f) /\ f = a + 1
    BY <1>5, <2>1
  <2>3. HeadFrom(r, a, "atx") /\ r.start = a
    BY <1>7, <1>12 DEF HeadFrom
  <2> HIDE DEF kind
  <2>4. r.end = b + x
    BY <1>2, <1>3, <1>9, <1>11, <2>2, <2>3, AtxEnds
  <2> QED
    BY <1>7, <1>11, <2>4 DEF IsNow, NowAt, u
<1>13. CASE kind = "setext"
  <2>1. f = a /\ h = b - 2 /\ a + 3 <= b
    BY <1>3, <1>4, <1>13
  <2>2. Swapped(u, s, a, h, t, z, w, x) /\ x = z - (h - a) /\ h = b - 2
    BY <1>5, <2>1
  <2>3. HeadFrom(r, a, "setext") /\ HeadTo(o, b, "setext")
    BY <1>6, <1>7, <1>13 DEF HeadFrom, HeadTo
  <2> HIDE DEF kind
  <2>4. IsNow(u, v, y, i, a, b + x)
    BY <1>1, <1>2, <1>3, <1>9, <1>10, <1>11, <2>1, <2>2, <2>3, SetextNow
  <2> QED
    BY <2>4 DEF u
<1> QED
  BY <1>3, <1>12, <1>13

LEMMA RenameRewrites ==
    ASSUME WellHeld, NEW n \in Nat, Counted(doc, n), NEW w \in Nat, Long(doc, w), NEW i \in 1..n,
           NEW a, NEW b, IsHeading(doc, i, w, a, b),
           NEW f \in Nat, NEW h \in Nat, IsContent(doc, i, a, b, f, h), f <= h,
           NEW t, IsText(t), NEW z \in Nat, z # 0, OfLength(t, z), OneLine(t, z),
           NEW p, p = Patch(f, h, t), NEW e, e = Candidate(Rewriting(sections[i], p)),
           RenameHolds(e, sections[i]), NEW x, x = z - (h - f)
    PROVE  IsDocument(e) /\ Rewritten(doc, e, i, n, w, x, a, b)
<1> DEFINE kind == doc.sections[i].kind
<1>1. /\ a \in Nat /\ b \in Nat /\ a < b /\ b <= w /\ kind \in {"atx", "setext"}
      /\ doc.sections[i].heading = [start |-> a, end |-> b]
      /\ kind = "setext" => a + 3 <= b
  BY DEF IsHeading, HeadingKinds
<1>2. a <= f /\ f <= h /\ h <= b
  <2>1. IF kind = "atx" THEN f = a + 1 /\ h = b ELSE f = a /\ h = b - 2
    BY DEF IsContent
  <2> HIDE DEF kind
  <2> QED
    BY <1>1, <2>1
<1> HIDE DEF kind
<1>3. IsDocument(e) /\ IsCut(e.source, doc.source, f, h, t)
  <2>1. h <= Len(doc.source)
    BY <1>1, <1>2 DEF Long
  <2> QED
    BY <2>1, RewritingIs
<1>4. PICK m : HasRun(doc, m, w, n)
  BY DocumentRun
<1>5. PICK v : \E y, g \in Nat : HasRun(e, v, y, g)
  <2>1. \E v : \E y, g \in Nat : HasRun(e, v, y, g)
    <3> DEFINE c == Rewriting(sections[i], p)
    <3>1. e = Candidate(c)
      OBVIOUS
    <3> HIDE DEF c
    <3> QED
      BY <1>3, <3>1, CandidateRun
  <2> QED
    BY <2>1
<1>6. PICK y \in Nat, g \in Nat : HasRun(e, v, y, g)
  BY <1>5
<1>7. IsText(doc.source) /\ OfLength(doc.source, w) /\ OfLength(e.source, y) /\ Counted(e, g)
      /\ IsText(e.source) /\ IsRun(e.source, v)
  BY <1>4, <1>6 DEF HasRun
<1>8. Swapped(e.source, doc.source, f, h, t, z, w, x)
  BY <1>3, <1>7, SwappedIs
<1>9. y = w + x
  BY <1>7, <1>8 DEF Swapped, OfLength
<1>10. x \in Int /\ x = z - (h - f)
  OBVIOUS
<1>11. \E k \in 1..g : RenamedTo(e, k, a, doc.sections[i].kind)
  <2>1. PICK k \in DOMAIN e.sections : /\ e.sections[k].kind = sections[i].kind
                                       /\ e.sections[k].heading.start = sections[i].heading.start
    BY DEF RenameHolds
  <2>2. DOMAIN e.sections = 1..g
    BY <1>3, <1>7 DEF IsDocument, Counted
  <2>3. sections[i].heading.start = a /\ sections[i].kind = doc.sections[i].kind
    BY <1>1 DEF sections
  <2> QED
    BY <2>1, <2>2, <2>3 DEF RenamedTo
<1>12. PICK k \in 1..g : RenamedTo(e, k, a, doc.sections[i].kind)
  BY <1>11
<1>13. IsNow(e.source, v, y, i, a, b + x)
  BY <1>4, <1>6, <1>8, <1>9, <1>10, <1>12, RenamedRun
<1>16. a = doc.sections[i].heading.start /\ b = doc.sections[i].heading.end
  BY <1>1
<1>17. AgreeTo(doc, e, a)
  <2>1. ASSUME NEW q \in 1..a PROVE e.source[q] = doc.source[q]
    <3>1. q \in 1..f
      BY <1>1, <1>2
    <3> QED
      BY <1>8, <3>1 DEF Swapped
  <2> QED
    BY <2>1 DEF AgreeTo
<1>18. SameText(doc.source, e.source, b, w, x)
  <2>1. ASSUME NEW q \in (b + 1)..w PROVE e.source[q + x] = doc.source[q]
    <3>1. q \in (h + 1)..w
      BY <1>1, <1>2
    <3> QED
      BY <1>8, <3>1 DEF Swapped
  <2> QED
    BY <2>1 DEF SameText
<1>19. a <= y
  BY <1>1, <1>2, <1>9
<1>22. Restored(doc, e, n, i, a, b, x)
  BY <1>4, <1>6, <1>9, <1>10, <1>13, <1>17, <1>18, <1>19, HeadReplaced
<1>20. /\ Counted(e, n)
       /\ \A q \in 1..n : q < i => Synced(doc, q, e, q, 0)
       /\ \A q \in 1..n : q > i => Synced(doc, q, e, q, x)
       /\ e.sections[i].heading.start = a /\ e.sections[i].heading.end = b + x
  BY <1>22 DEF Restored
<1>21. IsDocument(doc)
  BY DocumentIs
<1> QED
  BY <1>2, <1>3, <1>10, <1>16, <1>20, <1>21, CutRewrites

-----------------------------------------------------------------------------
\* t is a title that a heading can have.
IsTitle(t) == \E z \in Nat : z # 0 /\ OfLength(t, z) /\ IsText(t) /\ OneLine(t, z)

\* The content of heading i, [a, b), is some [f, h).
HasContent(d, i, a, b) ==
    \E f, h \in Nat : /\ ContentRange(d.sections[i]) = [start |-> f, end |-> h]
                      /\ IsContent(d, i, a, b, f, h) /\ f <= h

LEMMA TitleOneLine ==
    ASSUME NEW t \in Titles, t # << >>, "nl" \notin ToSet(t)
    PROVE  IsTitle(t)
<1>1. t \in Seq(ToSet(t))
  BY TitleAssumption
<1> DEFINE V == ToSet(t)
<1> HIDE DEF V
<1>2. t \in Seq(V)
  BY <1>1 DEF V
<1>3. Len(t) \in Nat /\ Len(t) # 0 /\ \A q \in 1..Len(t) : t[q] \in V
  BY <1>2
<1>4. "nl" \notin V
  BY DEF V
<1>5. \A q \in 1..Len(t) : t[q] # "nl"
  BY <1>3, <1>4
<1>6. PICK z \in Nat : z = Len(t)
  BY <1>3
<1> QED
  BY <1>2, <1>3, <1>5, <1>6 DEF IsTitle, OfLength, IsText, OneLine

\* The content of a heading lies in it.
LEMMA ContentFound ==
    ASSUME NEW d, NEW i, NEW w \in Nat, NEW a, NEW b, IsHeading(d, i, w, a, b)
    PROVE  HasContent(d, i, a, b)
<1>1. /\ a \in Nat /\ b \in Nat /\ a < b /\ d.sections[i].kind \in {"atx", "setext"}
      /\ d.sections[i].kind = "setext" => a + 3 <= b
  BY DEF IsHeading, HeadingKinds
<1>2. CASE d.sections[i].kind = "atx"
  <2>1. ContentRange(d.sections[i]) = [start |-> a + 1, end |-> b]
    BY <1>2 DEF IsHeading
  <2>2. IsContent(d, i, a, b, a + 1, b)
    BY <1>2 DEF IsContent
  <2>3. a + 1 \in Nat /\ a + 1 <= b
    BY <1>1
  <2> QED
    BY <1>1, <2>1, <2>2, <2>3 DEF HasContent
<1>3. CASE d.sections[i].kind = "setext"
  <2>1. ContentRange(d.sections[i]) = [start |-> a, end |-> b - 2]
    BY <1>3 DEF IsHeading
  <2>2. IsContent(d, i, a, b, a, b - 2)
    BY <1>3 DEF IsContent
  <2>3. b - 2 \in Nat /\ a <= b - 2
    BY <1>1, <1>3
  <2> QED
    BY <1>1, <2>1, <2>2, <2>3 DEF HasContent
<1> QED
  BY <1>1, <1>2, <1>3

\* A heading that is renamed leaves the other headings, and all bodies, as they were.
LEMMA RenameLocal ==
    ASSUME WellHeld, NEW i \in Targets, NEW title \in Titles, PrepareRenameHeading(i, title)
    PROVE  \E c : LocalTo(doc, Candidate(c), i) /\ Hold([kind |-> "rename", at |-> i], c)
<1> DEFINE operation == [kind |-> "rename", at |-> i]
           section == sections[i]
           content == ContentRange(section)
           p == Patch(content.start, content.end, title)
           c == Rewriting(section, p)
<1>1. IsDocument(doc) /\ IsText(doc.source)
  BY DocumentIs
<1>2. PICK n \in Nat : Counted(doc, n)
  BY DocumentIs DEF Counted
<1>3. PICK w \in Nat : Long(doc, w)
  BY DocumentIs DEF Long
<1>4. i \in 1..n
  BY <1>2, DocumentIs DEF Counted
<1> DEFINE a == doc.sections[i].heading.start
           b == doc.sections[i].heading.end
<1>5. IsHeading(doc, i, w, a, b)
  BY <1>1, <1>2, <1>3, <1>4, HeadingIs
<1> HIDE DEF a, b
<1>6. /\ title # << >> /\ "nl" \notin ToSet(title)
      /\ \/ Hold(operation, Change(<< >>))
         \/ RenameHolds(Candidate(c), section) /\ Hold(operation, c)
  BY DEF PrepareRenameHeading
<1>13. IsTitle(title) /\ HasContent(doc, i, a, b)
  BY <1>5, <1>6, TitleOneLine, ContentFound
<1>7. PICK z \in Nat : z # 0 /\ OfLength(title, z) /\ IsText(title) /\ OneLine(title, z)
  BY <1>13 DEF IsTitle
<1>9. PICK f \in Nat, h \in Nat : /\ ContentRange(doc.sections[i]) = [start |-> f, end |-> h]
                                  /\ IsContent(doc, i, a, b, f, h) /\ f <= h
  BY <1>13 DEF HasContent
<1>10. p = Patch(f, h, title)
  <2>1. content.start = f /\ content.end = h
    BY <1>9 DEF sections
  <2> HIDE DEF content
  <2> QED
    BY <2>1
<1> HIDE DEF operation, content, p
<1>11. CASE Hold(operation, Change(<< >>))
  <2>1. LocalTo(doc, Candidate(Change(<< >>)), i)
    BY UnchangedIs DEF LocalTo
  <2> QED
    BY <1>11, <2>1 DEF operation
<1>12. CASE RenameHolds(Candidate(c), section) /\ Hold(operation, c)
  <2> DEFINE e == Candidate(c)
             x == z - (h - f)
  <2>1. e = Candidate(Rewriting(sections[i], p)) /\ RenameHolds(e, sections[i])
    BY <1>12
  <2> HIDE DEF e
  <2>2. x \in Int /\ x = z - (h - f)
    OBVIOUS
  <2> HIDE DEF x
  <2>3. IsDocument(e) /\ Rewritten(doc, e, i, n, w, x, a, b)
    BY SMTT(40), <1>2, <1>3, <1>4, <1>5, <1>7, <1>9, <1>10, <2>1, <2>2, RenameRewrites
  <2>4. LocalTo(doc, e, i)
    BY <1>1, <2>2, <2>3, RewrittenElsewhere DEF LocalTo
  <2> QED
    BY <1>12, <2>4 DEF e, operation
<1> QED
  BY <1>6, <1>11, <1>12

-----------------------------------------------------------------------------
(***************************************************************************)
(* Every change held was prepared by at least one operation; one that a    *)
(* single edit of a heading prepared changes that heading only.            *)
(***************************************************************************)
HeadingEdits == {"rename", "level"}

LocalEntry(d, p) ==
    /\ IsText(p.operations) /\ Len(p.operations) \in Nat \ {0}
    /\ (Len(p.operations) = 1 /\ p.operations[1].kind \in HeadingEdits) =>
          LocalTo(d, Doc(Splice(d.source, p.change.patches)), p.operations[1].at)

LocalHeld == \A k \in DOMAIN pool : LocalEntry(doc, pool[k])

\* A change that one operation prepared.
LEMMA OneOperation ==
    ASSUME NEW operation, NEW c,
           operation.kind \in HeadingEdits => LocalTo(doc, Candidate(c), operation.at)
    PROVE  LocalEntry(doc, [operations |-> <<operation>>, change |-> c])
<1> DEFINE o == <<operation>>
           p == [operations |-> o, change |-> c]
<1>1. o \in Seq({operation}) /\ Len(o) = 1 /\ o[1] = operation
  OBVIOUS
<1>2. p.operations = o /\ p.change = c
  OBVIOUS
<1> HIDE DEF o, p
<1>3. LocalEntry(doc, p)
  BY <1>1, <1>2 DEF LocalEntry, IsText, Candidate
<1> QED
  BY <1>3 DEF p, o

LEMMA HoldLocal ==
    ASSUME WellHeld, LocalHeld, NEW operation, NEW c, Hold(operation, c),
           operation.kind \in HeadingEdits => LocalTo(doc, Candidate(c), operation.at)
    PROVE  LocalHeld'
<1> DEFINE x == [operations |-> <<operation>>, change |-> c]
<1>1. pool' = Append(pool, x) /\ doc' = doc
  BY DEF Hold
<1>2. LocalEntry(doc, x)
  BY OneOperation
<1> HIDE DEF x
<1>3. PICK S : pool \in Seq(S)
  BY DEF WellHeld
<1> DEFINE T == S \cup {x}
<1>4. pool \in Seq(T) /\ x \in T
  BY <1>3
<1> HIDE DEF T
<1>5. ASSUME NEW k \in DOMAIN pool' PROVE LocalEntry(doc, pool'[k])
  <2>1. \/ k \in DOMAIN pool /\ pool'[k] = pool[k]
        \/ pool'[k] = x
    BY <1>1, <1>4, <1>5
  <2> QED
    BY <1>2, <2>1 DEF LocalHeld
<1> QED
  BY <1>1, <1>5 DEF LocalHeld

\* Only one change is held, which more than one operation prepared.
LEMMA OneLocal ==
    ASSUME NEW x, pool' = <<x>>, doc' = doc, IsText(x.operations), Len(x.operations) \in Nat,
           Len(x.operations) # 0, Len(x.operations) # 1
    PROVE  LocalHeld'
<1>1. LocalEntry(doc, x)
  BY Zenon DEF LocalEntry
<1>2. DOMAIN pool' = {1} /\ pool'[1] = x
  OBVIOUS
<1> QED
  BY <1>1, <1>2 DEF LocalHeld

LEMMA ComposeLocal ==
    ASSUME WellHeld, LocalHeld, Compose
    PROVE  LocalHeld'
<1> DEFINE o == pool[1].operations
           p == pool[2].operations
           x == [operations |-> o \o p, change |-> Combined(pool[1].change, pool[2].change)]
<1>1. Len(pool) = 2 /\ pool' = <<x>> /\ doc' = doc
  BY DEF Compose
<1>2. 1 \in DOMAIN pool /\ 2 \in DOMAIN pool
  <2>1. PICK S : pool \in Seq(S)
    BY DEF WellHeld
  <2> QED
    BY <1>1, <2>1
<1>3. IsText(o) /\ IsText(p) /\ Len(o) \in Nat \ {0} /\ Len(p) \in Nat \ {0}
  BY <1>2 DEF LocalHeld, LocalEntry
<1>4. x.operations = o \o p
  OBVIOUS
<1> HIDE DEF o, p, x
<1>5. PICK V : o \in Seq(V) /\ p \in Seq(V)
  BY <1>3, TextsTogether
<1>6. o \o p \in Seq(V) /\ Len(o \o p) = Len(o) + Len(p)
  BY <1>5
<1>7. Len(o \o p) \in Nat /\ Len(o \o p) # 0 /\ Len(o \o p) # 1
  BY <1>3, <1>6
<1>8. IsText(o \o p)
  BY <1>6 DEF IsText
<1> QED
  BY <1>1, <1>4, <1>7, <1>8, OneLocal

\* The operations of all changes held, one behind the other.
LEMMA PreparedIs ==
    ASSUME WellHeld, LocalHeld, Len(pool) # 0
    PROVE  IsText(Prepared) /\ Len(Prepared) \in Nat \ {0}
<1> DEFINE f == [k \in DOMAIN pool |-> pool[k].operations]
           A(k) == CHOOSE T : f[k] \in Seq(T)
           V == UNION {A(k) : k \in DOMAIN pool}
           n == Len(pool)
<1>1. n \in Nat /\ n # 0 /\ DOMAIN pool = 1..n
  <2>1. PICK S : pool \in Seq(S)
    BY DEF WellHeld
  <2> QED
    BY <2>1
<1>2. ASSUME NEW k \in DOMAIN pool PROVE f[k] \in Seq(V) /\ Len(f[k]) \in Nat \ {0}
  <2>1. IsText(f[k]) /\ Len(f[k]) \in Nat \ {0}
    BY DEF LocalHeld, LocalEntry
  <2> HIDE DEF f
  <2>2. \E T : f[k] \in Seq(T)
    BY <2>1 DEF IsText
  <2>3. f[k] \in Seq(A(k))
    BY <2>2
  <2>4. A(k) \subseteq V
    OBVIOUS
  <2> HIDE DEF A, V
  <2>5. f[k] \in Seq(V)
    BY <2>3, <2>4
  <2> QED
    BY <2>1, <2>5
<1>3. DOMAIN f = 1..n /\ f = [k \in 1..n |-> f[k]]
  BY <1>1
<1>4. Prepared = FlattenSeq(f)
  BY DEF Prepared
<1> HIDE DEF f, V, n
<1> DEFINE W == Seq(V)
<1>5. \A k \in 1..n : f[k] \in W /\ Len(f[k]) \in Nat \ {0}
  BY <1>1, <1>2
<1> HIDE DEF W
<1> DEFINE m == n - 1
           s == [k \in 1..m |-> f[k]]
           l == f[n]
<1>6. m \in Nat /\ n \in 1..n /\ m + 1 = n /\ \A k \in 1..m : k \in 1..n
  BY <1>1
<1>7. s \in Seq(W) /\ l \in W /\ Len(l) \in Nat \ {0}
  <2>1. \A k \in 1..m : f[k] \in W
    BY <1>5, <1>6
  <2> QED
    BY <1>5, <1>6, <2>1
<1>8. f = Append(s, l)
  BY <1>3, <1>6
<1> HIDE DEF s, l
<1>9. FlattenSeq(s) \in Seq(V) /\ l \in Seq(V) /\ FlattenSeq(Append(s, l)) = FlattenSeq(s) \o l
  BY <1>7, FlattenType, FlattenAppend DEF W
<1> DEFINE r == FlattenSeq(s)
<1>10. r \in Seq(V) /\ Prepared = r \o l
  BY <1>4, <1>8, <1>9
<1> HIDE DEF r
<1>11. Prepared \in Seq(V) /\ Len(Prepared) = Len(r) + Len(l) /\ Len(r) \in Nat
  BY <1>9, <1>10
<1> QED
  BY <1>7, <1>11 DEF IsText

LEMMA ComposeSyncLocal ==
    ASSUME WellHeld, LocalHeld, NEW i \in Targets, ComposeAndSyncTOC(i)
    PROVE  LocalHeld'
<1>1. /\ Len(pool) \in {1, 2} /\ doc' = doc
      /\ \E c : pool' = <<[operations |-> Append(Prepared, [kind |-> "final", at |-> i]), change |-> c]>>
  BY DEF ComposeAndSyncTOC
<1>2. PICK c : pool' = <<[operations |-> Append(Prepared, [kind |-> "final", at |-> i]), change |-> c]>>
  BY <1>1
<1> DEFINE y == [kind |-> "final", at |-> i]
           o == Append(Prepared, y)
           x == [operations |-> o, change |-> c]
<1>3. pool' = <<x>> /\ x.operations = o
  BY <1>2
<1>4. IsText(Prepared) /\ Len(Prepared) \in Nat \ {0}
  BY <1>1, PreparedIs
<1>5. PICK S : Prepared \in Seq(S)
  BY <1>4 DEF IsText
<1> DEFINE V == S \cup {y}
<1>6. Prepared \in Seq(V) /\ y \in V
  BY <1>5
<1> HIDE DEF V, y, x
<1>7. o \in Seq(V) /\ Len(o) = Len(Prepared) + 1
  BY <1>6
<1> HIDE DEF o
<1>8. IsText(o) /\ Len(o) \in Nat /\ Len(o) # 0 /\ Len(o) # 1
  BY <1>4, <1>7 DEF IsText
<1> QED
  BY <1>1, <1>3, <1>8, OneLocal

-----------------------------------------------------------------------------
\* The other operations edit no heading.
OtherHeld == \E o, c : o.kind \notin HeadingEdits /\ Hold(o, c)

LEMMA OtherIs ==
    ASSUME NEW o, NEW c, o.kind \notin HeadingEdits, Hold(o, c)
    PROVE  OtherHeld
BY DEF OtherHeld

LEMMA OtherLocal ==
    ASSUME WellHeld, LocalHeld, OtherHeld
    PROVE  LocalHeld'
<1>1. PICK o, c : o.kind \notin HeadingEdits /\ Hold(o, c)
  BY DEF OtherHeld
<1> QED
  BY <1>1, HoldLocal

LEMMA SectionEditsOther ==
    /\ \A i \in Targets : PrepareRemoveSection(i) => OtherHeld
    /\ \A i \in Targets, f \in Fragments, after \in BOOLEAN :
          PrepareInsertSection(i, f, after) => OtherHeld
    /\ \A i, anchor \in Targets, after \in BOOLEAN :
          PrepareMoveSection(i, anchor, after) => OtherHeld
    /\ \A i \in Targets, body \in NewBodies : PrepareReplaceSectionBody(i, body) => OtherHeld
    /\ \A i \in Targets : PrepareSyncTOC(i) => OtherHeld
    /\ \A tables \in SUBSET Targets : PrepareSyncTOCs(tables) => OtherHeld
<1>1. ASSUME NEW i \in Targets, PrepareRemoveSection(i) PROVE OtherHeld
  <2> DEFINE o == [kind |-> "remove", at |-> i]
  <2>1. \E c : Hold(o, c)
    BY <1>1 DEF PrepareRemoveSection
  <2>2. o.kind \notin HeadingEdits
    BY DEF HeadingEdits
  <2> HIDE DEF o
  <2> QED
    BY <2>1, <2>2, OtherIs
<1>2. ASSUME NEW i \in Targets, NEW f \in Fragments, NEW after \in BOOLEAN,
             PrepareInsertSection(i, f, after)
      PROVE  OtherHeld
  <2> DEFINE o == [kind |-> "insert", at |-> i]
  <2>1. \E c : Hold(o, c)
    BY <1>2 DEF PrepareInsertSection
  <2>2. o.kind \notin HeadingEdits
    BY DEF HeadingEdits
  <2> HIDE DEF o
  <2> QED
    BY <2>1, <2>2, OtherIs
<1>3. ASSUME NEW i \in Targets, NEW anchor \in Targets, NEW after \in BOOLEAN,
             PrepareMoveSection(i, anchor, after)
      PROVE  OtherHeld
  <2> DEFINE o == [kind |-> "move", at |-> i]
  <2>1. \E c : Hold(o, c)
    BY <1>3 DEF PrepareMoveSection
  <2>2. o.kind \notin HeadingEdits
    BY DEF HeadingEdits
  <2> HIDE DEF o
  <2> QED
    BY <2>1, <2>2, OtherIs
<1>4. ASSUME NEW i \in Targets, NEW body \in NewBodies, PrepareReplaceSectionBody(i, body)
      PROVE  OtherHeld
  <2> DEFINE o == [kind |-> "body", at |-> i]
  <2>1. \E c : Hold(o, c)
    BY <1>4 DEF PrepareReplaceSectionBody
  <2>2. o.kind \notin HeadingEdits
    BY DEF HeadingEdits
  <2> HIDE DEF o
  <2> QED
    BY <2>1, <2>2, OtherIs
<1>5. ASSUME NEW i \in Targets, PrepareSyncTOC(i) PROVE OtherHeld
  <2> DEFINE o == [kind |-> "sync", at |-> i]
  <2>1. \E c : Hold(o, c)
    BY <1>5 DEF PrepareSyncTOC
  <2>2. o.kind \notin HeadingEdits
    BY DEF HeadingEdits
  <2> HIDE DEF o
  <2> QED
    BY <2>1, <2>2, OtherIs
<1>6. ASSUME NEW tables \in SUBSET Targets, PrepareSyncTOCs(tables) PROVE OtherHeld
  <2> DEFINE o == [kind |-> "syncs", tables |-> tables]
  <2>1. \E c : Hold(o, c)
    BY <1>6 DEF PrepareSyncTOCs
  <2>2. o.kind \notin HeadingEdits
    BY DEF HeadingEdits
  <2> HIDE DEF o
  <2> QED
    BY <2>1, <2>2, OtherIs
<1> QED
  BY <1>1, <1>2, <1>3, <1>4, <1>5, <1>6

LEMMA RenameHeldLocal ==
    ASSUME WellHeld, LocalHeld, NEW i \in Targets, NEW title \in Titles,
           PrepareRenameHeading(i, title)
    PROVE  LocalHeld'
<1> DEFINE o == [kind |-> "rename", at |-> i]
<1>1. PICK c : LocalTo(doc, Candidate(c), i) /\ Hold(o, c)
  BY RenameLocal
<1>2. o.at = i
  OBVIOUS
<1> HIDE DEF o
<1> QED
  BY <1>1, <1>2, HoldLocal

LEMMA LevelHeldLocal ==
    ASSUME WellHeld, LocalHeld, NEW i \in Targets, NEW level \in Int,
           PrepareSetHeadingLevel(i, level)
    PROVE  LocalHeld'
<1> DEFINE o == [kind |-> "level", at |-> i, level |-> level]
<1>1. PICK c : LocalTo(doc, Candidate(c), i) /\ Hold(o, c)
  BY LevelLocal
<1>2. o.at = i
  OBVIOUS
<1> HIDE DEF o
<1> QED
  BY <1>1, <1>2, HoldLocal

LEMMA ApplyLocal ==
    ASSUME NEW i, Apply(i)
    PROVE  LocalHeld'
BY DEF Apply, LocalHeld

LEMMA LocalStep ==
    ASSUME WellHeld, LocalHeld, [EditNext]_vars
    PROVE  LocalHeld'
<1>1. ASSUME NEW i \in Targets, NEW title \in Titles, PrepareRenameHeading(i, title)
      PROVE  LocalHeld'
  BY <1>1, RenameHeldLocal
<1>2. ASSUME NEW i \in Targets, NEW level \in 1..3, PrepareSetHeadingLevel(i, level)
      PROVE  LocalHeld'
  BY <1>2, LevelHeldLocal
<1>3. ASSUME NEW i \in Targets, ComposeAndSyncTOC(i) PROVE LocalHeld'
  BY <1>3, ComposeSyncLocal
<1>4. ASSUME OtherHeld PROVE LocalHeld'
  BY <1>4, OtherLocal
<1>5. ASSUME Compose PROVE LocalHeld'
  BY <1>5, ComposeLocal
<1>6. ASSUME NEW i \in 1..MaxPool, Apply(i) PROVE LocalHeld'
  BY <1>6, ApplyLocal
<1>7. ASSUME UNCHANGED vars PROVE LocalHeld'
  BY <1>7 DEF vars, LocalHeld
<1>8. CASE Edit
  BY <1>1, <1>2, <1>3, <1>4, <1>8, SectionEditsOther DEF Edit
<1> QED
  BY <1>5, <1>6, <1>7, <1>8 DEF EditNext

(***************************************************************************)
(* In every state of every sequence of edits, a change that renames one    *)
(* heading or sets its level alone leaves the preamble, the other headings *)
(* with their levels, and all bodies byte for byte as they were.           *)
(***************************************************************************)
THEOREM HeadingEditsLocalHolds == NavigationSpec => []HeadingEditsLocal
<1>1. Init => LocalHeld
  BY DEF Init, LocalHeld
<1>2. WellHeld /\ LocalHeld /\ [EditNext]_vars => LocalHeld'
  BY LocalStep
<1>3. WellHeld /\ LocalHeld => HeadingEditsLocal
  <2> SUFFICES ASSUME WellHeld, LocalHeld, NEW p \in ToSet(pool),
                      Len(p.operations) = 1, p.operations[1].kind \in {"rename", "level"}
               PROVE  /\ PreambleOf(Candidate(p.change)) = PreambleOf(doc)
                      /\ Others(ForestOf(Candidate(p.change)), p.operations[1].at)
                            = Others(ForestOf(doc), p.operations[1].at)
    BY DEF HeadingEditsLocal
  <2>1. PICK k \in DOMAIN pool : p = pool[k]
    BY DEF ToSet
  <2>2. LocalEntry(doc, p)
    BY <2>1 DEF LocalHeld
  <2>3. LocalTo(doc, Candidate(p.change), p.operations[1].at)
    BY <2>2 DEF LocalEntry, HeadingEdits, Candidate
  <2> QED
    BY <2>3 DEF LocalTo
<1> QED
  BY <1>1, <1>2, <1>3, TextsOfNavigation, PTL DEF NavigationSpec

-----------------------------------------------------------------------------
LEMMA BeginsIs ==
    ASSUME NEW s, IsText(s), NEW u, IsText(u), NEW w \in Nat, OfLength(s, w),
           NEW z \in Nat, OfLength(u, z), w <= z, NEW a \in Nat, a <= w,
           \A j \in 1..w : u[j] = s[j]
    PROVE  O!Begins(SubSeq(s, a + 1, w), SubSeq(u, a + 1, z))
<1> DEFINE x == SubSeq(s, a + 1, w)
           y == SubSeq(u, a + 1, z)
           l == w - a
           o == 0
           p == SubSeq(y, o + 1, l)
<1>1. PICK V : s \in Seq(V) /\ u \in Seq(V)
  BY TextsTogether
<1>2. w <= w /\ a <= z /\ z <= z /\ l \in Nat /\ l <= z - a /\ z - a \in Nat /\ o \in Nat /\ o <= l
      /\ l - o = l /\ \A k \in 1..l : o + k = k
  OBVIOUS
<1>3. IsSlice(V, x, s, a, w) /\ IsSlice(V, y, u, a, z)
  <2>1. IsSlice(V, x, s, a, w)
    BY <1>1, <1>2, SliceIs
  <2>2. IsSlice(V, y, u, a, z)
    BY <1>1, <1>2, SliceIs
  <2> QED
    BY <2>1, <2>2
<1> HIDE DEF x, y
<1>4. y \in Seq(V) /\ OfLength(y, z - a) /\ x \in Seq(V) /\ OfLength(x, l)
  BY <1>3 DEF IsSlice
<1>5. IsSlice(V, p, y, o, l)
  <2> HIDE DEF o, l
  <2> QED
    BY <1>2, <1>4, SliceIs
<1>6. p \in Seq(V) /\ OfLength(p, l)
  <2> HIDE DEF o, l, p
  <2> QED
    BY <1>2, <1>5 DEF IsSlice
<1>7. ASSUME NEW k \in 1..l PROVE p[k] = x[k]
  <2>1. k \in 1..(z - a) /\ k \in 1..(w - a) /\ a + k \in 1..w /\ k \in 1..(l - o) /\ o + k = k
    OBVIOUS
  <2> HIDE DEF p, l, o
  <2>2. p[k] = y[k]
    <3>1. p[k] = y[o + k]
      BY <1>5, <2>1 DEF IsSlice
    <3> QED
      BY <2>1, <3>1
  <2>3. y[k] = u[a + k] /\ x[k] = s[a + k]
    BY <1>3, <2>1 DEF IsSlice
  <2> QED
    BY <2>1, <2>2, <2>3
<1>8. p = x
  <2> HIDE DEF p, l
  <2>1. Len(p) = Len(x) /\ \A k \in 1..Len(p) : p[k] = x[k]
    BY <1>6, <1>4, <1>7 DEF OfLength
  <2> QED
    BY <1>4, <1>6, <2>1, SameSequences
<1>9. Len(x) <= Len(y)
  <2> HIDE DEF l
  <2> QED
    BY <1>2, <1>4 DEF OfLength
<1>10. p = SubSeq(y, 1, Len(x))
  <2>1. Len(x) = l
    BY <1>4 DEF OfLength
  <2> QED
    BY <2>1
<1> HIDE DEF p
<1>11. O!Begins(x, y)
  BY <1>8, <1>9, <1>10 DEF O!Begins
<1> QED
  BY <1>11 DEF x, y

-----------------------------------------------------------------------------
\* Documents that agree up to where the first section of both begins.
LEMMA SamePreamble ==
    ASSUME NEW d, NEW e, IsDocument(d), IsDocument(e), NEW c, c = StartOf(d, 1), c = StartOf(e, 1),
           \A j \in 1..c : e.source[j] = d.source[j]
    PROVE  PreambleOf(e) = PreambleOf(d)
<1> DEFINE o == 0
<1>1. c \in Nat /\ c <= Len(d.source) /\ c <= Len(e.source)
  <2>1. 1 \in 1..(Len(d.sections) + 1) /\ 1 \in 1..(Len(e.sections) + 1)
    BY DEF IsDocument
  <2>2. StartOf(d, 1) \in Nat /\ StartOf(d, 1) <= Len(d.source)
    BY <2>1, StartsIn
  <2>3. StartOf(e, 1) <= Len(e.source)
    BY <2>1, StartsIn
  <2> QED
    BY <2>2, <2>3
<1>2. \A j \in (o + 1)..c : e.source[j + o] = d.source[j]
  <2> TAKE j \in (o + 1)..c
  <2>1. j \in 1..c /\ j + o = j
    BY <1>1
  <2> QED
    BY <2>1
<1>3. IsText(d.source) /\ IsText(e.source) /\ c <= Len(d.source) /\ c + o <= Len(e.source)
      /\ o <= c /\ c \in Nat /\ o \in Nat /\ 0 <= o + o /\ o + o + 1 = 1 /\ o + 1 = 1 /\ c + o = c
      /\ o \in Int
  BY <1>1 DEF IsDocument
<1> HIDE DEF o
<1>4. SubSeq(e.source, o + o + 1, c + o) = SubSeq(d.source, o + 1, c)
  BY <1>2, <1>3, SameBytes
<1>5. SubSeq(e.source, 1, c) = SubSeq(d.source, 1, c)
  BY <1>3, <1>4
<1> QED
  BY <1>5, PreambleIs

\* What appending text does: O!AppendText of the documents' outlines.
Appended(d, e) ==
    LET f == ForestOf(d)
        g == ForestOf(e)
        n == Len(f)
    IN /\ Len(g) = n
       /\ IF n = 0 THEN O!Begins(PreambleOf(d), PreambleOf(e))
          ELSE /\ PreambleOf(e) = PreambleOf(d)
               /\ O!Upto(g, n) = O!Upto(f, n)
               /\ O!SectionGrows(f[n], g[n])

LEMMA UptoSame ==
    ASSUME NEW V, NEW f \in Seq(V), NEW g \in Seq(V), NEW n \in Nat, n # 0,
           OfLength(f, n), OfLength(g, n), \A k \in 1..n : k # n => g[k] = f[k]
    PROVE  O!Upto(g, n) = O!Upto(f, n)
<1> DEFINE x == SubSeq(f, 1, n - 1)
           y == SubSeq(g, 1, n - 1)
           o == 0
           p == n - 1
<1>1. o \in Nat /\ p \in Nat /\ o <= p /\ p <= n /\ o + 1 = 1 /\ p - o = p
      /\ x = SubSeq(f, o + 1, p) /\ y = SubSeq(g, o + 1, p)
  OBVIOUS
<1> HIDE DEF o, p
<1>2. IsSlice(V, x, f, o, p) /\ IsSlice(V, y, g, o, p)
  <2> HIDE DEF x, y
  <2>1. IsSlice(V, x, f, o, p)
    BY <1>1, SliceIs
  <2>2. IsSlice(V, y, g, o, p)
    BY <1>1, SliceIs
  <2> QED
    BY <2>1, <2>2
<1> HIDE DEF x, y
<1>3. x \in Seq(V) /\ y \in Seq(V) /\ OfLength(x, p) /\ OfLength(y, p)
      /\ \A k \in 1..p : y[k] = x[k]
  <2>1. x \in Seq(V) /\ y \in Seq(V) /\ OfLength(x, p) /\ OfLength(y, p)
        /\ \A k \in 1..p : x[k] = f[o + k] /\ y[k] = g[o + k]
    BY <1>1, <1>2 DEF IsSlice
  <2>2. \A k \in 1..p : o + k = k /\ k \in 1..n /\ k # n
    BY <1>1 DEF o, p
  <2> QED
    BY <2>1, <2>2
<1>4. x = y
  <2>1. Len(x) = Len(y) /\ \A k \in 1..Len(x) : x[k] = y[k]
    BY <1>3 DEF OfLength
  <2> QED
    BY <1>3, <2>1, SameSequences
<1> QED
  BY <1>4 DEF x, y, O!Upto

LEMMA GrownLast ==
    ASSUME NEW d, NEW e, IsDocument(d), IsDocument(e), NEW n \in Nat, NEW w \in Nat, NEW z \in Nat,
           Grown(d, e, n, w, z), n # 0
    PROVE  O!SectionGrows(Entry(d, n), Entry(e, n))
<1>1. /\ Counted(d, n) /\ Counted(e, n) /\ Long(d, w) /\ Long(e, z) /\ w <= z
      /\ \A j \in 1..w : e.source[j] = d.source[j]
      /\ Synced(d, n, e, n, 0)
  BY DEF Grown
<1> DEFINE a == StartOf(d, n)
           s == d.source
           u == e.source
           x == SubSeq(s, a + 1, w)
           y == SubSeq(u, a + 1, z)
<1>2. a = StartOf(e, n) /\ a \in Nat /\ a <= w
  <2>1. n \in 1..n
    OBVIOUS
  <2> QED
    BY <2>1, GrownStarts
<1>3. Entry(d, n).heading \o Entry(d, n).body = x
  <2> HIDE DEF x
  <2>1. Entry(d, n).heading \o Entry(d, n).body = SubSeq(d.source, StartOf(d, n) + 1, w)
    BY <1>1, WholeEntry
  <2> QED
    BY <2>1, Zenon DEF x, a, s
<1>4. Entry(e, n).heading \o Entry(e, n).body = y
  <2> HIDE DEF y
  <2>1. Entry(e, n).heading \o Entry(e, n).body = SubSeq(e.source, StartOf(e, n) + 1, z)
    BY <1>1, WholeEntry
  <2>2. StartOf(e, n) = a
    BY <1>2
  <2> HIDE DEF a
  <2>3. SubSeq(e.source, StartOf(e, n) + 1, z) = y
    BY <2>2, Zenon DEF y, u
  <2> QED
    BY <2>1, <2>3, Zenon
<1>5. O!Begins(x, y)
  <2>1. IsText(s) /\ IsText(u) /\ OfLength(s, w) /\ OfLength(u, z)
        /\ \A j \in 1..w : u[j] = s[j]
    BY <1>1 DEF IsDocument, Long, OfLength
  <2>2. a \in Nat /\ a <= w /\ w <= z
    BY <1>1, <1>2
  <2> HIDE DEF s, u, a
  <2> QED
    BY <2>1, <2>2, BeginsIs
<1>6. Entry(d, n).level = Entry(e, n).level
  BY <1>1 DEF Entry, Synced
<1> HIDE DEF x, y
<1> QED
  BY <1>3, <1>4, <1>5, <1>6 DEF O!SectionGrows

-----------------------------------------------------------------------------
LEMMA GrownAppended ==
    ASSUME NEW d, NEW e, IsDocument(d), IsDocument(e), NEW n \in Nat, NEW w \in Nat, NEW z \in Nat,
           Grown(d, e, n, w, z)
    PROVE  Appended(d, e)
<1>1. /\ Counted(d, n) /\ Counted(e, n) /\ Long(d, w) /\ Long(e, z) /\ w <= z
      /\ \A j \in 1..w : e.source[j] = d.source[j]
  BY DEF Grown
<1> DEFINE f == ForestOf(d)
           g == ForestOf(e)
<1>2. OfLength(f, n) /\ OfLength(g, n) /\ (\A k \in 1..n : f[k] = Entry(d, k))
      /\ (\A k \in 1..n : g[k] = Entry(e, k))
  <2>1. OfLength(f, n) /\ \A k \in 1..n : f[k] = Entry(d, k)
    BY <1>1, ForestAt
  <2>2. OfLength(g, n) /\ \A k \in 1..n : g[k] = Entry(e, k)
    BY <1>1, ForestAt
  <2> QED
    BY <2>1, <2>2
<1>3. Len(f) = n /\ Len(g) = n
  BY <1>2 DEF OfLength
<1>4. CASE n = 0
  <2> DEFINE s == d.source
             u == e.source
             o == 0
             x == PreambleOf(d)
             y == PreambleOf(e)
  <2>1. StartOf(d, 1) = w /\ StartOf(e, 1) = z
    BY <1>1, <1>4 DEF StartOf, Counted, Long
  <2>2. x = SubSeq(s, o + 1, w) /\ y = SubSeq(u, o + 1, z)
    BY <2>1, PreambleIs
  <2>3. IsText(s) /\ IsText(u) /\ OfLength(s, w) /\ OfLength(u, z)
        /\ (\A j \in 1..w : u[j] = s[j]) /\ o \in Nat /\ o <= w /\ w <= z
    BY <1>1 DEF IsDocument, Long, OfLength
  <2> HIDE DEF s, u, o, x, y
  <2>4. O!Begins(SubSeq(s, o + 1, w), SubSeq(u, o + 1, z))
    BY <2>3, BeginsIs
  <2>5. O!Begins(PreambleOf(d), PreambleOf(e))
    BY <2>2, <2>4, Zenon DEF x, y
  <2> HIDE DEF f, g
  <2> QED
    BY <1>3, <1>4, <2>5, Zenon DEF Appended, f, g
<1>5. CASE n # 0
  <2>1. PreambleOf(e) = PreambleOf(d)
    <3> DEFINE c == StartOf(d, 1)
    <3>1. 1 \in 1..n
      BY <1>5
    <3>2. c = StartOf(d, 1) /\ c = StartOf(e, 1) /\ c \in Nat /\ c <= w
      BY <3>1, GrownStarts
    <3>3. \A j \in 1..c : e.source[j] = d.source[j]
      BY <1>1, <3>2
    <3> HIDE DEF c
    <3> QED
      BY <3>2, <3>3, SamePreamble
  <2>2. O!Upto(g, n) = O!Upto(f, n)
    <3>1. \A k \in 1..n : k # n => g[k] = f[k]
      BY <1>2, GrownEntry
    <3>2. PICK V : f \in Seq(V) /\ g \in Seq(V)
      <4>1. \E V : /\ ForestOf(d) \in Seq(V) /\ OfLength(ForestOf(d), n) /\ DOMAIN ForestOf(d) = 1..n
                   /\ ForestOf(e) \in Seq(V)
                   /\ ForestOf(d) \in Seq(V) /\ OfLength(ForestOf(d), n)
                   /\ \A k \in 1..n : ForestOf(d)[k].level = d.sections[k].level
        BY <1>1, ForestsTogether
      <4> QED
        BY <4>1
    <3> HIDE DEF f, g
    <3> QED
      BY <1>2, <1>5, <3>1, <3>2, UptoSame
  <2>3. O!SectionGrows(f[n], g[n])
    <3>1. O!SectionGrows(Entry(d, n), Entry(e, n))
      BY <1>5, GrownLast
    <3>2. f[n] = Entry(d, n) /\ g[n] = Entry(e, n)
      <4>1. n \in 1..n
        BY <1>5
      <4> QED
        BY <1>2, <4>1
    <3> QED
      BY <3>1, <3>2, Zenon
  <2> HIDE DEF f, g
  <2> QED
    BY <1>3, <1>5, <2>1, <2>2, <2>3, Zenon DEF Appended, f, g
<1> QED
  BY <1>4, <1>5

\* What is appended is a label and line ends, and begins with one where the text ends no line.
FitsBehind(t, z, s, w, label) ==
    /\ OfLength(t, z) /\ z # 0 /\ IsText(t)
    /\ \A j \in 1..z : t[j] = "nl" \/ t[j] = label
    /\ w = 0 \/ s[w] = "nl" \/ t[1] = "nl"

Appendix(t, s, label) == t = AppendLayout(s) \o <<label, "nl">>

LEMMA AppendLayoutIs ==
    ASSUME NEW s, IsText(s), NEW w \in Nat, OfLength(s, w), NEW label,
           NEW t, Appendix(t, s, label)
    PROVE  \E z \in Nat : FitsBehind(t, z, s, w, label)
<1> DEFINE T == {label, "nl"}
           b == <<label, "nl">>
           l == AppendLayout(s)
<1>1. b \in Seq(T) /\ OfLength(b, 2) /\ (\A k \in 1..2 : b[k] = "nl" \/ b[k] = label)
  <2>1. b \in Seq(T)
    OBVIOUS
  <2>2. OfLength(b, 2)
    BY DEF OfLength
  <2>3. b[1] = label /\ b[2] = "nl"
    OBVIOUS
  <2> HIDE DEF b
  <2>4. \A k \in 1..2 : k = 1 \/ k = 2
    OBVIOUS
  <2> QED
    BY <2>1, <2>2, <2>3, <2>4, Zenon
<1>2. w # 0 => s # << >> /\ Last(s) = s[w]
  BY DEF OfLength, Last
<1>3. w = 0 \/ s[w] = "nl" \/ l = <<"nl", "nl">>
  <2>1. CASE w # 0 /\ s[w] # "nl"
    <3>1. ~Ended(s) /\ s # << >>
      BY <1>2, <2>1 DEF Ended
    <3>2. ~BlankEnded(s)
      BY <3>1 DEF BlankEnded
    <3>3. AppendLayout(s) = <<"nl", "nl">>
      BY <3>1, <3>2 DEF AppendLayout
    <3> QED
      BY <3>3
  <2> QED
    BY <2>1
<1>4. PICK a \in Nat : /\ l \in Seq(T) /\ OfLength(l, a) /\ (\A k \in 1..a : l[k] = "nl")
                       /\ l = <<"nl", "nl">> => a # 0
  <2> DEFINE nil == << >>
             one == <<"nl">>
             two == <<"nl", "nl">>
  <2>1. l \in {nil, one, two}
    BY DEF AppendLayout
  <2>2. nil \in Seq(T) /\ OfLength(nil, 0) /\ (\A k \in 1..0 : nil[k] = "nl") /\ nil # two
    BY DEF OfLength
  <2>3. one \in Seq(T) /\ OfLength(one, 1) /\ (\A k \in 1..1 : one[k] = "nl")
    BY DEF OfLength
  <2>4. two \in Seq(T) /\ OfLength(two, 2) /\ (\A k \in 1..2 : two[k] = "nl")
    <3>1. two \in Seq(T)
      OBVIOUS
    <3>2. OfLength(two, 2)
      BY DEF OfLength
    <3>3. two[1] = "nl" /\ two[2] = "nl"
      OBVIOUS
    <3> HIDE DEF two
    <3>4. \A k \in 1..2 : k = 1 \/ k = 2
      OBVIOUS
    <3> QED
      BY <3>1, <3>2, <3>3, <3>4, Zenon
  <2>5. 0 \in Nat /\ 1 \in Nat /\ 2 \in Nat /\ 1 # 0 /\ 2 # 0
    OBVIOUS
  <2> HIDE DEF l, T
  <2>6. CASE l = nil
    <3> HIDE DEF nil
    <3> QED
      BY <2>2, <2>5, <2>6, Zenon
  <2>7. CASE l = one
    <3> HIDE DEF one
    <3> QED
      BY <2>3, <2>5, <2>7, Zenon
  <2>8. CASE l = two
    <3> HIDE DEF two
    <3> QED
      BY <2>4, <2>5, <2>8, Zenon
  <2> QED
    BY <2>1, <2>6, <2>7, <2>8
<1>5. t = l \o b
  BY DEF Appendix
<1> HIDE DEF l, b, T
<1>6. t \in Seq(T) /\ IsJoin(t, l, b, a, 2)
  BY <1>1, <1>4, <1>5, TwoParts
<1> DEFINE z == a + 2
<1>7. z \in Nat /\ z # 0 /\ OfLength(t, z) /\ IsText(t)
  BY <1>4, <1>6 DEF IsJoin, IsText
<1>8. \A j \in 1..z : t[j] = "nl" \/ t[j] = label
  <2> TAKE j \in 1..z
  <2>3. a \in Nat /\ (\A k \in 1..a : l[k] = "nl") /\ \A k \in 1..a : t[k] = l[k]
    BY <1>4, <1>6, Zenon DEF IsJoin
  <2>1. CASE j <= a
    <3>1. j \in 1..a
      BY <2>1, <2>3
    <3> QED
      BY <2>3, <3>1, Zenon
  <2>2. CASE j > a
    <3> DEFINE k == j - a
    <3>1. k \in 1..2 /\ a + k = j
      BY <2>2
    <3> HIDE DEF k
    <3> QED
      BY <1>1, <1>6, <3>1 DEF IsJoin
  <2>4. j <= a \/ j > a
    <3>1. a \in Nat /\ j \in Nat
      BY <2>3
    <3> QED
      BY <3>1
  <2> QED
    BY <2>1, <2>2, <2>4, Zenon
<1>9. w = 0 \/ s[w] = "nl" \/ t[1] = "nl"
  <2>1. l = <<"nl", "nl">> => t[1] = "nl"
    BY <1>4, <1>6 DEF IsJoin
  <2> QED
    BY <1>3, <2>1
<1> QED
  BY <1>7, <1>8, <1>9 DEF FitsBehind

-----------------------------------------------------------------------------
\* A text cut open where it ends, for what the layout puts there.
LEMMA CutLengthens ==
    ASSUME NEW s, NEW u, NEW w \in Nat, OfLength(s, w), NEW t, NEW z \in Nat, OfLength(t, z), z # 0,
           IsCut(u, s, w, w, t), NEW label, \A j \in 1..z : t[j] = "nl" \/ t[j] = label,
           w = 0 \/ s[w] = "nl" \/ t[1] = "nl"
    PROVE  Lengthened(s, u, w, w + z, label)
<1>1. /\ OfLength(u, w + z)
      /\ \A i \in 1..w : u[i] = s[i]
      /\ \A i \in 1..z : u[w + i] = t[i]
  BY DEF IsCut, OfLength
<1>2. \A j \in (w + 1)..(w + z) : u[j] = "nl" \/ u[j] = label
  <2> TAKE j \in (w + 1)..(w + z)
  <2>1. j - w \in 1..z /\ w + (j - w) = j
    OBVIOUS
  <2> QED
    BY <1>1, <2>1
<1>3. u[w + 1] = t[1]
  BY <1>1
<1>4. w = 0 \/ s[w] = "nl" \/ (w < w + z /\ u[w + 1] = "nl")
  BY <1>3
<1>5. w <= w + z
  OBVIOUS
<1> QED
  BY <1>1, <1>2, <1>4, <1>5 DEF Lengthened, IsTail

LEMMA AppendOutlined ==
    ASSUME WellHeld, NEW label \in Definitions, PrepareAppendDefinition(label)
    PROVE  \E c : Appended(doc, Candidate(c)) /\ Hold([kind |-> "definition"], c)
<1> DEFINE s == doc.source
           w == Len(doc.source)
           t == AppendLayout(doc.source) \o <<label, "nl">>
           c == Change(<<Patch(w, w, t)>>)
           e == Candidate(c)
<1>1. Hold([kind |-> "definition"], c)
  BY DEF PrepareAppendDefinition
<1>2. IsDocument(doc) /\ IsText(s) /\ w \in Nat /\ Len(doc.sections) \in Nat
  BY DocumentIs
<1>3. OfLength(s, w) /\ Long(doc, w) /\ t = AppendLayout(s) \o <<label, "nl">>
  BY DEF OfLength, Long
<1> HIDE DEF t
<1>16. PICK z \in Nat : FitsBehind(t, z, s, w, label)
  <2>1. IsText(s) /\ w \in Nat /\ OfLength(s, w) /\ Appendix(t, s, label)
    BY <1>2, <1>3 DEF Appendix
  <2> HIDE DEF s, w
  <2> QED
    BY <2>1, AppendLayoutIs
<1>4. /\ z \in Nat
      /\ OfLength(t, z) /\ z # 0 /\ IsText(t)
      /\ \A j \in 1..z : t[j] = "nl" \/ t[j] = label
      /\ w = 0 \/ s[w] = "nl" \/ t[1] = "nl"
  BY <1>16 DEF FitsBehind
<1>5. e = Candidate(Change(<<Patch(w, w, t)>>)) /\ w <= w /\ w <= Len(doc.source)
  BY <1>2
<1> HIDE DEF c, e
<1>6. IsDocument(e) /\ IsCut(e.source, s, w, w, t)
  <2>1. IsDocument(e) /\ IsCut(e.source, doc.source, w, w, t)
    <3> HIDE DEF w, s
    <3> QED
      BY <1>2, <1>4, <1>5, CandidateIs
  <2> QED
    BY <2>1
<1> DEFINE y == w + z
<1>7. Lengthened(s, e.source, w, y, label)
  <2> HIDE DEF s, w
  <2> DEFINE u == e.source
  <2>1. IsCut(u, s, w, w, t)
    BY <1>6
  <2> HIDE DEF u
  <2>2. Lengthened(s, u, w, w + z, label)
    BY <1>2, <1>3, <1>4, <2>1, CutLengthens
  <2> QED
    BY <2>2 DEF u
<1>8. PICK n \in Nat : Counted(doc, n)
  BY <1>2 DEF Counted
<1>9. PICK m : HasRun(doc, m, w, n)
  <2> HIDE DEF w, s
  <2> QED
    BY <1>2, <1>3, <1>8, DocumentRun
<1>10. PICK v : \E r, g \in Nat : HasRun(e, v, r, g)
  <2>1. e = Candidate(c)
    BY DEF e
  <2> QED
    BY <1>6, <2>1, CandidateRun
<1>11. PICK r \in Nat, g \in Nat : HasRun(e, v, r, g)
  BY <1>10
<1>12. r = y /\ y \in Nat
  <2>1. OfLength(e.source, r)
    BY <1>11 DEF HasRun
  <2>2. OfLength(e.source, y)
    BY <1>7 DEF Lengthened
  <2> QED
    BY <1>2, <2>1, <2>2 DEF OfLength
<1>13. g = n /\ \A k \in 1..n : Synced(doc, k, e, k, 0)
  <2>1. HasRun(e, v, y, g) /\ HasRun(doc, m, w, n) /\ Lengthened(doc.source, e.source, w, y, label)
    BY <1>7, <1>9, <1>11, <1>12
  <2>2. y \in Nat /\ w \in Nat
    BY <1>2, <1>12
  <2> HIDE DEF w, y, s
  <2> QED
    BY <2>1, <2>2, LengthenedSynced
<1>14. Grown(doc, e, n, w, y)
  <2>1. Counted(e, n) /\ Long(e, y)
    <3>1. Counted(e, g) /\ OfLength(e.source, y)
      BY <1>11, <1>12 DEF HasRun
    <3> QED
      BY <1>13, <3>1 DEF OfLength, Long
  <2>2. w <= y /\ \A j \in 1..w : e.source[j] = doc.source[j]
    BY <1>7 DEF Lengthened
  <2> QED
    BY <1>3, <1>8, <1>13, <2>1, <2>2 DEF Grown
<1>15. Appended(doc, e)
  <2>1. w \in Nat /\ y \in Nat
    BY <1>2, <1>12
  <2> HIDE DEF w, y, s
  <2> QED
    BY <1>2, <1>6, <1>14, <2>1, GrownAppended
<1> QED
  BY <1>1, <1>15 DEF e

-----------------------------------------------------------------------------
\* The patch of s for t, which is z long, between b and c.
IsPatch(p, b, c, t, z) ==
    /\ p.start = b /\ p.end = c /\ p.text = t
    /\ OfLength(t, z)
    /\ z \in Nat /\ b \in Nat /\ c \in Nat /\ b <= c

\* What two patches, one behind the other, make of s.
TwoCuts(u, s, w, b, c, t, z, f, g, v, y) ==
    /\ OfLength(u, (w + (z - (c - b))) + (y - (g - f)))
    /\ \A j \in 1..b : u[j] = s[j]
    /\ \A j \in 1..z : u[b + j] = t[j]
    /\ \A j \in (c + 1)..f : u[j + (z - (c - b))] = s[j]
    /\ \A j \in 1..y : u[(f + (z - (c - b))) + j] = v[j]
    /\ \A j \in (g + 1)..w : u[(j + (z - (c - b))) + (y - (g - f))] = s[j]

LEMMA TwoCutsIs ==
    ASSUME NEW V, NEW s \in Seq(V), NEW q \in Seq(Patches(V)), NEW w \in Nat, OfLength(s, w),
           LaidOut(q, w), OfLength(q, 2),
           NEW b, NEW c, NEW t, NEW z, IsPatch(q[1], b, c, t, z),
           NEW f, NEW g, NEW v, NEW y, IsPatch(q[2], f, g, v, y),
           NEW u, u = Splice(s, q)
    PROVE  u \in Seq(V) /\ TwoCuts(u, s, w, b, c, t, z, f, g, v, y)
<1>1. Len(s) = w /\ Len(q) = 2
  BY DEF OfLength
<1>2. /\ q[1].start = b /\ q[1].end = c /\ q[1].text = t /\ Len(q[1].text) = z
      /\ z \in Nat /\ b \in Nat /\ c \in Nat /\ b <= c
      /\ q[2].start = f /\ q[2].end = g /\ q[2].text = v /\ Len(q[2].text) = y
      /\ y \in Nat /\ f \in Nat /\ g \in Nat /\ f <= g
  BY DEF IsPatch, OfLength
<1>3. c <= f /\ g <= w
  <2>1. 1 \in 1..Len(q) /\ 2 \in 1..Len(q) /\ 1 < 2 /\ 2 \in DOMAIN q
    BY <1>1
  <2>2. q[1].end <= q[2].start
    BY <2>1, Apart
  <2>3. q[2].end <= w
    BY <2>1 DEF LaidOut, Valid
  <2> QED
    BY <1>2, <2>2, <2>3
<1> DEFINE x == z - (c - b)
           r == y - (g - f)
<1>4. PrefixDelta(q, 0) = 0 /\ PrefixDelta(q, 1) = x /\ PrefixDelta(q, 2) = x + r
      /\ x \in Int /\ r \in Int
  <2>1. /\ PrefixDelta(q, 0) = 0
        /\ \A k \in 1..Len(q) : PrefixDelta(q, k) = PrefixDelta(q, k - 1) + Delta(q[k])
    BY DeltaSums
  <2>2. 1 \in 1..Len(q) /\ 2 \in 1..Len(q) /\ 1 - 1 = 0 /\ 2 - 1 = 1
    BY <1>1
  <2>3. PrefixDelta(q, 1) = PrefixDelta(q, 0) + Delta(q[1])
        /\ PrefixDelta(q, 2) = PrefixDelta(q, 1) + Delta(q[2])
    BY <2>1, <2>2
  <2>4. Delta(q[1]) = x /\ Delta(q[2]) = r /\ x \in Int /\ r \in Int
    BY <1>2 DEF Delta
  <2> QED
    BY <2>1, <2>3, <2>4
<1>5. /\ u \in Seq(V) /\ Lengths(u, s, q) /\ GapsKept(u, s, q) /\ TextsWritten(u, q)
  BY <1>1, SpliceIs
<1>6. /\ Cursor(q, 0) = 0 /\ Limit(q, 0, w) = b
      /\ Cursor(q, 1) = c /\ Limit(q, 1, w) = f
      /\ Cursor(q, 2) = g /\ Limit(q, 2, w) = w
  BY <1>1, <1>2 DEF Cursor, Limit
<1> HIDE DEF x, r
<1>7. OfLength(u, (w + x) + r)
  BY <1>1, <1>4, <1>5 DEF Lengths, OfLength
<1>8. ASSUME NEW k \in 0..2, NEW j \in (Cursor(q, k) + 1)..Limit(q, k, w)
      PROVE  u[j + PrefixDelta(q, k)] = s[j]
  <2>1. Cursor(q, k) \in Nat /\ Limit(q, k, w) \in Nat /\ PrefixDelta(q, k) \in Int
    <3>1. CASE k = 0
      BY <1>2, <1>4, <1>6, <3>1
    <3>2. CASE k = 1
      BY <1>2, <1>4, <1>6, <3>2
    <3>3. CASE k = 2
      <4>1. Cursor(q, 2) \in Nat /\ Limit(q, 2, w) \in Nat /\ PrefixDelta(q, 2) \in Int
        BY <1>2, <1>4, <1>6
      <4> QED
        BY <3>3, <4>1
    <3> QED
      BY <3>1, <3>2, <3>3
  <2>2. k \in 0..Len(q) /\ j - 1 \in Int /\ Between(q, k, Len(s), j - 1)
    BY <1>1, <2>1 DEF Between
  <2>3. u[(j - 1) + PrefixDelta(q, k) + 1] = s[(j - 1) + 1]
    BY <1>5, <2>2 DEF GapsKept
  <2>4. (j - 1) + PrefixDelta(q, k) + 1 = j + PrefixDelta(q, k) /\ (j - 1) + 1 = j
    BY <2>1
  <2> QED
    BY <2>3, <2>4
<1>9. ASSUME NEW k \in 1..2, NEW j \in 1..Len(q[k].text)
      PROVE  u[(q[k].start + PrefixDelta(q, k - 1)) + j] = q[k].text[j]
  BY <1>1, <1>5 DEF TextsWritten
<1>10. \A j \in 1..b : u[j] = s[j]
  <2> TAKE j \in 1..b
  <2>1. 0 \in 0..2 /\ j \in (Cursor(q, 0) + 1)..Limit(q, 0, w)
    BY <1>2, <1>6
  <2>2. u[j + PrefixDelta(q, 0)] = s[j]
    BY <1>8, <2>1
  <2>3. j + PrefixDelta(q, 0) = j
    BY <1>2, <1>4
  <2> QED
    BY <2>2, <2>3
<1>11. \A j \in (c + 1)..f : u[j + x] = s[j]
  <2> TAKE j \in (c + 1)..f
  <2>1. 1 \in 0..2 /\ j \in (Cursor(q, 1) + 1)..Limit(q, 1, w)
    BY <1>2, <1>6
  <2>2. u[j + PrefixDelta(q, 1)] = s[j]
    BY <1>8, <2>1
  <2> QED
    BY <1>4, <2>2
<1>12. \A j \in (g + 1)..w : u[(j + x) + r] = s[j]
  <2> TAKE j \in (g + 1)..w
  <2>1. 2 \in 0..2 /\ j \in (Cursor(q, 2) + 1)..Limit(q, 2, w)
    BY <1>2, <1>6
  <2>2. u[j + PrefixDelta(q, 2)] = s[j]
    BY <1>8, <2>1
  <2>3. j + PrefixDelta(q, 2) = (j + x) + r
    BY <1>2, <1>4
  <2> QED
    BY <2>2, <2>3
<1>13. \A j \in 1..z : u[b + j] = t[j]
  <2> TAKE j \in 1..z
  <2>1. 1 \in 1..2 /\ j \in 1..Len(q[1].text) /\ 1 - 1 = 0
    BY <1>2
  <2>2. u[(q[1].start + PrefixDelta(q, 1 - 1)) + j] = q[1].text[j]
    BY <1>9, <2>1
  <2>3. q[1].start + PrefixDelta(q, 1 - 1) = b
    BY <1>2, <1>4, <2>1
  <2> QED
    BY <1>2, <2>2, <2>3
<1>14. \A j \in 1..y : u[(f + x) + j] = v[j]
  <2> TAKE j \in 1..y
  <2>1. 2 \in 1..2 /\ j \in 1..Len(q[2].text) /\ 2 - 1 = 1
    BY <1>2
  <2>2. u[(q[2].start + PrefixDelta(q, 2 - 1)) + j] = q[2].text[j]
    BY <1>9, <2>1
  <2>3. q[2].start + PrefixDelta(q, 2 - 1) = f + x
    BY <1>2, <1>4, <2>1
  <2> QED
    BY <1>2, <2>2, <2>3
<1> QED
  BY <1>5, <1>7, <1>10, <1>11, <1>12, <1>13, <1>14 DEF TwoCuts, x, r

\* Two accepted patches are applied in the order of their starts.
LEMMA PairInOrder ==
    ASSUME NEW V, NEW l \in Seq(Patches(V)), OfLength(l, 2), NEW w \in Nat,
           NEW q, q = InOrder(l), Accepted(w, l)
    PROVE  /\ q \in Seq(Patches(V)) /\ LaidOut(q, w) /\ OfLength(q, 2)
           /\ l[1].start < l[2].start => q[1] = l[1] /\ q[2] = l[2]
           /\ l[2].start < l[1].start => q[1] = l[2] /\ q[2] = l[1]
<1>3. /\ q \in Seq(Patches(V)) /\ LaidOut(q, w)
      /\ \A i \in 1..Len(l) : \E j \in 1..Len(q) : q[j] = l[i]
  BY AcceptedIs
<1>1. Len(l) = 2
  BY DEF OfLength
<1>4. Len(q) = 2
  BY <1>1, InOrderIs DEF IsInOrder
<1>5. q[1].start < q[2].start
  <2>1. 1 \in 1..Len(q) /\ 2 \in 1..Len(q) /\ 1 < 2
    BY <1>4
  <2> QED
    BY <1>3, <2>1, Apart
<1>6. PICK j \in 1..2 : q[j] = l[1]
  <2>1. 1 \in 1..Len(l)
    BY <1>1
  <2> QED
    BY <1>3, <1>4, <2>1
<1>7. PICK k \in 1..2 : q[k] = l[2]
  <2>1. 2 \in 1..Len(l)
    BY <1>1
  <2> QED
    BY <1>3, <1>4, <2>1
<1>8. (j = 1 \/ j = 2) /\ (k = 1 \/ k = 2)
  OBVIOUS
<1>9. l[1].start \in Int /\ l[2].start \in Int
  <2>1. l[1] \in Patches(V) /\ l[2] \in Patches(V)
    BY <1>1
  <2> QED
    BY <2>1 DEF Patches
<1>10. l[1].start < l[2].start => q[1] = l[1] /\ q[2] = l[2]
  BY <1>5, <1>6, <1>7, <1>8, <1>9
<1>11. l[2].start < l[1].start => q[1] = l[2] /\ q[2] = l[1]
  BY <1>5, <1>6, <1>7, <1>8, <1>9
<1> QED
  BY <1>3, <1>4, <1>10, <1>11 DEF OfLength

LEMMA TwoInOrder ==
    ASSUME NEW V, NEW o \in Patches(V), NEW p \in Patches(V), NEW w \in Nat,
           NEW q, q = InOrder(<<o, p>>), Accepted(w, <<o, p>>)
    PROVE  /\ q \in Seq(Patches(V)) /\ LaidOut(q, w) /\ OfLength(q, 2)
           /\ o.start < p.start => q[1] = o /\ q[2] = p
           /\ p.start < o.start => q[1] = p /\ q[2] = o
<1> DEFINE l == <<o, p>>
<1>1. l \in Seq(Patches(V)) /\ OfLength(l, 2) /\ l[1] = o /\ l[2] = p
  BY DEF OfLength
<1>2. Accepted(w, l) /\ q = InOrder(l)
  OBVIOUS
<1> HIDE DEF l
<1>3. /\ q \in Seq(Patches(V)) /\ LaidOut(q, w) /\ OfLength(q, 2)
      /\ l[1].start < l[2].start => q[1] = l[1] /\ q[2] = l[2]
      /\ l[2].start < l[1].start => q[1] = l[2] /\ q[2] = l[1]
  BY <1>1, <1>2, PairInOrder
<1> QED
  BY <1>1, <1>3, Zenon

-----------------------------------------------------------------------------
\* u is s with what lies between b and c in front of what lies between a and b.
IsExchange(u, s, a, b, c, w) ==
    /\ OfLength(u, w)
    /\ SameText(s, u, 0, a, 0)
    /\ SameText(s, u, b, c, a - b)
    /\ SameText(s, u, a, b, c - b)
    /\ SameText(s, u, c, w, 0)

LEMMA EmptyPatch ==
    ASSUME NEW b \in Nat, NEW c \in Nat, b <= c
    PROVE  IsPatch(Patch(b, c, << >>), b, c, << >>, 0)
BY DEF IsPatch, Patch, OfLength

LEMMA TextPatch ==
    ASSUME NEW b \in Nat, NEW t, NEW z \in Nat, OfLength(t, z)
    PROVE  IsPatch(Patch(b, b, t), b, b, t, z)
BY DEF IsPatch, Patch

LEMMA PatchFits ==
    ASSUME NEW V, NEW t \in Seq(V), NEW b \in Nat, NEW c \in Nat
    PROVE  Patch(b, c, t) \in Patches(V)
BY DEF Patch, Patches

\* Moved to the front.
LEMMA CutsUp ==
    ASSUME NEW s, NEW u, NEW w \in Nat, NEW a \in Nat, NEW b \in Nat, NEW c \in Nat,
           a <= b, b <= c, c <= w, NEW t, NEW n,
           \A j \in 1..(c - b) : t[j] = s[b + j],
           TwoCuts(u, s, w, a, a, t, c - b, b, c, n, 0)
    PROVE  IsExchange(u, s, a, b, c, w)
<1> DEFINE x == (c - b) - (a - a)
           r == 0 - (c - b)
<1>1. x = c - b /\ r = b - c /\ (w + x) + r = w
  OBVIOUS
<1>2. /\ OfLength(u, (w + x) + r)
      /\ \A j \in 1..a : u[j] = s[j]
      /\ \A j \in 1..(c - b) : u[a + j] = t[j]
      /\ \A j \in (a + 1)..b : u[j + x] = s[j]
      /\ \A j \in (c + 1)..w : u[(j + x) + r] = s[j]
  BY DEF TwoCuts
<1> HIDE DEF x, r
<1>3. SameText(s, u, 0, a, 0)
  <2> SUFFICES ASSUME NEW j \in (0 + 1)..a PROVE u[j + 0] = s[j]
    BY DEF SameText
  <2>1. j \in 1..a /\ j + 0 = j
    OBVIOUS
  <2> QED
    BY <1>2, <2>1
<1>4. SameText(s, u, b, c, a - b)
  <2> SUFFICES ASSUME NEW j \in (b + 1)..c PROVE u[j + (a - b)] = s[j]
    BY DEF SameText
  <2> DEFINE k == j - b
  <2>1. k \in 1..(c - b) /\ a + k = j + (a - b) /\ b + k = j
    OBVIOUS
  <2> HIDE DEF k
  <2>2. u[a + k] = s[b + k]
    BY <1>2, <2>1
  <2> QED
    BY <2>1, <2>2
<1>5. SameText(s, u, a, b, c - b)
  <2> SUFFICES ASSUME NEW j \in (a + 1)..b PROVE u[j + (c - b)] = s[j]
    BY DEF SameText
  <2> QED
    BY <1>1, <1>2
<1>6. SameText(s, u, c, w, 0)
  <2> SUFFICES ASSUME NEW j \in (c + 1)..w PROVE u[j + 0] = s[j]
    BY DEF SameText
  <2>1. (j + x) + r = j + 0
    BY <1>1
  <2> QED
    BY <1>2, <2>1
<1> QED
  BY <1>1, <1>2, <1>3, <1>4, <1>5, <1>6 DEF IsExchange

\* Moved to the back.
LEMMA CutsDown ==
    ASSUME NEW s, NEW u, NEW w \in Nat, NEW a \in Nat, NEW b \in Nat, NEW c \in Nat,
           a <= b, b <= c, c <= w, NEW t, NEW n,
           \A j \in 1..(b - a) : t[j] = s[a + j],
           TwoCuts(u, s, w, a, b, n, 0, c, c, t, b - a)
    PROVE  IsExchange(u, s, a, b, c, w)
<1> DEFINE x == 0 - (b - a)
           r == (b - a) - (c - c)
<1>1. x = a - b /\ r = b - a /\ (w + x) + r = w
  OBVIOUS
<1>2. /\ OfLength(u, (w + x) + r)
      /\ \A j \in 1..a : u[j] = s[j]
      /\ \A j \in (b + 1)..c : u[j + x] = s[j]
      /\ \A j \in 1..(b - a) : u[(c + x) + j] = t[j]
      /\ \A j \in (c + 1)..w : u[(j + x) + r] = s[j]
  BY DEF TwoCuts
<1> HIDE DEF x, r
<1>3. SameText(s, u, 0, a, 0)
  <2> SUFFICES ASSUME NEW j \in (0 + 1)..a PROVE u[j + 0] = s[j]
    BY DEF SameText
  <2>1. j \in 1..a /\ j + 0 = j
    OBVIOUS
  <2> QED
    BY <1>2, <2>1
<1>4. SameText(s, u, b, c, a - b)
  <2> SUFFICES ASSUME NEW j \in (b + 1)..c PROVE u[j + (a - b)] = s[j]
    BY DEF SameText
  <2> QED
    BY <1>1, <1>2
<1>5. SameText(s, u, a, b, c - b)
  <2> SUFFICES ASSUME NEW j \in (a + 1)..b PROVE u[j + (c - b)] = s[j]
    BY DEF SameText
  <2> DEFINE k == j - a
  <2>1. k \in 1..(b - a) /\ (c + x) + k = j + (c - b) /\ a + k = j
    BY <1>1
  <2> HIDE DEF k
  <2>2. u[(c + x) + k] = s[a + k]
    BY <1>2, <2>1
  <2> QED
    BY <2>1, <2>2
<1>6. SameText(s, u, c, w, 0)
  <2> SUFFICES ASSUME NEW j \in (c + 1)..w PROVE u[j + 0] = s[j]
    BY DEF SameText
  <2>1. (j + x) + r = j + 0
    BY <1>1
  <2> QED
    BY <1>2, <2>1
<1> QED
  BY <1>1, <1>2, <1>3, <1>4, <1>5, <1>6 DEF IsExchange

LEMMA MovedText ==
    ASSUME NEW s, IsText(s), NEW w \in Nat, OfLength(s, w), NEW b \in Nat, NEW c \in Nat,
           b <= c, c <= w, NEW at \in Nat, at <= w, NEW r, r = [start |-> b, end |-> c],
           NEW o, o = Patch(b, c, << >>), NEW p, p = Patch(at, at, Bytes(s, r)),
           Accepted(w, <<o, p>>), NEW u, u = Splice(s, InOrder(<<o, p>>))
    PROVE  /\ IsText(u)
           /\ at < b => IsExchange(u, s, at, b, c, w)
           /\ (c < at /\ b < c) => IsExchange(u, s, b, c, at, w)
<1> DEFINE t == Bytes(s, r)
           n == << >>
           q == InOrder(<<o, p>>)
<1>1. PICK V : s \in Seq(V)
  BY DEF IsText
<1>2. IsSlice(V, t, s, b, c)
  <2>1. t = SubSeq(s, b + 1, c)
    BY DEF Bytes
  <2> HIDE DEF t
  <2> QED
    BY <1>1, <2>1, SliceIs
<1>3. t \in Seq(V) /\ OfLength(t, c - b) /\ \A j \in 1..(c - b) : t[j] = s[b + j]
  BY <1>2 DEF IsSlice
<1>4. o = Patch(b, c, n) /\ p = Patch(at, at, t) /\ n \in Seq(V)
  OBVIOUS
<1> DEFINE z == c - b
           y == 0
<1>5. z \in Nat /\ y \in Nat
  OBVIOUS
<1>6. IsPatch(o, b, c, n, y) /\ IsPatch(p, at, at, t, z)
  <2>1. IsPatch(o, b, c, n, y)
    BY <1>4, EmptyPatch
  <2>2. OfLength(t, z)
    BY <1>3
  <2> HIDE DEF t, z
  <2>3. IsPatch(p, at, at, t, z)
    BY <1>4, <1>5, <2>2, TextPatch
  <2> QED
    BY <2>1, <2>3
<1>7. o \in Patches(V) /\ p \in Patches(V) /\ o.start = b /\ p.start = at
  <2> HIDE DEF t, n, z, y
  <2>1. o \in Patches(V)
    BY <1>4, PatchFits
  <2>2. p \in Patches(V)
    BY <1>3, <1>4, PatchFits
  <2> QED
    BY <1>6, <2>1, <2>2 DEF IsPatch
<1>8. q = InOrder(<<o, p>>) /\ u = Splice(s, q)
  OBVIOUS
<1> HIDE DEF q, t, n
<1>9. /\ q \in Seq(Patches(V)) /\ LaidOut(q, w) /\ OfLength(q, 2)
      /\ b < at => q[1] = o /\ q[2] = p
      /\ at < b => q[1] = p /\ q[2] = o
  <2>1. /\ q \in Seq(Patches(V)) /\ LaidOut(q, w) /\ OfLength(q, 2)
        /\ o.start < p.start => q[1] = o /\ q[2] = p
        /\ p.start < o.start => q[1] = p /\ q[2] = o
    BY <1>7, <1>8, TwoInOrder
  <2> QED
    BY <1>7, <2>1
<1>10. IsText(u)
  <2>1. LaidOut(q, Len(s))
    BY <1>9 DEF OfLength
  <2>2. u \in Seq(V)
    BY <1>1, <1>8, <1>9, <2>1, SpliceIs
  <2> QED
    BY <2>2 DEF IsText
<1> HIDE DEF z, y
<1>11. ASSUME at < b PROVE IsExchange(u, s, at, b, c, w)
  <2>1. IsPatch(q[1], at, at, t, z) /\ IsPatch(q[2], b, c, n, y)
    BY <1>6, <1>9, <1>11
  <2>2. TwoCuts(u, s, w, at, at, t, z, b, c, n, y)
    BY <1>1, <1>8, <1>9, <2>1, TwoCutsIs
  <2>3. TwoCuts(u, s, w, at, at, t, c - b, b, c, n, 0) /\ at <= b
    BY <1>11, <2>2 DEF z, y
  <2> QED
    BY <1>3, <2>3, CutsUp
<1>12. ASSUME c < at, b < c PROVE IsExchange(u, s, b, c, at, w)
  <2>1. IsPatch(q[1], b, c, n, y) /\ IsPatch(q[2], at, at, t, z)
    BY <1>6, <1>9, <1>12
  <2>2. TwoCuts(u, s, w, b, c, n, y, at, at, t, z)
    BY <1>1, <1>8, <1>9, <2>1, TwoCutsIs
  <2>3. TwoCuts(u, s, w, b, c, n, 0, at, at, t, c - b) /\ c <= at
    BY <1>12, <2>2 DEF z, y
  <2> QED
    BY <1>3, <2>3, CutsDown
<1> QED
  BY <1>10, <1>11, <1>12

-----------------------------------------------------------------------------
LEMMA TitledAt ==
    ASSUME NEW d, IsDocument(d), ~UnderlineTitles(d),
           NEW m, NEW w \in Nat, NEW n \in Nat, HasRun(d, m, w, n), NEW k \in 1..n,
           d.sections[k].kind = "setext", NEW p, p = StartOf(d, k), NEW c \in Nat, k = c + 1
    PROVE  \E j \in Nat : /\ Titled(d.source, m, w, p, j, c)
                          /\ d.sections[k].heading.end = j + 1
<1> DEFINE s == d.source
<1>0. /\ IsText(s) /\ IsRun(s, m) /\ OfLength(s, w) /\ n = Len(d.sections) /\ k \in Nat /\ k # 0
      /\ k - 1 = c
  BY DEF HasRun, Counted
<1>1. PICK j \in 0..(w - 1) : MadeAt(s, m, k, m[w].heads[k], j)
  BY HeadBorn
<1> DEFINE h == m[w].heads[k]
<1>2. MadeAt(s, m, k, h, j)
  BY <1>1
<1>3. d.sections[k].heading.start = h.start /\ d.sections[k].heading.end = h.end
      /\ h.kind = "setext"
  BY RunHead
<1>4. p = h.start
  BY <1>0, <1>3 DEF StartOf
<1> HIDE DEF h, s
<1>5. /\ h.start \in 0..j
      /\ StartsLine(s, h.start)
      /\ OfLength(m[h.start].heads, k - 1)
      /\ m[h.start].heads = m[j].heads
      /\ m[j].open = "paragraph" /\ m[j].from = h.start
      /\ BornAt(s, m, j, h.start)
      /\ s[j + 1] \in {"=", "-"} /\ Alone(s, j)
  BY <1>0, <1>2, <1>3, BeforeHead
<1>6. h.end = j + 1 /\ StartsLine(s, j)
  BY <1>0, <1>2, <1>3, UnderlineLast
<1>7. p < j /\ StartsLine(s, p) /\ m[p + 1].open = "paragraph" /\ m[p + 1].from = p
  BY <1>4, <1>5 DEF BornAt
<1>8. p \in Nat /\ j \in Nat /\ j < w /\ p \in 0..(w - 1) /\ j \in 0..w
  BY <1>4, <1>5
<1>9. m[p].open = "none"
  BY <1>0, <1>7, <1>8, OpenedHere
<1>10. m[j].from = p
  BY <1>4, <1>5
<1>11. \A i \in (p + 1)..j : m[i].open = "paragraph" /\ m[i].from = p
  BY <1>0, <1>5, <1>7, <1>8, <1>10, ParagraphSince
<1>12. ~(s[p + 1] = "=" /\ s[(p + 1) + 1] = "nl")
  <2>1. k \in DOMAIN d.sections
    BY <1>0 DEF IsDocument
  <2> DEFINE first == d.sections[k].heading.start + 1
  <2>2. ~(d.source[first] = "=" /\ d.source[first + 1] = "nl")
    BY <2>1, Zenon DEF UnderlineTitles
  <2> QED
    BY <1>3, <1>4, <2>2 DEF s
<1>13. ~(s[p + 1] = "=" /\ Alone(s, p))
  BY <1>0, <1>7, <1>8, <1>12, UnderlineNotFirst
<1>14. OfLength(m[p].heads, c) /\ OfLength(m[j].heads, c)
  BY <1>0, <1>4, <1>5
<1>15. Titled(s, m, w, p, j, c)
  BY <1>5, <1>6, <1>7, <1>8, <1>9, <1>11, <1>13, <1>14 DEF Titled
<1> QED
  BY <1>3, <1>6, <1>8, <1>15 DEF s

-----------------------------------------------------------------------------
\* Counts of two lists that have grown alike, and not alike.
LEMMA GrownAlike ==
    ASSUME NEW t, NEW r, NEW x, NEW c \in Nat, NEW b \in Nat, NEW a \in Nat, Alike(t, r, x, c, b, a),
           NEW l \in Nat, Counts(t.heads, l)
    PROVE  c + a = l - 1
<1>1. PICK i \in Nat : i = l - 1 /\ OfLength(t.heads, i)
  BY DEF Counts
<1>2. OfLength(t.heads, c + a)
  BY DEF Alike
<1>3. i = c + a
  BY <1>1, <1>2 DEF OfLength
<1> QED
  BY <1>1, <1>3

LEMMA NotFewer ==
    ASSUME NEW t, NEW r, NEW c \in Nat, NEW b \in Nat, NEW a \in Nat, a = c + 1, Fewer(t, r, a, b),
           NEW l \in Nat, NEW y \in Nat, Counts(t.heads, l), Counts(r.heads, y)
    PROVE  y - b # l - c
<1>1. PICK i \in Nat : i = l - 1 /\ OfLength(t.heads, i)
  BY DEF Counts
<1>2. PICK j \in Nat : j = y - 1 /\ OfLength(r.heads, j)
  BY DEF Counts
<1>3. PICK f, g \in Nat : OfLength(t.heads, a + f) /\ OfLength(r.heads, b + g) /\ g <= f
  BY DEF Fewer
<1>4. i = a + f /\ j = b + g
  BY <1>1, <1>2, <1>3 DEF OfLength
<1> QED
  BY <1>1, <1>2, <1>3, <1>4

(***************************************************************************)
(* Where the first heading of a region begins, whatever block the text in  *)
(* front of it leaves open: as many headings are there as should be, each  *)
(* as long as it was, so that it begins where its text begins.             *)
(***************************************************************************)
LEMMA SeamBegins ==
    ASSUME NEW d, IsDocument(d), ~UnderlineTitles(d),
           NEW m, NEW w \in Nat, NEW n \in Nat, HasRun(d, m, w, n),
           NEW e, NEW v, NEW z \in Nat, NEW g \in Nat, HasRun(e, v, z, g),
           NEW k \in 1..n, NEW l \in (k + 1)..(n + 1), NEW y \in 1..g,
           NEW t \in Int, y = k + t,
           NEW p, StartIs(d, k, p), NEW q, StartIs(d, l, q),
           NEW x \in Int, Carried(d, e, w, z, p, q, x),
           NEW f, f = p + x, SameShape(d, e, k, y),
           StartsLine(e.source, f), v[f].open # "fence",
           Counts(v[f].heads, y), NEW o, o = l + t, Counts(v[q + x].heads, o)
    PROVE  BeginsAt(e, y, f)
<1> DEFINE s == d.source
           u == e.source
<1>0. /\ IsText(s) /\ IsRun(s, m) /\ OfLength(s, w) /\ Counted(d, n)
      /\ IsText(u) /\ IsRun(u, v) /\ OfLength(u, z)
  BY DEF HasRun
<1>1. /\ k \in 1..(n + 1) /\ l \in 1..(n + 1) /\ k \in Nat /\ l \in Nat /\ y \in Nat /\ k <= n
      /\ o \in Nat
  OBVIOUS
<1>2. p \in 0..w /\ Counts(m[p].heads, k) /\ StartsLine(s, p)
  BY <1>1, CountUpto
<1>3. q \in 0..w /\ Counts(m[q].heads, l)
  BY <1>1, CountUpto
<1>4. PICK c \in Nat : c = k - 1 /\ OfLength(m[p].heads, c)
  BY <1>2 DEF Counts
<1>5. PICK b \in Nat : b = y - 1 /\ OfLength(v[f].heads, b)
  BY DEF Counts
<1>6. k = c + 1 /\ y = b + 1 /\ b = c + t /\ NextTo(y, b)
  BY <1>1, <1>4, <1>5 DEF NextTo
<1>7. /\ d.sections[k].heading.end <= q
      /\ p = d.sections[k].heading.start
      /\ p < d.sections[k].heading.end
      /\ d.sections[k].heading.end \in Nat
  BY <1>0, HeadBeforeStart DEF StartIs
<1>8. p \in Nat /\ p <= q /\ p < q
  <2>1. p \in Nat /\ q \in Nat
    BY <1>2, <1>3
  <2>2. PICK h \in Nat : h = d.sections[k].heading.end
    BY <1>7
  <2>3. p < h /\ h <= q
    BY <1>7, <2>2
  <2> QED
    BY <2>1, <2>3
<1>9. /\ 0 <= f /\ q + x <= z /\ f \in 0..(z - 1) /\ SameText(s, u, p, q, x)
      /\ q + x \in 0..z
  BY <1>3, <1>8 DEF Carried
<1>10. Parallel(s, u, m, v, w, z, p, q, x) /\ SameEnd(s, u, q, x)
  BY <1>8, p <= p, CarriedParallel
<1>11. Twin(s, u, m, v, w, z, p, q, x)
  BY <1>2, <1>10, TwinOf
<1>12. u[f + 1] = s[p + 1]
  <2>1. p + 1 \in (p + 1)..q
    BY <1>3, <1>8
  <2>2. u[(p + 1) + x] = s[p + 1]
    BY <1>9, <2>1 DEF SameText
  <2>3. (p + 1) + x = f + 1
    BY <1>8
  <2> QED
    BY <2>2, <2>3
<1>13. d.sections[k].kind \in HeadingKinds
  <2>1. SectionLies(d, k)
    BY <1>0, <1>1 DEF IsDocument, Counted
  <2> QED
    BY <2>1 DEF SectionLies
<1>14. CASE d.sections[k].kind = "atx"
  BY <1>5, <1>6, <1>9, <1>12, <1>14, SeamAtx
<1>15. CASE d.sections[k].kind = "setext"
  <2>1. PICK j \in Nat : /\ Titled(s, m, w, p, j, c)
                         /\ d.sections[k].heading.end = j + 1
    BY <1>6, <1>15, TitledAt DEF StartIs
  <2>2. j < q /\ m[p].open = "none" /\ p < j
    <3>1. m[p].open = "none" /\ p < j
      BY <2>1 DEF Titled
    <3>2. j + 1 <= q
      BY <1>7, <2>1
    <3>3. q \in Nat
      BY <1>3
    <3> QED
      BY <3>1, <3>2, <3>3
  <2>3. v[f].open \in Kinds
    <3>1. f \in 0..Len(u)
      BY <1>0, <1>9 DEF OfLength
    <3>2. SoundAt(u, v[f], f)
      BY <1>0, <3>1, RunSound
    <3> QED
      BY <3>2 DEF SoundAt, Reduced
  <2>4. CASE v[f].open = "none"
    <3>1. SameState(m[p], v[f], x)
      BY <2>2, <2>4 DEF SameState
    <3>2. Aligned(s, u, p, q, x)
      BY <1>11 DEF Twin
    <3> DEFINE r == q + x
    <3>3. \E a \in Nat : Alike(m[q], v[r], x, c, b, a)
      <4>1. q \in Nat /\ q \in p..q /\ q <= w
        BY <1>3, <1>8
      <4> QED
        BY <1>0, <1>4, <1>5, <1>8, <1>9, <3>1, <3>2, <4>1, SimRun
    <3>4. r \in 0..z
      BY <1>9
    <3> HIDE DEF r
    <3>5. PICK a \in Nat : Alike(m[q], v[r], x, c, b, a)
      BY <3>3
    <3>6. \A i \in (c + 1)..(c + a) : Synced(d, i, e, i + t, x)
      BY <1>3, <1>6, <3>4, <3>5, AlikeRegion
    <3>7. c + a = l - 1
      BY <1>1, <1>3, <3>5, GrownAlike
    <3>8. k \in (c + 1)..(c + a)
      BY <1>1, <1>6, <3>7
    <3>9. Synced(d, k, e, k + t, x)
      BY <3>6, <3>8
    <3> QED
      BY <1>7, <3>9 DEF Synced, BeginsAt
  <2>5. CASE v[f].open = "paragraph"
    <3>1. PICK a \in Nat : a < f /\ HeadLies(e, y, a, (j + 1) + x)
      BY <1>5, <1>6, <1>11, <2>1, <2>2, <2>5, SeamParagraph
    <3>2. e.sections[y].heading.start = a /\ e.sections[y].heading.end = (j + 1) + x
      BY <3>1 DEF HeadLies
    <3>3. ((j + 1) + x) - a = (j + 1) - p
      BY <1>7, <2>1, <3>2 DEF SameShape
    <3> QED
      BY <1>8, <3>1, <3>3
  <2>6. CASE v[f].open = "item"
    <3>1. PICK a \in Nat : a = c + 1 /\ Fewer(m[q], v[q + x], a, b)
      BY <1>0, <1>5, <1>11, <2>1, <2>2, <2>6, SeamItem
    <3>2. o - b # l - c
      BY <1>1, <1>3, <3>1, NotFewer
    <3> QED
      BY <1>1, <1>6, <3>2
  <2> QED
    BY <2>3, <2>4, <2>5, <2>6 DEF Kinds
<1> QED
  BY <1>13, <1>14, <1>15 DEF HeadingKinds

-----------------------------------------------------------------------------
(***************************************************************************)
(* Two neighbouring stretches of a list exchanged: z has what F has from f *)
(* to g - 1 behind what F has from g to h - 1.                             *)
(***************************************************************************)
IsSwap(z, F, f, g, h, n) ==
    /\ OfLength(z, n)
    /\ \A k \in 1..(f - 1) : z[k] = F[k]
    /\ \A k \in f..(g - 1) : z[k + (h - g)] = F[k]
    /\ \A k \in g..(h - 1) : z[k + (f - g)] = F[k]
    /\ \A k \in h..n : z[k] = F[k]

IsCuts(f, g, h, n) ==
    /\ f \in Nat /\ g \in Nat /\ h \in Nat /\ n \in Nat
    /\ 1 <= f /\ f < g /\ g < h /\ h <= n + 1

LEMMA SwapUnique ==
    ASSUME NEW V, NEW z \in Seq(V), NEW y \in Seq(V), NEW F, NEW f, NEW g, NEW h, NEW n,
           IsCuts(f, g, h, n), IsSwap(z, F, f, g, h, n), IsSwap(y, F, f, g, h, n)
    PROVE  z = y
<1> DEFINE x == h - g
           w == f - g
<1>0. /\ f \in Nat /\ g \in Nat /\ h \in Nat /\ n \in Nat
      /\ 1 <= f /\ f < g /\ g < h /\ h <= n + 1
      /\ x \in Int /\ w \in Int
  BY DEF IsCuts
<1>1. /\ \A k \in 1..(f - 1) : z[k] = y[k]
      /\ \A k \in f..(g - 1) : z[k + x] = y[k + x]
      /\ \A k \in g..(h - 1) : z[k + w] = y[k + w]
      /\ \A k \in h..n : z[k] = y[k]
  BY DEF IsSwap
<1>2. ASSUME NEW k \in 1..n PROVE z[k] = y[k]
  <2>1. \/ k \in 1..(f - 1)
        \/ k - x \in f..(g - 1) /\ (k - x) + x = k
        \/ k - w \in g..(h - 1) /\ (k - w) + w = k
        \/ k \in h..n
    BY <1>0
  <2> HIDE DEF x, w
  <2> QED
    BY <1>1, <2>1
<1>3. Len(z) = n /\ Len(y) = n
  BY DEF IsSwap, OfLength
<1> HIDE DEF x, w
<1>4. Len(z) = Len(y) /\ \A k \in 1..Len(z) : z[k] = y[k]
  BY <1>2, <1>3
<1> QED
  BY <1>4, SameSequences

\* A tree taken out of a list and put in again at p.
Reinserted(z, F, i, p) == z = O!Insert(O!Without(F, i), p, O!Tree(F, i))

IsRest(R, F, i, l, n) ==
    /\ OfLength(R, n - (l - i))
    /\ \A k \in 1..(i - 1) : R[k] = F[k]
    /\ \A k \in l..n : R[k - (l - i)] = F[k]

IsBack(z, F, R, i, l, p, n) ==
    /\ OfLength(z, n)
    /\ \A k \in 1..(p - 1) : z[k] = R[k]
    /\ \A k \in i..(l - 1) : z[k + (p - i)] = F[k]
    /\ \A k \in p..(n - (l - i)) : z[k + (l - i)] = R[k]

IsSpan(i, l, p, n) ==
    /\ i \in Nat /\ l \in Nat /\ p \in Nat /\ n \in Nat
    /\ 1 <= i /\ i < l /\ l <= n + 1
    /\ 1 <= p /\ p <= (n - (l - i)) + 1

LEMMA ReinsertedIs ==
    ASSUME NEW V, NEW F \in Seq(V), NEW n, OfLength(F, n), DOMAIN F = 1..n,
           NEW i, NEW l, TreeEnds(F, n, i, l), NEW p, IsSpan(i, l, p, n),
           NEW z, Reinserted(z, F, i, p)
    PROVE  z \in Seq(V) /\ \E R : IsRest(R, F, i, l, n) /\ IsBack(z, F, R, i, l, p, n)
<1>0. /\ n \in Nat /\ i \in 1..n /\ l \in (i + 1)..(n + 1) /\ p \in Nat
      /\ 1 <= p /\ p <= (n - (l - i)) + 1
  BY DEF IsSpan
<1> DEFINE R == O!Without(F, i)
           T == O!Tree(F, i)
           c == l - i
           m == n - (l - i)
<1>1. R = O!Without(F, i) /\ T = O!Tree(F, i) /\ z = O!Insert(R, p, T)
  BY DEF Reinserted
<1> HIDE DEF R, T
<1>2. R \in Seq(V) /\ IsGraft(R, F, << >>, i, l, n, 0)
  BY <1>0, <1>1, WithoutIs
<1>3. /\ T \in Seq(V) /\ OfLength(T, c)
      /\ \A k \in 1..c : T[k] = F[k + (i - 1)]
  BY <1>0, <1>1, TreeIs
<1>4. m \in Nat /\ c \in Nat /\ p \in 1..(m + 1) /\ m = n + (0 - (l - i))
  BY <1>0
<1>5. IsRest(R, F, i, l, n)
  <2>1. \A k \in l..n : k + (0 - (l - i)) = k - (l - i)
    BY <1>0
  <2>2. \A k \in l..n : R[k - (l - i)] = F[k]
    <3> TAKE k \in l..n
    <3>1. R[k + (0 - (l - i))] = F[k]
      BY <1>2 DEF IsGraft
    <3> QED
      BY <2>1, <3>1
  <2>3. OfLength(R, n - (l - i))
    BY <1>2, <1>4 DEF IsGraft
  <2> QED
    BY <1>2, <2>2, <2>3 DEF IsGraft, IsRest
<1>6. OfLength(R, m)
  BY <1>5 DEF IsRest
<1> HIDE DEF c, m
<1>7. z \in Seq(V) /\ IsGraft(z, R, T, p, p, m, c)
  BY <1>1, <1>2, <1>3, <1>4, <1>6, InsertIs
<1>8. c - (p - p) = c /\ m + (c - (p - p)) = n
  BY <1>0, <1>4 DEF c, m
<1>9. OfLength(z, n)
  BY <1>7, <1>8 DEF IsGraft
<1>10. \A k \in 1..(p - 1) : z[k] = R[k]
  BY <1>7 DEF IsGraft
<1>11. \A k \in i..(l - 1) : z[k + (p - i)] = F[k]
  <2> TAKE k \in i..(l - 1)
  <2> DEFINE j == (k - i) + 1
  <2>1. j \in 1..c /\ j + (p - 1) = k + (p - i) /\ j + (i - 1) = k
    BY <1>0 DEF c
  <2> HIDE DEF j
  <2>2. z[j + (p - 1)] = T[j]
    BY <1>7, <2>1 DEF IsGraft
  <2>3. T[j] = F[j + (i - 1)]
    BY <1>3, <2>1
  <2> QED
    BY <2>1, <2>2, <2>3
<1>12. \A k \in p..m : z[k + c] = R[k]
  BY <1>7, <1>8 DEF IsGraft
<1>13. IsBack(z, F, R, i, l, p, n)
  BY <1>9, <1>10, <1>11, <1>12 DEF IsBack, c, m
<1> QED
  BY <1>5, <1>7, <1>13

-----------------------------------------------------------------------------
LEMMA BackUp ==
    ASSUME NEW F, NEW R, NEW i, NEW l, NEW n, NEW p, IsSpan(i, l, p, n), p < i,
           IsRest(R, F, i, l, n), NEW z, IsBack(z, F, R, i, l, p, n)
    PROVE  IsSwap(z, F, p, i, l, n)
<1> DEFINE c == l - i
           m == n - c
<1>0. /\ i \in Nat /\ l \in Nat /\ p \in Nat /\ n \in Nat
      /\ 1 <= p /\ p < i /\ i < l /\ l <= n + 1
      /\ c \in Nat /\ m \in Int /\ m = n - c /\ c = l - i
  BY DEF IsSpan
<1>1. \A k \in 1..(i - 1) : R[k] = F[k]
  BY DEF IsRest
<1>2. \A k \in l..n : R[k - c] = F[k]
  BY DEF IsRest
<1>3. \A k \in 1..(p - 1) : z[k] = R[k]
  BY DEF IsBack
<1>4. \A k \in p..m : z[k + c] = R[k]
  BY DEF IsBack
<1> HIDE DEF c, m
<1>5. \A k \in 1..(p - 1) : z[k] = F[k]
  <2>1. \A k \in 1..(p - 1) : k \in 1..(i - 1)
    BY <1>0
  <2> QED
    BY <1>1, <1>3, <2>1
<1>6. \A k \in p..(i - 1) : z[k + c] = F[k]
  <2>1. \A k \in p..(i - 1) : k \in 1..(i - 1) /\ k \in p..m
    BY <1>0
  <2> QED
    BY <1>1, <1>4, <2>1
<1>7. \A k \in l..n : z[k] = F[k]
  <2> TAKE k \in l..n
  <2> DEFINE j == k - c
  <2>1. j \in p..m /\ j + c = k
    BY <1>0
  <2>2. R[j] = F[k]
    BY <1>2
  <2> HIDE DEF j
  <2>3. z[j + c] = R[j]
    BY <1>4, <2>1
  <2> QED
    BY <2>1, <2>2, <2>3
<1> QED
  BY <1>5, <1>6, <1>7 DEF IsSwap, IsBack, c

LEMMA BackDown ==
    ASSUME NEW F, NEW R, NEW i, NEW l, NEW n, NEW p, IsSpan(i, l, p, n), i < p,
           IsRest(R, F, i, l, n), NEW z, IsBack(z, F, R, i, l, p, n),
           NEW h, h = p + (l - i)
    PROVE  IsSwap(z, F, i, l, h, n)
<1> DEFINE c == l - i
           m == n - c
<1>0. /\ i \in Nat /\ l \in Nat /\ p \in Nat /\ n \in Nat /\ h \in Nat
      /\ 1 <= i /\ i < p /\ i < l /\ l <= n + 1 /\ p <= m + 1
      /\ c \in Nat /\ m \in Int /\ m = n - c /\ c = l - i /\ h = p + c
  BY DEF IsSpan
<1>1. \A k \in 1..(i - 1) : R[k] = F[k]
  BY DEF IsRest
<1>2. \A k \in l..n : R[k - c] = F[k]
  BY DEF IsRest
<1>3. \A k \in 1..(p - 1) : z[k] = R[k]
  BY DEF IsBack
<1>4. \A k \in p..m : z[k + c] = R[k]
  BY DEF IsBack
<1>5. \A k \in i..(l - 1) : z[k + (p - i)] = F[k]
  BY DEF IsBack
<1> HIDE DEF c, m
<1>6. \A k \in 1..(i - 1) : z[k] = F[k]
  <2>1. \A k \in 1..(i - 1) : k \in 1..(p - 1)
    BY <1>0
  <2> QED
    BY <1>1, <1>3, <2>1
<1>7. \A k \in i..(l - 1) : z[k + (h - l)] = F[k]
  <2>1. h - l = p - i
    BY <1>0
  <2> QED
    BY <1>5, <2>1
<1>8. \A k \in l..(h - 1) : z[k + (i - l)] = F[k]
  <2> TAKE k \in l..(h - 1)
  <2> DEFINE j == k - c
  <2>1. j \in 1..(p - 1) /\ k \in l..n /\ k + (i - l) = j
    BY <1>0
  <2>2. R[j] = F[k]
    BY <1>2, <2>1
  <2> HIDE DEF j
  <2>3. z[j] = R[j]
    BY <1>3, <2>1
  <2> QED
    BY <2>1, <2>2, <2>3
<1>9. \A k \in h..n : z[k] = F[k]
  <2> TAKE k \in h..n
  <2> DEFINE j == k - c
  <2>1. j \in p..m /\ j + c = k /\ k \in l..n
    BY <1>0
  <2>2. R[j] = F[k]
    BY <1>2, <2>1
  <2> HIDE DEF j
  <2>3. z[j + c] = R[j]
    BY <1>4, <2>1
  <2> QED
    BY <2>1, <2>2, <2>3
<1> QED
  BY <1>6, <1>7, <1>8, <1>9 DEF IsSwap, IsBack

LEMMA BackSame ==
    ASSUME NEW V, NEW F \in Seq(V), NEW R, NEW i, NEW l, NEW n, OfLength(F, n),
           IsSpan(i, l, i, n),
           IsRest(R, F, i, l, n), NEW z \in Seq(V), IsBack(z, F, R, i, l, i, n)
    PROVE  z = F
<1> DEFINE c == l - i
           m == n - c
<1>0. /\ i \in Nat /\ l \in Nat /\ n \in Nat
      /\ 1 <= i /\ i < l /\ l <= n + 1
      /\ c \in Nat /\ m \in Int /\ m = n - c /\ c = l - i
  BY DEF IsSpan
<1>1. \A k \in 1..(i - 1) : R[k] = F[k]
  BY DEF IsRest
<1>2. \A k \in l..n : R[k - c] = F[k]
  BY DEF IsRest
<1>3. \A k \in 1..(i - 1) : z[k] = R[k]
  BY DEF IsBack
<1>4. \A k \in i..m : z[k + c] = R[k]
  BY DEF IsBack
<1>5. \A k \in i..(l - 1) : z[k + (i - i)] = F[k]
  BY DEF IsBack
<1> HIDE DEF c, m
<1>6. ASSUME NEW k \in 1..n PROVE z[k] = F[k]
  <2>1. CASE k < i
    <3>1. k \in 1..(i - 1)
      BY <1>0, <2>1
    <3> QED
      BY <1>1, <1>3, <3>1
  <2>2. CASE i <= k /\ k < l
    <3>1. k \in i..(l - 1) /\ k + (i - i) = k
      BY <1>0, <2>2
    <3>2. z[k + (i - i)] = F[k]
      BY <1>5, <3>1
    <3> QED
      BY <3>1, <3>2
  <2>3. CASE l <= k
    <3> DEFINE j == k - c
    <3>1. j \in i..m /\ j + c = k /\ k \in l..n
      BY <1>0, <2>3
    <3>2. R[j] = F[k]
      BY <1>2, <3>1
    <3> HIDE DEF j
    <3>3. z[j + c] = R[j]
      BY <1>4, <3>1
    <3> QED
      BY <3>1, <3>2, <3>3
  <2>4. k < i \/ (i <= k /\ k < l) \/ l <= k
    BY <1>0
  <2> QED
    BY <2>1, <2>2, <2>3, <2>4
<1>7. Len(z) = n /\ Len(F) = n
  BY DEF IsBack, OfLength
<1>8. Len(z) = Len(F) /\ \A k \in 1..Len(z) : z[k] = F[k]
  BY <1>6, <1>7
<1> QED
  BY <1>8, SameSequences

-----------------------------------------------------------------------------
(***************************************************************************)
(* The plan of a move: section i, whose tree ends at l, next to section j  *)
(* of its rank, whose tree ends at q.                                      *)
(***************************************************************************)
IsMove(d, n, i, l, j, q) ==
    /\ n \in Nat /\ Counted(d, n)
    /\ i \in 1..n /\ j \in 1..n /\ i # j
    /\ Closer(d.sections, i, l) /\ Closer(d.sections, j, q)
    /\ d.sections[i].level = d.sections[j].level
    /\ \A k \in 1..n : d.sections[k].level \in Nat

LiesApart(i, l, j, q, n) ==
    /\ n \in Nat /\ i \in 1..n /\ j \in 1..n
    /\ l \in (i + 1)..(n + 1) /\ q \in (j + 1)..(n + 1)
    /\ (j < i /\ q <= i) \/ (i < j /\ l <= j)

LEMMA MoveApart ==
    ASSUME NEW d, NEW n, NEW i, NEW l, NEW j, NEW q, IsMove(d, n, i, l, j, q)
    PROVE  LiesApart(i, l, j, q, n)
<1>1. /\ n \in Nat /\ i \in 1..n /\ j \in 1..n /\ i # j
      /\ l \in (i + 1)..(n + 1) /\ q \in (j + 1)..(n + 1)
  BY DEF IsMove, Closer, Counted
<1>2. /\ \A k \in (i + 1)..(l - 1) : d.sections[k].level > d.sections[i].level
      /\ \A k \in (j + 1)..(q - 1) : d.sections[k].level > d.sections[j].level
      /\ d.sections[i].level = d.sections[j].level /\ d.sections[i].level \in Nat
  BY DEF IsMove, Closer
<1>3. j \notin (i + 1)..(l - 1) /\ i \notin (j + 1)..(q - 1)
  BY <1>2
<1> QED
  BY <1>1, <1>3 DEF LiesApart

Origin(k, i, l)    == IF k < i THEN k ELSE k + (l - i)

Remainder(j, i, l) == IF j < i THEN j ELSE j - (l - i)

LEMMA RestAt ==
    ASSUME NEW R, NEW F, NEW i, NEW l, NEW j, NEW q, NEW n, LiesApart(i, l, j, q, n),
           IsRest(R, F, i, l, n), NEW k \in 1..(n - (l - i))
    PROVE  R[k] = F[Origin(k, i, l)] /\ Origin(k, i, l) \in 1..n
<1>0. n \in Nat /\ i \in 1..n /\ l \in (i + 1)..(n + 1)
  BY DEF LiesApart
<1>1. CASE k < i
  <2>1. k \in 1..(i - 1) /\ Origin(k, i, l) = k /\ k \in 1..n
    BY <1>0, <1>1 DEF Origin
  <2> QED
    BY <2>1 DEF IsRest
<1>2. CASE ~(k < i)
  <2> DEFINE o == k + (l - i)
  <2>1. o \in l..n /\ o - (l - i) = k /\ o \in 1..n
    BY <1>0, <1>2
  <2>2. Origin(k, i, l) = o
    BY <1>2 DEF Origin
  <2> HIDE DEF o
  <2>3. R[o - (l - i)] = F[o]
    BY <2>1 DEF IsRest
  <2> QED
    BY <2>1, <2>2, <2>3
<1> QED
  BY <1>1, <1>2

\* Where the sections of j's tree are in the rest.
LEMMA RestOrigin ==
    ASSUME NEW i, NEW l, NEW j, NEW q, NEW n, LiesApart(i, l, j, q, n),
           NEW J, J = Remainder(j, i, l), NEW P, P = J + (q - j),
           NEW m, m = n - (l - i)
    PROVE  /\ m \in Nat /\ J \in 1..m /\ P \in (J + 1)..(m + 1) /\ Origin(J, i, l) = j
           /\ \A k \in 1..m : Origin(k, i, l) \in j..(q - 1) <=> k \in J..(P - 1)
           /\ \A k \in 1..m : k \in (J + 1)..(P - 1) => Origin(k, i, l) \in (j + 1)..(q - 1)
           /\ P <= m => \/ Origin(P, i, l) = q
                        \/ q = i /\ Origin(P, i, l) = l
           /\ P = IF q <= i THEN q ELSE q - (l - i)
           /\ J = IF j <= i THEN j ELSE j - (l - i)
<1>0. /\ n \in Nat /\ i \in 1..n /\ j \in 1..n
      /\ l \in (i + 1)..(n + 1) /\ q \in (j + 1)..(n + 1)
      /\ (j < i /\ q <= i) \/ (i < j /\ l <= j)
  BY DEF LiesApart
<1>1. CASE j < i /\ q <= i
  <2>1. J = j /\ P = q
    BY <1>0, <1>1 DEF Remainder
  <2> QED
    BY <1>0, <1>1, <2>1 DEF Origin
<1>2. CASE i < j /\ l <= j
  <2>1. J = j - (l - i) /\ P = q - (l - i)
    BY <1>0, <1>2 DEF Remainder
  <2> QED
    BY <1>0, <1>2, <2>1 DEF Origin
<1> QED
  BY <1>0, <1>1, <1>2

LEMMA RestSubtree ==
    ASSUME NEW d, IsDocument(d), NEW n, NEW i, NEW l, NEW j, NEW q, IsMove(d, n, i, l, j, q),
           NEW V, NEW R \in Seq(V), IsRest(R, d.sections, i, l, n),
           NEW J, J = Remainder(j, i, l), NEW P, P = J + (q - j)
    PROVE  SubtreeEnd(R, J) = P
<1> DEFINE m == n - (l - i)
           r == R[J].range
           S == {k \in DOMAIN R : StartsInside(R[k], r)}
<1>1. LiesApart(i, l, j, q, n)
  BY MoveApart
<1>2. m = n - (l - i)
  OBVIOUS
<1>3. OfLength(R, m)
  BY DEF IsRest
<1> HIDE DEF m
<1>4. /\ m \in Nat /\ J \in 1..m /\ P \in (J + 1)..(m + 1) /\ Origin(J, i, l) = j
      /\ \A k \in 1..m : Origin(k, i, l) \in j..(q - 1) <=> k \in J..(P - 1)
  BY <1>1, <1>2, RestOrigin
<1>5. \A k \in 1..m : R[k] = d.sections[Origin(k, i, l)] /\ Origin(k, i, l) \in 1..n
  BY <1>1, <1>2, RestAt
<1>6. r = d.sections[j].range
  BY <1>4, <1>5
<1>7. \A o \in 1..n : StartsInside(d.sections[o], d.sections[j].range) <=> o \in j..(q - 1)
  <2>1. /\ {k \in DOMAIN d.sections : StartsInside(d.sections[k], d.sections[j].range)} = j..(q - 1)
        /\ DOMAIN d.sections = 1..n
    <3>1. Counted(d, n) /\ n \in Nat /\ j \in 1..n /\ Closer(d.sections, j, q)
      BY DEF IsMove
    <3> QED
      BY <3>1, SubtreeEndIs DEF IsDocument, Counted
  <2> QED
    BY <2>1
<1> HIDE DEF r
<1>8. DOMAIN R = 1..m
  BY <1>3, <1>4 DEF OfLength
<1>9. S = J..(P - 1)
  <2>1. \A k \in 1..m : StartsInside(R[k], r) <=> k \in J..(P - 1)
    BY <1>4, <1>5, <1>6, <1>7
  <2>2. \A k \in J..(P - 1) : k \in 1..m
    BY <1>4
  <2> QED
    BY <1>8, <2>1, <2>2
<1>10. Cardinality(S) = P - J
  <2> DEFINE h == P - 1
  <2>1. h \in Int /\ J \in Int /\ ~(J > h) /\ h - J + 1 = P - J
    BY <1>4
  <2>2. S = J..h
    BY <1>9
  <2> HIDE DEF h, S
  <2>3. Cardinality(J..h) = IF J > h THEN 0 ELSE h - J + 1
    BY <2>1, FS_Interval
  <2> QED
    BY <2>1, <2>2, <2>3
<1>11. SubtreeEnd(R, J) = J + Cardinality(S)
  BY DEF SubtreeEnd, r
<1> QED
  <2> HIDE DEF S
  <2> QED
    BY <1>4, <1>10, <1>11

-----------------------------------------------------------------------------
Levelled(F, d, n) ==
    /\ OfLength(F, n) /\ DOMAIN F = 1..n
    /\ \A k \in 1..n : F[k].level = d.sections[k].level

LEMMA LevelledEnds ==
    ASSUME NEW d, NEW n \in Nat, Counted(d, n), \A k \in 1..n : d.sections[k].level \in Nat,
           NEW i \in 1..n, NEW l, Closer(d.sections, i, l), NEW F, Levelled(F, d, n)
    PROVE  TreeEnds(F, n, i, l)
<1>1. /\ l \in (i + 1)..(n + 1)
      /\ \A k \in (i + 1)..(l - 1) : d.sections[k].level > d.sections[i].level
      /\ l <= n => d.sections[l].level <= d.sections[i].level
  BY DEF Closer, Counted
<1>2. /\ \A k \in (i + 1)..(l - 1) : k \in 1..n
      /\ l <= n => l \in 1..n
  BY <1>1
<1>3. \A k \in 1..n : F[k].level = d.sections[k].level
  BY DEF Levelled
<1>4. \A k \in (i + 1)..(l - 1) : F[k].level > F[i].level
  BY <1>1, <1>2, <1>3
<1>5. l <= n => ~(F[l].level > F[i].level)
  <2> SUFFICES ASSUME l <= n PROVE ~(F[l].level > F[i].level)
    OBVIOUS
  <2>1. l \in 1..n /\ F[l].level = d.sections[l].level /\ F[i].level = d.sections[i].level
    BY <1>2, <1>3
  <2>2. d.sections[l].level \in Nat /\ d.sections[i].level \in Nat
        /\ d.sections[l].level <= d.sections[i].level
    BY <1>1, <2>1
  <2> QED
    BY <2>1, <2>2
<1> QED
  BY <1>4, <1>5 DEF TreeEnds

\* The tree of the section moved next to ends in the rest where it should.
LEMMA RestEnds ==
    ASSUME NEW d, NEW n, NEW i, NEW l, NEW j, NEW q, IsMove(d, n, i, l, j, q),
           NEW F, Levelled(F, d, n), NEW R, IsRest(R, F, i, l, n),
           NEW J, J = Remainder(j, i, l), NEW P, P = J + (q - j), NEW m, m = n - (l - i)
    PROVE  TreeEnds(R, m, J, P)
<1>1. LiesApart(i, l, j, q, n)
  BY MoveApart
<1>2. /\ m \in Nat /\ J \in 1..m /\ P \in (J + 1)..(m + 1) /\ Origin(J, i, l) = j
      /\ \A k \in 1..m : k \in (J + 1)..(P - 1) => Origin(k, i, l) \in (j + 1)..(q - 1)
      /\ P <= m => \/ Origin(P, i, l) = q
                   \/ q = i /\ Origin(P, i, l) = l
  BY <1>1, RestOrigin
<1>3. \A k \in 1..m : R[k] = F[Origin(k, i, l)] /\ Origin(k, i, l) \in 1..n
  BY <1>1, RestAt
<1>4. /\ n \in Nat /\ Counted(d, n) /\ i \in 1..n /\ j \in 1..n
      /\ Closer(d.sections, i, l) /\ Closer(d.sections, j, q)
      /\ d.sections[i].level = d.sections[j].level
      /\ \A k \in 1..n : d.sections[k].level \in Nat
  BY DEF IsMove
<1>5. TreeEnds(F, n, j, q) /\ TreeEnds(F, n, i, l)
  BY <1>4, LevelledEnds
<1>6. R[J] = F[j] /\ F[i].level = F[j].level
  BY <1>2, <1>3, <1>4 DEF Levelled
<1>7. ASSUME NEW k \in (J + 1)..(P - 1) PROVE R[k].level > R[J].level
  <2>1. k \in 1..m
    BY <1>2
  <2> DEFINE o == Origin(k, i, l)
  <2>2. o \in (j + 1)..(q - 1) /\ R[k] = F[o]
    BY <1>2, <1>3, <2>1
  <2> HIDE DEF o
  <2>3. F[o].level > F[j].level
    BY <1>5, <2>2 DEF TreeEnds
  <2> QED
    BY <1>6, <2>2, <2>3
<1>8. ASSUME P <= m PROVE ~(R[P].level > R[J].level)
  <2>1. P \in 1..m
    BY <1>2, <1>8
  <2>2. R[P] = F[Origin(P, i, l)] /\ Origin(P, i, l) \in 1..n
    BY <1>3, <2>1
  <2>3. CASE Origin(P, i, l) = q
    <3>1. q <= n
      BY <2>2, <2>3
    <3>2. ~(F[q].level > F[j].level)
      BY <1>5, <3>1 DEF TreeEnds
    <3> QED
      BY <1>6, <2>2, <2>3, <3>2
  <2>4. CASE q = i /\ Origin(P, i, l) = l
    <3>1. l <= n
      BY <2>2, <2>4
    <3>2. ~(F[l].level > F[i].level)
      BY <1>5, <3>1 DEF TreeEnds
    <3> QED
      BY <1>6, <2>2, <2>4, <3>2
  <2> QED
    BY <1>2, <1>8, <2>3, <2>4
<1> QED
  BY <1>7, <1>8 DEF TreeEnds

LEMMA WithoutRest ==
    ASSUME NEW V, NEW F \in Seq(V), NEW n \in Nat, OfLength(F, n), DOMAIN F = 1..n,
           NEW i \in 1..n, NEW l \in (i + 1)..(n + 1), TreeEnds(F, n, i, l),
           NEW R, R = O!Without(F, i)
    PROVE  R \in Seq(V) /\ IsRest(R, F, i, l, n)
<1>1. R \in Seq(V) /\ IsGraft(R, F, << >>, i, l, n, 0)
  BY WithoutIs
<1>2. \A k \in l..n : k + (0 - (l - i)) = k - (l - i)
  OBVIOUS
<1>3. \A k \in l..n : R[k - (l - i)] = F[k]
  <2> TAKE k \in l..n
  <2>1. R[k + (0 - (l - i))] = F[k]
    BY <1>1 DEF IsGraft
  <2> QED
    BY <1>2, <2>1
<1>4. n + (0 - (l - i)) = n - (l - i)
  OBVIOUS
<1>5. OfLength(R, n - (l - i))
  BY <1>1, <1>4 DEF IsGraft
<1> QED
  BY <1>1, <1>3, <1>5 DEF IsGraft, IsRest

(***************************************************************************)
(* The order a move plans is one that the outline allows.                  *)
(***************************************************************************)
LEMMA MoveIsEdit ==
    ASSUME NEW d, NEW n, NEW i, NEW l, NEW j, NEW q, IsMove(d, n, i, l, j, q),
           NEW V, NEW F \in Seq(V), Levelled(F, d, n),
           NEW J, J = Remainder(j, i, l), NEW P, P = J + (q - j), NEW after \in BOOLEAN,
           NEW p, p = IF after THEN P ELSE J, NEW z, Reinserted(z, F, i, p)
    PROVE  z \in O!Edits(F, i)
<1> DEFINE m == n - (l - i)
           R == O!Without(F, i)
<1>1. LiesApart(i, l, j, q, n) /\ R = O!Without(F, i) /\ m = n - (l - i)
  BY MoveApart
<1>2. /\ n \in Nat /\ Counted(d, n) /\ i \in 1..n /\ j \in 1..n
      /\ Closer(d.sections, i, l) /\ Closer(d.sections, j, q)
      /\ d.sections[i].level = d.sections[j].level
      /\ \A k \in 1..n : d.sections[k].level \in Nat
      /\ OfLength(F, n) /\ DOMAIN F = 1..n
      /\ l \in (i + 1)..(n + 1)
  BY <1>1 DEF IsMove, Levelled, LiesApart
<1> HIDE DEF m, R
<1>3. TreeEnds(F, n, i, l)
  BY <1>2, LevelledEnds
<1>4. O!Subtree(F, i) = i..(l - 1) /\ O!After(F, i) = l
  BY <1>2, <1>3, AfterOf
<1>5. R \in Seq(V) /\ IsRest(R, F, i, l, n)
  BY <1>1, <1>2, <1>3, WithoutRest
<1>6. m \in Nat /\ J \in 1..m /\ P \in (J + 1)..(m + 1)
  BY <1>1, RestOrigin
<1>7. TreeEnds(R, m, J, P)
  BY <1>1, <1>5, RestEnds
<1>8. OfLength(R, m) /\ DOMAIN R = 1..m
  <2>1. OfLength(R, m)
    BY <1>1, <1>5 DEF IsRest
  <2> QED
    BY <1>5, <1>6, <2>1 DEF OfLength
<1>9. O!After(R, J) = P
  BY <1>6, <1>7, <1>8, AfterOf
<1>10. O!Remaining(F, i, j) = J
  BY <1>4 DEF O!Remaining, Remainder
<1>11. j \in O!Anchors(F, i)
  <2>1. j \notin i..(l - 1)
    BY <1>1 DEF LiesApart
  <2>2. F[j].level = F[i].level
    BY <1>2 DEF Levelled
  <2> QED
    BY <1>2, <1>4, <2>1, <2>2 DEF O!Anchors
<1>12. z = O!Insert(R, p, O!Tree(F, i))
  BY <1>1 DEF Reinserted
<1>13. CASE after
  <2>1. z = O!Insert(R, O!After(R, O!Remaining(F, i, j)), O!Tree(F, i))
    BY <1>9, <1>10, <1>12, <1>13
  <2>2. z \in O!MoveAfter(F, i)
    BY <1>1, <1>11, <2>1, Zenon DEF O!MoveAfter
  <2> QED
    BY <2>2 DEF O!Edits
<1>14. CASE ~after
  <2>1. z = O!Insert(O!Without(F, i), O!Remaining(F, i, j), O!Tree(F, i))
    BY <1>1, <1>10, <1>12, <1>14
  <2>2. z \in O!MoveBefore(F, i)
    BY <1>11, <2>1, Zenon DEF O!MoveBefore
  <2> QED
    BY <2>2 DEF O!Edits
<1> QED
  BY <1>13, <1>14

-----------------------------------------------------------------------------
LEMMA SectionsSeq ==
    ASSUME NEW d, IsDocument(d), NEW n \in Nat, Counted(d, n)
    PROVE  /\ \E V : d.sections \in Seq(V)
           /\ OfLength(d.sections, n) /\ DOMAIN d.sections = 1..n
           /\ \A k \in 1..n : d.sections[k].level \in Nat
<1>1. Len(d.sections) = n
  BY DEF Counted
<1>2. DOMAIN d.sections = 1..n /\ d.sections = [k \in 1..n |-> d.sections[k]]
  BY <1>1 DEF IsDocument
<1>3. d.sections \in Seq({d.sections[k] : k \in 1..n})
  <2> DEFINE V == {d.sections[k] : k \in 1..n}
             f == d.sections
  <2>1. \A k \in 1..n : f[k] \in V
    OBVIOUS
  <2>2. f = [k \in 1..n |-> f[k]]
    BY <1>2
  <2> HIDE DEF V, f
  <2>3. f \in [1..n -> V]
    BY <2>1, <2>2
  <2>4. f \in Seq(V)
    BY <2>3
  <2> QED
    BY <2>4 DEF V, f
<1>4. \A k \in 1..n : d.sections[k].level \in Nat
  <2> TAKE k \in 1..n
  <2>1. SectionLies(d, k)
    BY <1>1 DEF IsDocument
  <2> QED
    BY <2>1 DEF SectionLies
<1> QED
  BY <1>1, <1>2, <1>3, <1>4 DEF OfLength

\* What planSectionMove comes to.
IsPlan(d, plan, n, i, l, j, q, after) ==
    /\ IsMove(d, n, i, l, j, q)
    /\ plan.moved = IF after THEN Remainder(j, i, l) + (q - j) ELSE Remainder(j, i, l)
    /\ plan.at = IF after THEN StartOf(d, q) ELSE StartOf(d, j)
    /\ Reinserted(plan.expected, d.sections, i, plan.moved)
    /\ SubtreeEnd(d.sections, i) = l
    /\ d.sections[i].range = [start |-> StartOf(d, i), end |-> StartOf(d, l)]

LEMMA MovePlanIs ==
    ASSUME WellHeld, NEW n \in Nat, Counted(doc, n), NEW i \in Targets, NEW j \in Targets, i # j,
           sections[i].level = sections[j].level, NEW after \in BOOLEAN,
           NEW plan, plan = MovePlan(i, j, after)
    PROVE  \E l, q : IsPlan(doc, plan, n, i, l, j, q, after)
<1>1. IsDocument(doc) /\ i \in 1..n /\ j \in 1..n
  BY DocumentIs DEF Counted
<1>2. PICK l \in (i + 1)..(n + 1) :
              /\ Closer(doc.sections, i, l)
              /\ SubtreeEnd(doc.sections, i) = l
              /\ doc.sections[i].range.start = StartOf(doc, i)
              /\ doc.sections[i].range.end = StartOf(doc, l)
  BY <1>1, TreeAt
<1>3. PICK q \in (j + 1)..(n + 1) :
              /\ Closer(doc.sections, j, q)
              /\ SubtreeEnd(doc.sections, j) = q
              /\ doc.sections[j].range.start = StartOf(doc, j)
              /\ doc.sections[j].range.end = StartOf(doc, q)
  BY <1>1, TreeAt
<1> DEFINE F == doc.sections
           R == O!Without(F, i)
           J == Remainder(j, i, l)
           P == J + (q - j)
<1>4. /\ \E V : F \in Seq(V)
      /\ OfLength(F, n) /\ DOMAIN F = 1..n
      /\ \A k \in 1..n : F[k].level \in Nat
  BY <1>1, SectionsSeq
<1>5. PICK V : F \in Seq(V)
  BY <1>4
<1>6. IsMove(doc, n, i, l, j, q)
  BY <1>1, <1>2, <1>3, <1>4 DEF IsMove, sections
<1>7. Levelled(F, doc, n)
  BY <1>4 DEF Levelled
<1>8. F = doc.sections /\ R = O!Without(F, i) /\ J = Remainder(j, i, l) /\ P = J + (q - j)
  OBVIOUS
<1> HIDE DEF F, R, J, P
<1>9. TreeEnds(F, n, i, l)
  BY <1>1, <1>2, <1>4, <1>7, <1>8, LevelledEnds
<1>10. O!After(F, i) = l
  BY <1>1, <1>2, <1>4, <1>9, AfterOf
<1>11. R \in Seq(V) /\ IsRest(R, F, i, l, n)
  BY <1>1, <1>2, <1>4, <1>5, <1>8, <1>9, WithoutRest
<1>12. SubtreeEnd(R, J) = P
  BY <1>1, <1>6, <1>8, <1>11, RestSubtree
<1>13. R = SubSeq(F, 1, i - 1) \o SubSeq(F, l, Len(F))
  BY <1>8, <1>10 DEF O!Without, O!Upto, O!From
<1>14. O!Tree(F, i) = SubSeq(F, i, l - 1)
  BY <1>10 DEF O!Tree
<1> DEFINE T == SubSeq(F, i, l - 1)
<1>15. Len(T) = l - i
  <2>1. O!Tree(F, i) = T
    BY <1>14
  <2> HIDE DEF T
  <2>2. OfLength(T, l - i)
    BY <1>1, <1>2, <1>4, <1>5, <1>9, <2>1, TreeIs
  <2> QED
    BY <2>2 DEF OfLength
<1>16. J = IF j < i THEN j ELSE j - Len(T)
  BY <1>8, <1>15 DEF Remainder
<1> DEFINE p == IF after THEN P ELSE J
<1>17. /\ plan.moved = p
       /\ plan.expected = SubSeq(R, 1, p - 1) \o T \o SubSeq(R, p, Len(R))
       /\ plan.at = IF after THEN F[j].range.end ELSE F[j].range.start
  <2>1. SubtreeEnd(F, i) = l
    BY <1>2, <1>8
  <2>2. plan = MovePlan(i, j, after)
    OBVIOUS
  <2> DEFINE rest == SubSeq(F, 1, i - 1) \o SubSeq(F, l, Len(F))
             anchorIndex == IF j < i THEN j ELSE j - Len(T)
             index == IF after THEN SubtreeEnd(rest, anchorIndex) ELSE anchorIndex
  <2>3. /\ plan.moved = index
        /\ plan.expected = SubSeq(rest, 1, index - 1) \o T \o SubSeq(rest, index, Len(rest))
        /\ plan.at = IF after THEN F[j].range.end ELSE F[j].range.start
    <3> DEFINE e == SubtreeEnd(F, i)
               U == SubSeq(F, i, e - 1)
               r == SubSeq(F, 1, i - 1) \o SubSeq(F, e, Len(F))
               a == IF j < i THEN j ELSE j - Len(U)
               x == IF after THEN SubtreeEnd(r, a) ELSE a
    <3>1. plan = [expected |-> SubSeq(r, 1, x - 1) \o U \o SubSeq(r, x, Len(r)),
                  moved    |-> x,
                  anchor   |-> IF x <= a THEN a + Len(U) ELSE a,
                  at       |-> IF after THEN F[j].range.end ELSE F[j].range.start]
      BY <2>2 DEF MovePlan, sections, F
    <3>2. e = l
      BY <2>1
    <3>3. U = T /\ r = rest
      BY <3>2
    <3> HIDE DEF U, r, T, rest, e
    <3>4. a = anchorIndex
      BY <3>3
    <3> HIDE DEF a, anchorIndex
    <3>5. x = index
      BY <3>3, <3>4
    <3> HIDE DEF x, index
    <3> DEFINE c == SubSeq(r, 1, x - 1) \o U \o SubSeq(r, x, Len(r))
               f == IF after THEN F[j].range.end ELSE F[j].range.start
               g == IF x <= a THEN a + Len(U) ELSE a
    <3>6. plan = [expected |-> c, moved |-> x, anchor |-> g, at |-> f]
      BY <3>1
    <3> HIDE DEF c, f, g
    <3>7. plan.expected = c /\ plan.moved = x /\ plan.at = f
      BY <3>6
    <3>8. c = SubSeq(rest, 1, index - 1) \o T \o SubSeq(rest, index, Len(rest))
      BY <3>3, <3>5 DEF c
    <3> QED
      BY <3>5, <3>7, <3>8 DEF f
  <2>4. rest = R /\ anchorIndex = J
    BY <1>13, <1>16
  <2> HIDE DEF rest, anchorIndex, T
  <2>5. index = p
    BY <1>12, <2>4
  <2> HIDE DEF index, p
  <2> QED
    BY <2>3, <2>4, <2>5
<1> HIDE DEF T
<1>18. Reinserted(plan.expected, F, i, plan.moved)
  <2>1. plan.expected = O!Insert(R, p, T)
    BY <1>17 DEF O!Insert, O!Upto, O!From
  <2>2. T = O!Tree(F, i)
    BY <1>14 DEF T
  <2> HIDE DEF p
  <2> QED
    BY <1>8, <1>17, <2>1, <2>2 DEF Reinserted
<1>19. F[i].range = [start |-> StartOf(doc, i), end |-> StartOf(doc, l)]
  BY <1>1, <1>2, <1>8, SubtreeEndIs
<1>20. plan.at = IF after THEN StartOf(doc, q) ELSE StartOf(doc, j)
  BY <1>3, <1>8, <1>17
<1>21. IsPlan(doc, plan, n, i, l, j, q, after)
  BY <1>2, <1>6, <1>8, <1>17, <1>18, <1>19, <1>20 DEF IsPlan
<1> QED
  BY <1>21

-----------------------------------------------------------------------------
(***************************************************************************)
(* The text of sections f to g - 1 and that of sections g to h - 1         *)
(* exchanged, and as many headings in the result.                          *)
(***************************************************************************)
Exchanged(d, m, w, e, v, n, f, g, h, a, b, c) ==
    /\ IsDocument(d) /\ IsDocument(e)
    /\ w \in Nat /\ n \in Nat /\ HasRun(d, m, w, n) /\ HasRun(e, v, w, n)
    /\ IsCuts(f, g, h, n)
    /\ StartIs(d, f, a) /\ StartIs(d, g, b) /\ StartIs(d, h, c)
    /\ IsExchange(e.source, d.source, a, b, c, w)

ExchangedShapes(d, e, n, f, g, h) ==
    /\ \A k \in f..(g - 1) : SameShape(d, e, k, k + (h - g))
    /\ \A k \in g..(h - 1) : SameShape(d, e, k, k + (f - g))
    /\ \A k \in h..n : SameShape(d, e, k, k)

CutsLie(d, m, w, n, f, g, h, a, b, c) ==
    /\ a \in Nat /\ b \in Nat /\ c \in Nat /\ a < b /\ b < c /\ c <= w
    /\ StartsLine(d.source, a) /\ StartsLine(d.source, b)
    /\ m[a].open # "fence" /\ m[b].open # "fence"
    /\ Counts(m[a].heads, f) /\ Counts(m[b].heads, g) /\ Counts(m[c].heads, h)
    /\ h <= n => StartsLine(d.source, c)
    /\ h = n + 1 => c = w

LEMMA CutsAre ==
    ASSUME NEW d, NEW m, NEW w, NEW e, NEW v, NEW n, NEW f, NEW g, NEW h, NEW a, NEW b, NEW c,
           Exchanged(d, m, w, e, v, n, f, g, h, a, b, c)
    PROVE  CutsLie(d, m, w, n, f, g, h, a, b, c)
<1>0. /\ IsDocument(d) /\ w \in Nat /\ n \in Nat /\ HasRun(d, m, w, n)
      /\ f \in Nat /\ g \in Nat /\ h \in Nat /\ 1 <= f /\ f < g /\ g < h /\ h <= n + 1
      /\ StartIs(d, f, a) /\ StartIs(d, g, b) /\ StartIs(d, h, c)
  BY DEF Exchanged, IsCuts
<1>1. Counted(d, n) /\ OfLength(d.source, w)
  BY <1>0 DEF HasRun
<1>2. /\ f \in 1..(n + 1) /\ g \in 1..(n + 1) /\ h \in 1..(n + 1) /\ f <= n /\ g <= n
      /\ f \in 1..n /\ g \in (f + 1)..(n + 1) /\ g \in 1..n /\ h \in (g + 1)..(n + 1)
  BY <1>0
<1>3. a \in 0..w /\ Counts(m[a].heads, f) /\ StartsLine(d.source, a) /\ m[a].open # "fence"
  BY <1>0, <1>2, CountUpto
<1>4. b \in 0..w /\ Counts(m[b].heads, g) /\ StartsLine(d.source, b) /\ m[b].open # "fence"
  BY <1>0, <1>2, CountUpto
<1>5. c \in 0..w /\ Counts(m[c].heads, h) /\ (h <= n => StartsLine(d.source, c))
  BY <1>0, <1>2, CountUpto
<1>6. a < b
  <2>1. /\ d.sections[f].heading.end <= StartOf(d, g)
        /\ StartOf(d, f) = d.sections[f].heading.start
        /\ d.sections[f].heading.start < d.sections[f].heading.end
        /\ d.sections[f].heading.start \in Nat /\ d.sections[f].heading.end \in Nat
    BY <1>0, <1>1, <1>2, HeadBeforeStart
  <2> QED
    BY <1>0, <1>4, <2>1 DEF StartIs
<1>7. b < c
  <2>1. /\ d.sections[g].heading.end <= StartOf(d, h)
        /\ StartOf(d, g) = d.sections[g].heading.start
        /\ d.sections[g].heading.start < d.sections[g].heading.end
        /\ d.sections[g].heading.start \in Nat /\ d.sections[g].heading.end \in Nat
    BY <1>0, <1>1, <1>2, HeadBeforeStart
  <2> QED
    BY <1>0, <1>5, <2>1 DEF StartIs
<1>8. h = n + 1 => c = w
  <2>1. n = Len(d.sections) /\ Len(d.source) = w
    BY <1>1 DEF Counted, OfLength
  <2>2. h = n + 1 => StartOf(d, h) = Len(d.source)
    BY <1>0, <2>1 DEF StartOf
  <2> QED
    BY <1>0, <2>1, <2>2 DEF StartIs
<1> QED
  BY <1>3, <1>4, <1>5, <1>6, <1>7, <1>8 DEF CutsLie

(***************************************************************************)
(* In front of what is exchanged nothing changes.                          *)
(***************************************************************************)
LEMMA RegionBefore ==
    ASSUME NEW d, NEW m, NEW w, NEW e, NEW v, NEW n, NEW f, NEW g, NEW h, NEW a, NEW b, NEW c,
           Exchanged(d, m, w, e, v, n, f, g, h, a, b, c)
    PROVE  /\ Region(d, e, 1, f, 0, 0)
           /\ v[a].open = m[a].open /\ StartsLine(e.source, a) /\ Counts(v[a].heads, f)
<1>0. /\ w \in Nat /\ n \in Nat /\ HasRun(d, m, w, n) /\ HasRun(e, v, w, n)
      /\ f \in Nat /\ 1 <= f /\ f <= n
      /\ IsExchange(e.source, d.source, a, b, c, w)
  BY DEF Exchanged, IsCuts
<1>1. /\ IsText(d.source) /\ IsRun(d.source, m) /\ OfLength(d.source, w)
      /\ IsText(e.source) /\ IsRun(e.source, v) /\ OfLength(e.source, w)
  BY <1>0 DEF HasRun
<1>2. /\ a \in 0..w /\ a <= w /\ StartsLine(d.source, a) /\ Counts(m[a].heads, f)
  <2>1. CutsLie(d, m, w, n, f, g, h, a, b, c)
    BY CutsAre
  <2> QED
    BY <1>0, <2>1 DEF CutsLie
<1>3. \A j \in 1..a : e.source[j] = d.source[j]
  <2>1. SameText(d.source, e.source, 0, a, 0)
    BY <1>0 DEF IsExchange
  <2>2. \A j \in 1..a : j \in (0 + 1)..a /\ j + 0 = j
    BY <1>2
  <2> QED
    BY <2>1, <2>2 DEF SameText
<1>4. /\ v[a].open = m[a].open
      /\ \E i \in Nat : /\ OfLength(m[a].heads, i) /\ OfLength(v[a].heads, i)
                        /\ \A k \in 1..i : v[a].heads[k] = HeadMoved(m[a].heads[k], 0)
      /\ StartsLine(e.source, a)
  BY <1>0, <1>1, <1>2, <1>3, SameBefore
<1>5. PICK i \in Nat : /\ OfLength(m[a].heads, i) /\ OfLength(v[a].heads, i)
                       /\ \A k \in 1..i : v[a].heads[k] = HeadMoved(m[a].heads[k], 0)
  BY <1>4
<1>6. i = f - 1
  <2>1. PICK j \in Nat : j = f - 1 /\ OfLength(m[a].heads, j)
    BY <1>2 DEF Counts
  <2> QED
    BY <1>5, <2>1 DEF OfLength
<1>7. Counts(v[a].heads, f)
  BY <1>5, <1>6 DEF Counts
<1>8. Stays(m, w, n, a, i)
  <2>1. w \in Nat /\ n \in Nat /\ HasRun(d, m, w, n) /\ a \in 0..w /\ i \in Nat /\ OfLength(m[a].heads, i)
    BY <1>0, <1>2, <1>5
  <2> QED
    BY <2>1, FoundKept
<1>9. Stays(v, w, n, a, i)
  <2>1. w \in Nat /\ n \in Nat /\ HasRun(e, v, w, n) /\ a \in 0..w /\ i \in Nat /\ OfLength(v[a].heads, i)
    BY <1>0, <1>2, <1>5
  <2> QED
    BY <2>1, FoundKept
<1>10. ASSUME NEW k \in 1..(f - 1) PROVE Synced(d, k, e, k + 0, 0)
  <2>0. /\ i <= n /\ \A j \in 1..i : m[w].heads[j] = m[a].heads[j]
        /\ \A j \in 1..i : v[w].heads[j] = v[a].heads[j]
    BY <1>8, <1>9 DEF Stays
  <2>1. k \in 1..i /\ k \in 1..n /\ k + 0 = k
    BY <1>0, <1>5, <1>6, <2>0
  <2> DEFINE x == m[w].heads[k]
             y == v[w].heads[k]
  <2>2. y = HeadMoved(x, 0)
    BY <1>5, <2>0, <2>1
  <2>3. IsHead(d, k, x) /\ IsHead(e, k, y)
    BY <1>0, <2>1 DEF HasRun
  <2> HIDE DEF x, y
  <2>4. Synced(d, k, e, k, 0)
    BY <2>2, <2>3, HeadsSame
  <2> QED
    BY <2>1, <2>4
<1>11. Region(d, e, 1, f, 0, 0)
  BY <1>10 DEF Region
<1> QED
  BY <1>4, <1>7, <1>11

-----------------------------------------------------------------------------
(***************************************************************************)
(* A region of sections carried x further in a document of the same length *)
(* with as many headings, its first heading in place y there.              *)
(***************************************************************************)
Pin(d, m, w, e, v, n, k, l, y, t, p, q, x, r) ==
    /\ IsDocument(d) /\ w \in Nat /\ n \in Nat /\ HasRun(d, m, w, n) /\ HasRun(e, v, w, n)
    /\ k \in 1..n /\ l \in (k + 1)..(n + 1) /\ y \in 1..n /\ t \in Int /\ y = k + t
    /\ StartIs(d, k, p) /\ StartIs(d, l, q)
    /\ x \in Int /\ Carried(d, e, w, w, p, q, x) /\ r = p + x
    /\ SameShape(d, e, k, y)

LEMMA PinRegion ==
    ASSUME NEW d, NEW m, NEW w, NEW e, NEW v, NEW n, NEW k, NEW l, NEW y, NEW t, NEW p, NEW q,
           NEW x, NEW r, Pin(d, m, w, e, v, n, k, l, y, t, p, q, x, r), BeginsAt(e, y, r)
    PROVE  IsRegion(d, m, e, v, k, l, t, x, q)
<1>1. /\ IsDocument(d) /\ w \in Nat /\ n \in Nat /\ HasRun(d, m, w, n) /\ HasRun(e, v, w, n)
      /\ k \in 1..n /\ l \in (k + 1)..(n + 1) /\ y \in 1..n /\ t \in Int /\ y = k + t
      /\ p = StartOf(d, k) /\ q = StartOf(d, l)
      /\ x \in Int /\ Carried(d, e, w, w, p, q, x) /\ r = p + x
      /\ SameShape(d, e, k, y) /\ BeginsAt(e, y, r)
  BY DEF Pin, StartIs
<1> QED
  BY <1>1, PinnedRegion

LEMMA PinSeam ==
    ASSUME NEW d, NEW m, NEW w, NEW e, NEW v, NEW n, NEW k, NEW l, NEW y, NEW t, NEW p, NEW q,
           NEW x, NEW r, Pin(d, m, w, e, v, n, k, l, y, t, p, q, x, r), ~UnderlineTitles(d),
           StartsLine(e.source, r), v[r].open # "fence", Counts(v[r].heads, y),
           NEW o, o = l + t, NEW i, i = q + x, Counts(v[i].heads, o)
    PROVE  BeginsAt(e, y, r)
<1>1. /\ IsDocument(d) /\ w \in Nat /\ n \in Nat /\ HasRun(d, m, w, n) /\ HasRun(e, v, w, n)
      /\ k \in 1..n /\ l \in (k + 1)..(n + 1) /\ y \in 1..n /\ t \in Int /\ y = k + t
      /\ StartIs(d, k, p) /\ StartIs(d, l, q)
      /\ x \in Int /\ Carried(d, e, w, w, p, q, x) /\ r = p + x
      /\ SameShape(d, e, k, y) /\ Counts(v[q + x].heads, o)
  BY DEF Pin
<1> QED
  BY <1>1, SeamBegins

LEMMA PinTail ==
    ASSUME NEW d, NEW m, NEW w, NEW e, NEW v, NEW n, NEW f, NEW g, NEW h, NEW a, NEW b, NEW c,
           Exchanged(d, m, w, e, v, n, f, g, h, a, b, c), ExchangedShapes(d, e, n, f, g, h),
           h <= n
    PROVE  Pin(d, m, w, e, v, n, h, n + 1, h, 0, c, w, 0, c)
<1>0. /\ IsDocument(d) /\ w \in Nat /\ n \in Nat /\ HasRun(d, m, w, n) /\ HasRun(e, v, w, n)
      /\ f \in Nat /\ g \in Nat /\ h \in Nat /\ 1 <= f /\ f < g /\ g < h /\ h <= n + 1
      /\ StartIs(d, h, c) /\ IsExchange(e.source, d.source, a, b, c, w)
  BY DEF Exchanged, IsCuts
<1>1. CutsLie(d, m, w, n, f, g, h, a, b, c)
  BY CutsAre
<1>2. c \in Nat /\ c <= w
  BY <1>1 DEF CutsLie
<1>3. /\ h \in 1..n /\ n + 1 \in (h + 1)..(n + 1) /\ 0 \in Int /\ h = h + 0 /\ c = c + 0
      /\ 0 <= c + 0 /\ w + 0 <= w /\ w <= w /\ w + 0 = w /\ h \in h..n
  BY <1>0, <1>2
<1>4. StartIs(d, n + 1, w)
  <2>1. n = Len(d.sections) /\ Len(d.source) = w
    BY <1>0 DEF HasRun, Counted, OfLength
  <2>2. StartOf(d, n + 1) = Len(d.source)
    BY <1>0, <2>1 DEF StartOf
  <2> QED
    BY <2>1, <2>2 DEF StartIs
<1>5. SameText(d.source, e.source, c, w, 0)
  BY <1>0 DEF IsExchange
<1>6. Carried(d, e, w, w, c, w, 0)
  BY <1>0, <1>2, <1>3, <1>5 DEF Carried
<1>7. SameShape(d, e, h, h)
  BY <1>3 DEF ExchangedShapes
<1> QED
  BY <1>0, <1>3, <1>4, <1>6, <1>7 DEF Pin

LEMMA PinFirst ==
    ASSUME NEW d, NEW m, NEW w, NEW e, NEW v, NEW n, NEW f, NEW g, NEW h, NEW a, NEW b, NEW c,
           Exchanged(d, m, w, e, v, n, f, g, h, a, b, c), ExchangedShapes(d, e, n, f, g, h),
           NEW t, t = h - g, NEW y, y = f + t, NEW x, x = c - b, NEW r, r = a + x
    PROVE  Pin(d, m, w, e, v, n, f, g, y, t, a, b, x, r)
<1>0. /\ IsDocument(d) /\ w \in Nat /\ n \in Nat /\ HasRun(d, m, w, n) /\ HasRun(e, v, w, n)
      /\ f \in Nat /\ g \in Nat /\ h \in Nat /\ 1 <= f /\ f < g /\ g < h /\ h <= n + 1
      /\ StartIs(d, f, a) /\ StartIs(d, g, b) /\ IsExchange(e.source, d.source, a, b, c, w)
  BY DEF Exchanged, IsCuts
<1>1. CutsLie(d, m, w, n, f, g, h, a, b, c)
  BY CutsAre
<1>2. /\ a \in Nat /\ b \in Nat /\ c \in Nat /\ a < b /\ b < c /\ c <= w
      /\ StartsLine(d.source, b)
  BY <1>1 DEF CutsLie
<1>3. /\ f \in 1..n /\ g \in (f + 1)..(n + 1) /\ t \in Int /\ y \in 1..n
      /\ x \in Int /\ 0 <= a + x /\ b + x <= w /\ a <= b /\ b <= w /\ b # 0 /\ f \in f..(g - 1)
  BY <1>0, <1>2
<1>4. d.source[b] = "nl"
  BY <1>2, <1>3 DEF StartsLine
<1>5. SameText(d.source, e.source, a, b, x)
  BY <1>0 DEF IsExchange
<1>6. Carried(d, e, w, w, a, b, x)
  BY <1>2, <1>3, <1>4, <1>5 DEF Carried
<1>7. SameShape(d, e, f, y)
  BY <1>3 DEF ExchangedShapes
<1> QED
  BY <1>0, <1>3, <1>6, <1>7 DEF Pin

LEMMA PinSecond ==
    ASSUME NEW d, NEW m, NEW w, NEW e, NEW v, NEW n, NEW f, NEW g, NEW h, NEW a, NEW b, NEW c,
           Exchanged(d, m, w, e, v, n, f, g, h, a, b, c), ExchangedShapes(d, e, n, f, g, h),
           d.source[c] = "nl", NEW t, t = f - g, NEW x, x = a - b
    PROVE  Pin(d, m, w, e, v, n, g, h, f, t, b, c, x, a)
<1>0. /\ IsDocument(d) /\ w \in Nat /\ n \in Nat /\ HasRun(d, m, w, n) /\ HasRun(e, v, w, n)
      /\ f \in Nat /\ g \in Nat /\ h \in Nat /\ 1 <= f /\ f < g /\ g < h /\ h <= n + 1
      /\ StartIs(d, g, b) /\ StartIs(d, h, c) /\ IsExchange(e.source, d.source, a, b, c, w)
  BY DEF Exchanged, IsCuts
<1>1. CutsLie(d, m, w, n, f, g, h, a, b, c)
  BY CutsAre
<1>2. a \in Nat /\ b \in Nat /\ c \in Nat /\ a < b /\ b < c /\ c <= w
  BY <1>1 DEF CutsLie
<1>3. /\ g \in 1..n /\ h \in (g + 1)..(n + 1) /\ t \in Int /\ f = g + t /\ f \in 1..n
      /\ x \in Int /\ a = b + x /\ 0 <= b + x /\ c + x <= w /\ b <= c /\ g \in g..(h - 1)
  BY <1>0, <1>2
<1>5. SameText(d.source, e.source, b, c, x)
  BY <1>0 DEF IsExchange
<1>6. Carried(d, e, w, w, b, c, x)
  BY <1>2, <1>3, <1>5 DEF Carried
<1>7. SameShape(d, e, g, f)
  <2>1. SameShape(d, e, g, g + (f - g))
    BY <1>3 DEF ExchangedShapes
  <2> QED
    BY <1>3, <2>1
<1> QED
  BY <1>0, <1>3, <1>6, <1>7 DEF Pin

AllRegions(d, e, n, f, g, h, a, b, c) ==
    /\ Region(d, e, 1, f, 0, 0)
    /\ Region(d, e, f, g, h - g, c - b)
    /\ Region(d, e, g, h, f - g, a - b)
    /\ Region(d, e, h, n + 1, 0, 0)

\* What lies behind the exchanged sections stays, once its first heading does.
LEMMA RegionBehind ==
    ASSUME NEW d, NEW m, NEW w, NEW e, NEW v, NEW n, NEW f, NEW g, NEW h, NEW a, NEW b, NEW c,
           Exchanged(d, m, w, e, v, n, f, g, h, a, b, c), ExchangedShapes(d, e, n, f, g, h),
           h <= n => BeginsAt(e, h, c)
    PROVE  Region(d, e, h, n + 1, 0, 0)
<1>1. CASE h <= n
  <2>1. Pin(d, m, w, e, v, n, h, n + 1, h, 0, c, w, 0, c)
    BY <1>1, PinTail
  <2>2. IsRegion(d, m, e, v, h, n + 1, 0, 0, w)
    BY <1>1, <2>1, PinRegion
  <2> QED
    BY <2>2 DEF IsRegion
<1>2. CASE ~(h <= n)
  <2>1. h \in Nat /\ n \in Nat /\ h = n + 1
    BY <1>2 DEF Exchanged, IsCuts
  <2>2. h..((n + 1) - 1) = {}
    BY <2>1
  <2> QED
    BY <2>2 DEF Region
<1> QED
  BY <1>1, <1>2

-----------------------------------------------------------------------------
\* The parser's state behind a region that was carried.
LEMMA RegionEnd ==
    ASSUME NEW d, NEW m, NEW e, NEW v, NEW k, NEW l, NEW t, NEW x, NEW q,
           IsRegion(d, m, e, v, k, l, t, x, q), NEW i, i = q + x, NEW h, h = l + t
    PROVE  v[i].open = m[q].open /\ Counts(v[i].heads, h)
<1>1. /\ v[q + x].open = m[q].open
      /\ \E c \in Nat : c = (l + t) - 1 /\ OfLength(v[q + x].heads, c)
  BY DEF IsRegion, SameState
<1>2. \E c \in Nat : c = h - 1 /\ OfLength(v[i].heads, c)
  BY <1>1
<1> QED
  BY <1>1, <1>2 DEF Counts

(***************************************************************************)
(* Later sections moved in front: when the moved sections and the first of *)
(* those they passed are found again, so are all.                          *)
(***************************************************************************)
LEMMA RegionsUp ==
    ASSUME NEW d, NEW m, NEW w, NEW e, NEW v, NEW n, NEW f, NEW g, NEW h, NEW a, NEW b, NEW c,
           Exchanged(d, m, w, e, v, n, f, g, h, a, b, c), ExchangedShapes(d, e, n, f, g, h),
           ~UnderlineTitles(d), Region(d, e, g, h, f - g, a - b),
           NEW y, y = f + (h - g), NEW r, r = a + (c - b), BeginsAt(e, y, r)
    PROVE  AllRegions(d, e, n, f, g, h, a, b, c)
<1>0. /\ w \in Nat /\ n \in Nat /\ HasRun(d, m, w, n) /\ HasRun(e, v, w, n)
      /\ f \in Nat /\ g \in Nat /\ h \in Nat /\ 1 <= f /\ f < g /\ g < h /\ h <= n + 1
      /\ IsExchange(e.source, d.source, a, b, c, w)
  BY DEF Exchanged, IsCuts
<1>1. CutsLie(d, m, w, n, f, g, h, a, b, c)
  BY CutsAre
<1>2. /\ a \in Nat /\ b \in Nat /\ c \in Nat /\ a < b /\ b < c /\ c <= w
      /\ StartsLine(d.source, b) /\ m[b].open # "fence"
  BY <1>1 DEF CutsLie
<1>3. Region(d, e, 1, f, 0, 0)
  BY RegionBefore
<1> DEFINE t == h - g
           x == c - b
<1>4. Pin(d, m, w, e, v, n, f, g, y, t, a, b, x, r)
  BY PinFirst
<1>5. IsRegion(d, m, e, v, f, g, t, x, b)
  <2> HIDE DEF t, x
  <2> QED
    BY <1>4, PinRegion
<1>6. Region(d, e, f, g, h - g, c - b)
  BY <1>5 DEF IsRegion
<1>7. v[c].open # "fence" /\ Counts(v[c].heads, h)
  <2>1. c = b + x /\ h = g + t
    BY <1>0, <1>2
  <2> HIDE DEF t, x
  <2>2. v[c].open = m[b].open /\ Counts(v[c].heads, h)
    BY <1>5, <2>1, RegionEnd
  <2> QED
    BY <1>2, <2>2
<1>8. StartsLine(e.source, c)
  <2>1. SameText(d.source, e.source, a, b, c - b)
    BY <1>0 DEF IsExchange
  <2>2. b \in (a + 1)..b /\ b + (c - b) = c /\ b # 0
    BY <1>2
  <2>3. e.source[c] = d.source[b] /\ d.source[b] = "nl"
    BY <1>2, <2>1, <2>2 DEF SameText, StartsLine
  <2> QED
    BY <2>3 DEF StartsLine
<1>9. Counts(v[w].heads, n + 1)
  <2>1. OfLength(v[w].heads, n) /\ n = (n + 1) - 1
    BY <1>0 DEF HasRun
  <2> QED
    BY <1>0, <2>1 DEF Counts
<1>10. ASSUME h <= n PROVE BeginsAt(e, h, c)
  <2>1. Pin(d, m, w, e, v, n, h, n + 1, h, 0, c, w, 0, c)
    BY <1>10, PinTail
  <2> DEFINE o == (n + 1) + 0
             i == w + 0
  <2>2. Counts(v[i].heads, o)
    BY <1>0, <1>9
  <2>3. o = (n + 1) + 0 /\ i = w + 0
    OBVIOUS
  <2> HIDE DEF o, i
  <2> QED
    BY <1>7, <1>8, <2>1, <2>2, <2>3, PinSeam
<1>11. Region(d, e, h, n + 1, 0, 0)
  BY <1>10, RegionBehind
<1> QED
  BY <1>3, <1>6, <1>11 DEF AllRegions

(***************************************************************************)
(* Earlier sections moved behind later ones: when the moved sections are   *)
(* found again, and behind them what followed, so are all.                 *)
(***************************************************************************)
LEMMA RegionsDown ==
    ASSUME NEW d, NEW m, NEW w, NEW e, NEW v, NEW n, NEW f, NEW g, NEW h, NEW a, NEW b, NEW c,
           Exchanged(d, m, w, e, v, n, f, g, h, a, b, c), ExchangedShapes(d, e, n, f, g, h),
           ~UnderlineTitles(d), Region(d, e, f, g, h - g, c - b),
           h <= n => BeginsAt(e, h, c)
    PROVE  AllRegions(d, e, n, f, g, h, a, b, c)
<1>0. /\ w \in Nat /\ n \in Nat /\ HasRun(d, m, w, n) /\ HasRun(e, v, w, n)
      /\ f \in Nat /\ g \in Nat /\ h \in Nat /\ 1 <= f /\ f < g /\ g < h /\ h <= n + 1
      /\ StartIs(d, f, a) /\ IsExchange(e.source, d.source, a, b, c, w)
  BY DEF Exchanged, IsCuts
<1>1. CutsLie(d, m, w, n, f, g, h, a, b, c)
  BY CutsAre
<1>2. /\ a \in Nat /\ b \in Nat /\ c \in Nat /\ a < b /\ b < c /\ c <= w
      /\ m[a].open # "fence"
  BY <1>1 DEF CutsLie
<1>3. /\ Region(d, e, 1, f, 0, 0)
      /\ v[a].open = m[a].open /\ StartsLine(e.source, a) /\ Counts(v[a].heads, f)
  BY RegionBefore
<1> DEFINE o == h + (f - g)
           r == c + (a - b)
<1>4. /\ o \in 1..n /\ o \in 1..(n + 1) /\ o = f + (h - g) /\ r = a + (c - b) /\ r # 0 /\ f \in f..(g - 1)
      /\ c \in (b + 1)..c
  BY <1>0, <1>2
<1>5. StartIs(e, o, r)
  <2>1. Synced(d, f, e, f + (h - g), c - b)
    BY <1>4 DEF Region
  <2>2. e.sections[o].heading.start = d.sections[f].heading.start + (c - b)
    BY <1>4, <2>1 DEF Synced
  <2>3. n = Len(d.sections) /\ n = Len(e.sections)
    BY <1>0 DEF HasRun, Counted
  <2>4. StartOf(d, f) = d.sections[f].heading.start
    BY <1>0, <2>3 DEF StartOf
  <2>5. StartOf(e, o) = e.sections[o].heading.start
    <3> HIDE DEF o
    <3> QED
      BY <1>0, <1>4, <2>3 DEF StartOf
  <2>6. a = d.sections[f].heading.start
    BY <1>0, <2>4 DEF StartIs
  <2>7. StartOf(e, o) = r
    BY <1>4, <2>2, <2>5, <2>6
  <2> QED
    BY <2>7 DEF StartIs
<1>6. Counts(v[r].heads, o) /\ StartsLine(e.source, r)
  <2> HIDE DEF o, r
  <2>1. o <= n
    BY <1>0, <1>4
  <2> QED
    BY <1>0, <1>4, <1>5, <2>1, CountUpto
<1>7. d.source[c] = "nl"
  <2>1. SameText(d.source, e.source, b, c, a - b)
    BY <1>0 DEF IsExchange
  <2>2. e.source[r] = d.source[c]
    BY <1>4, <2>1 DEF SameText
  <2>3. e.source[r] = "nl"
    <3> HIDE DEF r
    <3> QED
      BY <1>4, <1>6 DEF StartsLine
  <2> QED
    BY <2>2, <2>3
<1> DEFINE t == f - g
           x == a - b
<1>8. Pin(d, m, w, e, v, n, g, h, f, t, b, c, x, a)
  BY <1>7, PinSecond
<1>9. BeginsAt(e, f, a)
  <2>1. o = h + t /\ r = c + x
    OBVIOUS
  <2>2. StartsLine(e.source, a) /\ v[a].open # "fence" /\ Counts(v[a].heads, f)
    BY <1>2, <1>3
  <2> HIDE DEF o, r, t, x
  <2> QED
    BY <1>6, <1>8, <2>1, <2>2, PinSeam
<1>10. IsRegion(d, m, e, v, g, h, t, x, c)
  <2> HIDE DEF t, x
  <2> QED
    BY <1>8, <1>9, PinRegion
<1>11. Region(d, e, g, h, f - g, a - b)
  BY <1>10 DEF IsRegion
<1>12. Region(d, e, h, n + 1, 0, 0)
  BY RegionBehind
<1> QED
  BY <1>3, <1>11, <1>12 DEF AllRegions

-----------------------------------------------------------------------------
\* A heading found x further on starts a section there.
LEMMA StartSynced ==
    ASSUME NEW d, NEW e, NEW n \in Nat, Counted(d, n), Counted(e, n),
           NEW i \in 1..n, NEW y \in 1..n, NEW x, Synced(d, i, e, y, x)
    PROVE  StartOf(e, y) = StartOf(d, i) + x
<1>1. n = Len(d.sections) /\ n = Len(e.sections)
  BY DEF Counted
<1>2. StartOf(d, i) = d.sections[i].heading.start /\ StartOf(e, y) = e.sections[y].heading.start
  BY <1>1 DEF StartOf
<1> QED
  BY <1>2 DEF Synced

\* A region whose text is carried x further too, the next section included.
IsCopy(d, e, w, n, k, l, t, x, p, q) ==
    /\ IsDocument(d) /\ IsDocument(e) /\ n \in Nat /\ Counted(d, n) /\ Counted(e, n)
    /\ w \in Nat /\ OfLength(d.source, w)
    /\ k \in Nat /\ l \in Nat /\ t \in Int /\ x \in Int
    /\ 1 <= k /\ l <= n + 1 /\ 1 <= k + t /\ l + t <= n + 1
    /\ StartIs(d, k, p) /\ StartIs(d, l, q) /\ SameText(d.source, e.source, p, q, x)
    /\ Region(d, e, k, l, t, x) /\ StartIs(e, l + t, q + x)

LEMMA CopyEntry ==
    ASSUME NEW d, NEW e, NEW w, NEW n, NEW k, NEW l, NEW t, NEW x, NEW p, NEW q,
           IsCopy(d, e, w, n, k, l, t, x, p, q), NEW i \in k..(l - 1), NEW y, y = i + t
    PROVE  Entry(e, y) = Entry(d, i)
<1>0. /\ IsDocument(d) /\ IsDocument(e) /\ n \in Nat /\ Counted(d, n) /\ Counted(e, n)
      /\ w \in Nat /\ OfLength(d.source, w)
      /\ k \in Nat /\ l \in Nat /\ t \in Int /\ x \in Int
      /\ 1 <= k /\ l <= n + 1 /\ 1 <= k + t /\ l + t <= n + 1
      /\ SameText(d.source, e.source, p, q, x)
      /\ Region(d, e, k, l, t, x) /\ StartIs(e, l + t, q + x)
      /\ p = StartOf(d, k) /\ q = StartOf(d, l)
  BY DEF IsCopy, StartIs
<1>1. /\ i \in 1..n /\ y \in 1..n /\ i + 1 \in 1..(n + 1) /\ k \in 1..(n + 1) /\ l \in 1..(n + 1)
      /\ i \in 1..(n + 1) /\ k <= i /\ (k < i \/ k = i) /\ (i + 1 < l \/ i + 1 = l)
  BY <1>0
<1>2. Synced(d, i, e, y, x)
  BY <1>0 DEF Region
<1>3. StartOf(e, y + 1) = StartOf(d, i + 1) + x
  <2>1. CASE i + 1 = l
    <3>1. y + 1 = l + t
      BY <1>0, <1>1, <2>1
    <3>2. StartOf(e, y + 1) = q + x
      BY <1>0, <3>1 DEF StartIs
    <3> QED
      BY <1>0, <2>1, <3>2
  <2>2. CASE i + 1 < l
    <3> DEFINE j == i + 1
               z == y + 1
    <3>1. j \in k..(l - 1) /\ j \in 1..n /\ z \in 1..n /\ j + t = z
      BY <1>0, <1>1, <2>2
    <3> HIDE DEF j, z
    <3>2. Synced(d, j, e, z, x)
      BY <1>0, <3>1 DEF Region
    <3>3. StartOf(e, z) = StartOf(d, j) + x
      BY <1>0, <3>1, <3>2, StartSynced
    <3> QED
      BY <3>3 DEF j, z
  <2> QED
    BY <1>1, <2>1, <2>2
<1>4. n = Len(d.sections)
  BY <1>0 DEF Counted
<1>5. /\ StartOf(d, k) \in Nat /\ StartOf(d, i) \in Nat /\ StartOf(d, i + 1) \in Nat /\ StartOf(d, l) \in Nat
      /\ StartOf(d, k) <= StartOf(d, i) /\ StartOf(d, i + 1) <= StartOf(d, l)
  <2>1. \A j, z \in 1..(n + 1) : /\ StartOf(d, j) \in Nat
                                 /\ j < z => StartOf(d, j) <= StartOf(d, z)
    BY <1>0, <1>4, StartsIn
  <2> QED
    BY <1>1, <2>1
<1>6. \A j \in (StartOf(d, i) + 1)..StartOf(d, i + 1) : e.source[j + x] = d.source[j]
  <2> TAKE j \in (StartOf(d, i) + 1)..StartOf(d, i + 1)
  <2>1. j \in (p + 1)..q
    BY <1>0, <1>5
  <2> QED
    BY <1>0, <2>1 DEF SameText
<1>7. Copied(d, i, e, y, x)
  BY <1>2, <1>3, <1>6 DEF Copied
<1> QED
  BY <1>0, <1>1, <1>7, SameEntry

-----------------------------------------------------------------------------
\* Where the sections begin in the result.
RegionsBegin(e, n, f, g, h, a, b, c) ==
    /\ StartIs(e, f, a) /\ StartIs(e, f + (h - g), a + (c - b))
    /\ StartIs(e, h, c) /\ StartIs(e, n + 1, Len(e.source))

LEMMA ExchangedEnds ==
    ASSUME NEW d, NEW m, NEW w, NEW e, NEW v, NEW n, NEW f, NEW g, NEW h, NEW a, NEW b, NEW c,
           Exchanged(d, m, w, e, v, n, f, g, h, a, b, c), AllRegions(d, e, n, f, g, h, a, b, c)
    PROVE  RegionsBegin(e, n, f, g, h, a, b, c)
<1>0. /\ w \in Nat /\ n \in Nat /\ Counted(d, n) /\ Counted(e, n)
      /\ OfLength(d.source, w) /\ OfLength(e.source, w)
      /\ f \in Nat /\ g \in Nat /\ h \in Nat /\ 1 <= f /\ f < g /\ g < h /\ h <= n + 1
      /\ StartOf(d, f) = a /\ StartOf(d, g) = b /\ StartOf(d, h) = c
      /\ StartIs(d, h, c)
  BY DEF Exchanged, IsCuts, HasRun, StartIs
<1>1. CutsLie(d, m, w, n, f, g, h, a, b, c)
  BY CutsAre
<1>2. /\ a \in Nat /\ b \in Nat /\ c \in Nat /\ a < b /\ b < c /\ c <= w /\ (h = n + 1 => c = w)
  BY <1>1 DEF CutsLie
<1> DEFINE y == f + (h - g)
           o == g + (f - g)
<1>3. /\ f \in 1..n /\ g \in 1..n /\ y \in 1..n /\ o = f /\ b + (a - b) = a
      /\ f \in f..(g - 1) /\ g \in g..(h - 1)
  BY <1>0, <1>2
<1>4. StartIs(e, f, a)
  <2>1. Synced(d, g, e, f, a - b)
    BY <1>3 DEF AllRegions, Region
  <2>2. StartOf(e, f) = StartOf(d, g) + (a - b)
    BY <1>0, <1>3, <2>1, StartSynced
  <2> QED
    BY <1>0, <1>3, <2>2 DEF StartIs
<1>5. StartIs(e, y, a + (c - b))
  <2>1. Synced(d, f, e, y, c - b)
    BY <1>3 DEF AllRegions, Region
  <2> HIDE DEF y
  <2>2. StartOf(e, y) = StartOf(d, f) + (c - b)
    BY <1>0, <1>3, <2>1, StartSynced
  <2> QED
    BY <1>0, <2>2 DEF StartIs
<1>6. StartIs(e, n + 1, Len(e.source)) /\ Len(e.source) = w
  <2>1. n = Len(e.sections) /\ Len(e.source) = w
    BY <1>0 DEF Counted, OfLength
  <2>2. StartOf(e, n + 1) = Len(e.source)
    BY <1>0, <2>1 DEF StartOf
  <2> QED
    BY <2>1, <2>2 DEF StartIs
<1>7. StartIs(e, h, c)
  <2>1. CASE h = n + 1
    BY <1>2, <1>6, <2>1
  <2>2. CASE h # n + 1
    <3>1. h \in 1..n /\ h \in h..((n + 1) - 1) /\ h + 0 = h /\ c + 0 = c
      BY <1>0, <1>2, <2>2
    <3>2. Synced(d, h, e, h, 0)
      <4>1. Synced(d, h, e, h + 0, 0)
        BY <3>1 DEF AllRegions, Region
      <4> QED
        BY <3>1, <4>1
    <3>3. StartOf(e, h) = StartOf(d, h) + 0
      BY <1>0, <3>1, <3>2, StartSynced
    <3> QED
      BY <1>0, <3>1, <3>3 DEF StartIs
  <2> QED
    BY <2>1, <2>2
<1> QED
  BY <1>4, <1>5, <1>6, <1>7 DEF RegionsBegin

(***************************************************************************)
(* Each of the four regions is a copy.                                     *)
(***************************************************************************)
LEMMA ExchangedCopies ==
    ASSUME NEW d, NEW m, NEW w, NEW e, NEW v, NEW n, NEW f, NEW g, NEW h, NEW a, NEW b, NEW c,
           Exchanged(d, m, w, e, v, n, f, g, h, a, b, c), AllRegions(d, e, n, f, g, h, a, b, c)
    PROVE  /\ IsCopy(d, e, w, n, f, g, h - g, c - b, a, b)
           /\ IsCopy(d, e, w, n, g, h, f - g, a - b, b, c)
           /\ IsCopy(d, e, w, n, h, n + 1, 0, 0, c, w)
           /\ IsCopy(d, e, w, n, 1, f, 0, 0, StartOf(d, 1), a)
<1>0. /\ IsDocument(d) /\ IsDocument(e)
      /\ w \in Nat /\ n \in Nat /\ Counted(d, n) /\ Counted(e, n)
      /\ OfLength(d.source, w) /\ OfLength(e.source, w)
      /\ f \in Nat /\ g \in Nat /\ h \in Nat /\ 1 <= f /\ f < g /\ g < h /\ h <= n + 1
      /\ StartIs(d, f, a) /\ StartIs(d, g, b) /\ StartIs(d, h, c)
      /\ SameText(d.source, e.source, 0, a, 0)
      /\ SameText(d.source, e.source, b, c, a - b)
      /\ SameText(d.source, e.source, a, b, c - b)
      /\ SameText(d.source, e.source, c, w, 0)
  BY DEF Exchanged, IsCuts, HasRun, IsExchange
<1>1. CutsLie(d, m, w, n, f, g, h, a, b, c)
  BY CutsAre
<1>2. /\ a \in Nat /\ b \in Nat /\ c \in Nat /\ a < b /\ b < c /\ c <= w
  BY <1>1 DEF CutsLie
<1>3. RegionsBegin(e, n, f, g, h, a, b, c)
  BY ExchangedEnds
<1>4. /\ StartIs(e, f, a) /\ StartIs(e, f + (h - g), a + (c - b)) /\ StartIs(e, h, c)
      /\ StartIs(e, n + 1, w)
  BY <1>0, <1>3 DEF RegionsBegin, OfLength
<1>5. IsCopy(d, e, w, n, f, g, h - g, c - b, a, b)
  <2>1. g + (h - g) = h /\ b + (c - b) = c /\ 1 <= f + (h - g) /\ g <= n + 1 /\ h - g \in Int /\ c - b \in Int
    BY <1>0, <1>2
  <2>2. Region(d, e, f, g, h - g, c - b)
    BY DEF AllRegions
  <2>3. StartIs(e, g + (h - g), b + (c - b))
    BY <1>4, <2>1
  <2> QED
    BY <1>0, <2>1, <2>2, <2>3 DEF IsCopy
<1>6. IsCopy(d, e, w, n, g, h, f - g, a - b, b, c)
  <2>1. /\ h + (f - g) = f + (h - g) /\ c + (a - b) = a + (c - b) /\ 1 <= g + (f - g) /\ 1 <= g
        /\ f - g \in Int /\ a - b \in Int /\ h + (f - g) <= n + 1
    BY <1>0, <1>2
  <2>2. Region(d, e, g, h, f - g, a - b)
    BY DEF AllRegions
  <2>3. StartIs(e, h + (f - g), c + (a - b))
    BY <1>4, <2>1
  <2> QED
    BY <1>0, <2>1, <2>2, <2>3 DEF IsCopy
<1>7. IsCopy(d, e, w, n, h, n + 1, 0, 0, c, w)
  <2>1. /\ (n + 1) + 0 = n + 1 /\ w + 0 = w /\ 1 <= h + 0 /\ 0 \in Int /\ (n + 1) \in Nat /\ n + 1 <= n + 1
        /\ 1 <= h /\ (n + 1) + 0 <= n + 1
    BY <1>0
  <2>2. Region(d, e, h, n + 1, 0, 0)
    BY DEF AllRegions
  <2>3. StartIs(e, (n + 1) + 0, w + 0)
    BY <1>4, <2>1
  <2>4. StartIs(d, n + 1, w)
    <3>1. n = Len(d.sections) /\ Len(d.source) = w
      BY <1>0 DEF Counted, OfLength
    <3>2. StartOf(d, n + 1) = Len(d.source)
      BY <1>0, <3>1 DEF StartOf
    <3> QED
      BY <3>1, <3>2 DEF StartIs
  <2> QED
    BY <1>0, <2>1, <2>2, <2>3, <2>4 DEF IsCopy
<1>8. IsCopy(d, e, w, n, 1, f, 0, 0, StartOf(d, 1), a)
  <2>1. f + 0 = f /\ a + 0 = a /\ 1 + 0 = 1 /\ 1 <= 1 + 0 /\ 0 \in Int /\ 1 \in Nat /\ f <= n + 1 /\ f + 0 <= n + 1
    BY <1>0, <1>2
  <2>2. Region(d, e, 1, f, 0, 0)
    BY DEF AllRegions
  <2>3. StartIs(e, f + 0, a + 0)
    BY <1>4, <2>1
  <2>4. StartIs(d, 1, StartOf(d, 1))
    BY DEF StartIs
  <2>5. SameText(d.source, e.source, StartOf(d, 1), a, 0)
    <3>1. n = Len(d.sections)
      BY <1>0 DEF Counted
    <3>2. 1 \in 1..(n + 1)
      BY <1>0
    <3>3. StartOf(d, 1) \in Nat
      BY <1>0, <3>1, <3>2, StartsIn
    <3> DEFINE p == StartOf(d, 1)
    <3>4. p \in Nat
      BY <3>3
    <3> HIDE DEF p
    <3>5. \A j \in (p + 1)..a : j \in (0 + 1)..a
      BY <1>2, <3>4
    <3>6. \A j \in (p + 1)..a : e.source[j + 0] = d.source[j]
      BY <1>0, <3>5 DEF SameText
    <3> QED
      BY <3>6 DEF SameText, p
  <2> QED
    BY <1>0, <2>1, <2>2, <2>3, <2>4, <2>5 DEF IsCopy
<1> QED
  BY <1>5, <1>6, <1>7, <1>8

-----------------------------------------------------------------------------
LEMMA CountedForest ==
    ASSUME NEW d, IsDocument(d), NEW n \in Nat, Counted(d, n)
    PROVE  ForestOf(d) = [k \in 1..n |-> Entry(d, k)]
<1>1. ForestOf(d) = [k \in 1..Len(d.sections) |-> Entry(d, k)]
  BY ForestIs
<1>2. n = Len(d.sections)
  BY DEF Counted
<1> QED
  BY <1>1, <1>2, Zenon

(***************************************************************************)
(* In the outline the two runs of sections have changed places.            *)
(***************************************************************************)
LEMMA ExchangedForest ==
    ASSUME NEW d, NEW m, NEW w, NEW e, NEW v, NEW n, NEW f, NEW g, NEW h, NEW a, NEW b, NEW c,
           Exchanged(d, m, w, e, v, n, f, g, h, a, b, c), AllRegions(d, e, n, f, g, h, a, b, c)
    PROVE  IsSwap(ForestOf(e), ForestOf(d), f, g, h, n)
<1>0. /\ IsDocument(d) /\ IsDocument(e) /\ n \in Nat /\ Counted(d, n) /\ Counted(e, n)
      /\ f \in Nat /\ g \in Nat /\ h \in Nat /\ 1 <= f /\ f < g /\ g < h /\ h <= n + 1
  BY DEF Exchanged, IsCuts, HasRun
<1> DEFINE F == ForestOf(d)
           z == ForestOf(e)
           p == StartOf(d, 1)
<1>1. F = [k \in 1..n |-> Entry(d, k)] /\ z = [k \in 1..n |-> Entry(e, k)]
  BY <1>0, CountedForest
<1>2. ASSUME NEW k \in 1..(f - 1) PROVE z[k] = F[k]
  <2>1. k = k + 0 /\ k \in 1..n
    BY <1>0
  <2>2. IsCopy(d, e, w, n, 1, f, 0, 0, p, a)
    BY ExchangedCopies
  <2> HIDE DEF p
  <2>3. Entry(e, k) = Entry(d, k)
    BY <2>1, <2>2, CopyEntry
  <2> QED
    BY <1>1, <2>1, <2>3
<1>3. ASSUME NEW k \in f..(g - 1) PROVE z[k + (h - g)] = F[k]
  <2> DEFINE t == h - g
             x == c - b
             y == k + t
  <2>1. y \in 1..n /\ k \in 1..n
    BY <1>0
  <2>2. IsCopy(d, e, w, n, f, g, t, x, a, b)
    BY ExchangedCopies
  <2>3. Entry(e, y) = Entry(d, k)
    <3>1. y = k + t
      OBVIOUS
    <3> HIDE DEF t, x, y
    <3> QED
      BY <2>2, <3>1, CopyEntry
  <2>4. z[y] = F[k]
    <3> HIDE DEF y
    <3> QED
      BY <1>1, <2>1, <2>3
  <2> QED
    BY <2>4
<1>4. ASSUME NEW k \in g..(h - 1) PROVE z[k + (f - g)] = F[k]
  <2> DEFINE t == f - g
             x == a - b
             y == k + t
  <2>1. y \in 1..n /\ k \in 1..n
    BY <1>0
  <2>2. IsCopy(d, e, w, n, g, h, t, x, b, c)
    BY ExchangedCopies
  <2>3. Entry(e, y) = Entry(d, k)
    <3>1. y = k + t
      OBVIOUS
    <3> HIDE DEF t, x, y
    <3> QED
      BY <2>2, <3>1, CopyEntry
  <2>4. z[y] = F[k]
    <3> HIDE DEF y
    <3> QED
      BY <1>1, <2>1, <2>3
  <2> QED
    BY <2>4
<1>5. ASSUME NEW k \in h..n PROVE z[k] = F[k]
  <2> DEFINE l == n + 1
  <2>1. k = k + 0 /\ k \in 1..n /\ k \in h..(l - 1)
    BY <1>0
  <2>2. IsCopy(d, e, w, n, h, l, 0, 0, c, w)
    BY ExchangedCopies
  <2> HIDE DEF l
  <2>3. Entry(e, k) = Entry(d, k)
    BY <2>1, <2>2, CopyEntry
  <2> QED
    BY <1>1, <2>1, <2>3
<1>6. OfLength(z, n)
  <2>1. n = Len(e.sections) /\ DOMAIN e.sections = 1..n
    BY <1>0 DEF Counted, IsDocument
  <2>2. z = [k \in 1..n |-> Entry(e, k)]
    BY <1>1
  <2> HIDE DEF z
  <2>3. Len(z) = n
    BY <1>0, <2>2
  <2> QED
    BY <2>3 DEF OfLength
<1> HIDE DEF F, z
<1>7. IsSwap(z, F, f, g, h, n)
  BY <1>2, <1>3, <1>4, <1>5, <1>6 DEF IsSwap
<1> QED
  BY <1>7 DEF F, z

LEMMA ExchangedPreamble ==
    ASSUME NEW d, NEW m, NEW w, NEW e, NEW v, NEW n, NEW f, NEW g, NEW h, NEW a, NEW b, NEW c,
           Exchanged(d, m, w, e, v, n, f, g, h, a, b, c), AllRegions(d, e, n, f, g, h, a, b, c)
    PROVE  PreambleOf(e) = PreambleOf(d)
<1>0. /\ IsDocument(d) /\ IsDocument(e) /\ n \in Nat /\ Counted(d, n) /\ Counted(e, n)
      /\ f \in Nat /\ 1 <= f /\ f <= n
      /\ StartOf(d, f) = a /\ SameText(d.source, e.source, 0, a, 0)
  BY DEF Exchanged, IsCuts, HasRun, IsExchange, StartIs
<1>1. StartOf(e, f) = a
  BY ExchangedEnds DEF RegionsBegin, StartIs
<1> DEFINE p == StartOf(d, 1)
<1>2. StartOf(e, 1) = p
  <2>1. CASE f = 1
    BY <1>0, <1>1, <2>1
  <2>2. CASE f # 1
    <3>1. 1 \in 1..(f - 1) /\ 1 \in 1..n /\ 1 + 0 = 1
      BY <1>0, <2>2
    <3>2. Synced(d, 1, e, 1, 0)
      <4>1. Synced(d, 1, e, 1 + 0, 0)
        BY <3>1 DEF AllRegions, Region
      <4> QED
        BY <3>1, <4>1
    <3>3. StartOf(e, 1) = p + 0
      BY <1>0, <3>1, <3>2, StartSynced
    <3>4. p \in Nat
      <4>1. n = Len(d.sections)
        BY <1>0 DEF Counted
      <4>2. 1 \in 1..(n + 1)
        BY <1>0
      <4> QED
        BY <1>0, <4>1, <4>2, StartsIn
    <3> HIDE DEF p
    <3> QED
      BY <3>3, <3>4
  <2> QED
    BY <2>1, <2>2
<1>3. p \in Nat /\ p <= a /\ a \in Nat
  <2>1. n = Len(d.sections)
    BY <1>0 DEF Counted
  <2>2. 1 \in 1..(n + 1) /\ f \in 1..(n + 1) /\ (1 < f \/ 1 = f)
    BY <1>0
  <2>3. \A j, l \in 1..(n + 1) : /\ StartOf(d, j) \in Nat
                                 /\ j < l => StartOf(d, j) <= StartOf(d, l)
    BY <1>0, <2>1, StartsIn
  <2> QED
    BY <1>0, <2>2, <2>3
<1>4. \A j \in 1..p : e.source[j] = d.source[j]
  <2> HIDE DEF p
  <2>1. \A j \in 1..p : j \in (0 + 1)..a /\ j + 0 = j
    BY <1>3
  <2> QED
    BY <1>0, <2>1 DEF SameText
<1>5. p = StartOf(d, 1) /\ p = StartOf(e, 1)
  BY <1>2
<1> HIDE DEF p
<1> QED
  BY <1>0, <1>4, <1>5, SamePreamble

-----------------------------------------------------------------------------
(***************************************************************************)
(* The subtree i to l - 1 is moved in front of section t, or to the end.   *)
(***************************************************************************)
IsGoal(d, plan, n, i, l, t) ==
    /\ n \in Nat /\ Counted(d, n)
    /\ i \in Nat /\ l \in Nat /\ t \in Nat
    /\ 1 <= i /\ i < l /\ l <= n + 1 /\ 1 <= t /\ t <= n + 1
    /\ t <= i \/ l <= t
    /\ plan.moved = IF t <= i THEN t ELSE t - (l - i)
    /\ plan.at = StartOf(d, t)
    /\ Reinserted(plan.expected, d.sections, i, plan.moved)
    /\ Closer(d.sections, i, l) /\ SubtreeEnd(d.sections, i) = l
    /\ d.sections[i].range = [start |-> StartOf(d, i), end |-> StartOf(d, l)]

LEMMA PlanGoal ==
    ASSUME NEW d, NEW plan, NEW n, NEW i, NEW l, NEW j, NEW q, NEW after \in BOOLEAN,
           IsPlan(d, plan, n, i, l, j, q, after)
    PROVE  \E t : IsGoal(d, plan, n, i, l, t)
<1> DEFINE t == IF after THEN q ELSE j
           J == Remainder(j, i, l)
           P == J + (q - j)
           m == n - (l - i)
<1>1. IsMove(d, n, i, l, j, q)
  BY DEF IsPlan
<1>2. LiesApart(i, l, j, q, n)
  BY <1>1, MoveApart
<1>3. /\ n \in Nat /\ i \in Nat /\ l \in Nat /\ t \in Nat
      /\ 1 <= i /\ i < l /\ l <= n + 1 /\ 1 <= t /\ t <= n + 1 /\ (t <= i \/ l <= t)
  BY <1>2 DEF LiesApart
<1>4. /\ P = (IF q <= i THEN q ELSE q - (l - i))
      /\ J = (IF j <= i THEN j ELSE j - (l - i))
  <2>1. J = Remainder(j, i, l) /\ P = J + (q - j) /\ m = n - (l - i)
    OBVIOUS
  <2> HIDE DEF J, P, m
  <2> QED
    BY <1>2, <2>1, RestOrigin
<1>5. plan.moved = IF after THEN P ELSE J
  BY DEF IsPlan
<1>6. plan.moved = IF t <= i THEN t ELSE t - (l - i)
  <2> HIDE DEF J, P
  <2> QED
    BY <1>4, <1>5
<1>7. plan.at = StartOf(d, t)
  BY DEF IsPlan
<1>8. /\ Reinserted(plan.expected, d.sections, i, plan.moved)
      /\ Closer(d.sections, i, l) /\ SubtreeEnd(d.sections, i) = l
      /\ d.sections[i].range = [start |-> StartOf(d, i), end |-> StartOf(d, l)]
      /\ Counted(d, n)
  BY <1>1 DEF IsPlan, IsMove
<1> HIDE DEF t
<1>9. IsGoal(d, plan, n, i, l, t)
  BY <1>3, <1>6, <1>7, <1>8 DEF IsGoal
<1> QED
  BY <1>9

(***************************************************************************)
(* A sequence with the tree i to l - 1 taken out and put back.             *)
(***************************************************************************)
IsWhole(V, F, n, i, l) ==
    F \in Seq(V) /\ OfLength(F, n) /\ DOMAIN F = 1..n /\ TreeEnds(F, n, i, l)

LEMMA SwapUp ==
    ASSUME NEW V, NEW F, NEW n, NEW i, NEW l, IsWhole(V, F, n, i, l), NEW p, IsSpan(i, l, p, n),
           p < i, NEW z, Reinserted(z, F, i, p)
    PROVE  z \in Seq(V) /\ IsSwap(z, F, p, i, l, n)
<1>1. F \in Seq(V) /\ OfLength(F, n) /\ DOMAIN F = 1..n /\ TreeEnds(F, n, i, l)
  BY DEF IsWhole
<1>2. z \in Seq(V) /\ \E R : IsRest(R, F, i, l, n) /\ IsBack(z, F, R, i, l, p, n)
  BY <1>1, ReinsertedIs
<1>3. PICK R : IsRest(R, F, i, l, n) /\ IsBack(z, F, R, i, l, p, n)
  BY <1>2
<1> QED
  BY <1>2, <1>3, BackUp

LEMMA SwapDown ==
    ASSUME NEW V, NEW F, NEW n, NEW i, NEW l, IsWhole(V, F, n, i, l), NEW p, IsSpan(i, l, p, n),
           i < p, NEW h, h = p + (l - i), NEW z, Reinserted(z, F, i, p)
    PROVE  z \in Seq(V) /\ IsSwap(z, F, i, l, h, n)
<1>1. F \in Seq(V) /\ OfLength(F, n) /\ DOMAIN F = 1..n /\ TreeEnds(F, n, i, l)
  BY DEF IsWhole
<1>2. z \in Seq(V) /\ \E R : IsRest(R, F, i, l, n) /\ IsBack(z, F, R, i, l, p, n)
  BY <1>1, ReinsertedIs
<1>3. PICK R : IsRest(R, F, i, l, n) /\ IsBack(z, F, R, i, l, p, n)
  BY <1>2
<1> QED
  BY <1>2, <1>3, BackDown

LEMMA SwapSame ==
    ASSUME NEW V, NEW F, NEW n, NEW i, NEW l, IsWhole(V, F, n, i, l), NEW p, IsSpan(i, l, p, n),
           i = p, NEW z, Reinserted(z, F, i, p)
    PROVE  z = F
<1>1. F \in Seq(V) /\ OfLength(F, n) /\ DOMAIN F = 1..n /\ TreeEnds(F, n, i, l)
  BY DEF IsWhole
<1>2. z \in Seq(V) /\ \E R : IsRest(R, F, i, l, n) /\ IsBack(z, F, R, i, l, p, n)
  BY <1>1, ReinsertedIs
<1>3. PICK R : IsRest(R, F, i, l, n) /\ IsBack(z, F, R, i, l, p, n)
  BY <1>2
<1>4. IsSpan(i, l, i, n) /\ IsBack(z, F, R, i, l, i, n)
  BY <1>3
<1> QED
  BY <1>1, <1>2, <1>3, <1>4, BackSame

-----------------------------------------------------------------------------
LEMMA GoalUp ==
    ASSUME NEW d, NEW plan, NEW n, NEW i, NEW l, NEW t, IsGoal(d, plan, n, i, l, t), t < i,
           NEW V, NEW F, IsWhole(V, F, n, i, l), NEW z, Reinserted(z, F, i, plan.moved)
    PROVE  IsCuts(t, i, l, n) /\ z \in Seq(V) /\ IsSwap(z, F, t, i, l, n)
<1>1. /\ n \in Nat /\ i \in Nat /\ l \in Nat /\ t \in Nat
      /\ 1 <= i /\ i < l /\ l <= n + 1 /\ 1 <= t /\ t <= n + 1 /\ plan.moved = t
  BY DEF IsGoal
<1>2. IsCuts(t, i, l, n) /\ IsSpan(i, l, t, n)
  BY <1>1 DEF IsCuts, IsSpan
<1>3. Reinserted(z, F, i, t)
  BY <1>1
<1> QED
  BY <1>2, <1>3, SwapUp

LEMMA GoalDown ==
    ASSUME NEW d, NEW plan, NEW n, NEW i, NEW l, NEW t, IsGoal(d, plan, n, i, l, t), l < t,
           NEW V, NEW F, IsWhole(V, F, n, i, l), NEW z, Reinserted(z, F, i, plan.moved)
    PROVE  IsCuts(i, l, t, n) /\ z \in Seq(V) /\ IsSwap(z, F, i, l, t, n)
<1> DEFINE p == t - (l - i)
<1>1. /\ n \in Nat /\ i \in Nat /\ l \in Nat /\ t \in Nat
      /\ 1 <= i /\ i < l /\ l <= n + 1 /\ 1 <= t /\ t <= n + 1
      /\ plan.moved = IF t <= i THEN t ELSE p
  BY DEF IsGoal
<1>2. /\ IsCuts(i, l, t, n) /\ IsSpan(i, l, p, n) /\ i < p /\ t = p + (l - i)
  BY <1>1 DEF IsCuts, IsSpan
<1>3. plan.moved = p
  BY <1>1
<1> HIDE DEF p
<1>4. Reinserted(z, F, i, p)
  BY <1>3
<1> QED
  BY <1>2, <1>4, SwapDown

LEMMA GoalSame ==
    ASSUME NEW d, NEW plan, NEW n, NEW i, NEW l, NEW t, IsGoal(d, plan, n, i, l, t),
           NEW V, NEW F, IsWhole(V, F, n, i, l), NEW z, Reinserted(z, F, i, plan.moved), z # F
    PROVE  t < i \/ l < t
<1>1. /\ n \in Nat /\ i \in Nat /\ l \in Nat /\ t \in Nat
      /\ 1 <= i /\ i < l /\ l <= n + 1 /\ 1 <= t /\ t <= n + 1
      /\ t <= i \/ l <= t
      /\ plan.moved = IF t <= i THEN t ELSE t - (l - i)
  BY DEF IsGoal
<1> SUFFICES ASSUME ~(t < i), ~(l < t) PROVE FALSE
  OBVIOUS
<1>2. IsSpan(i, l, i, n) /\ plan.moved = i
  BY <1>1 DEF IsSpan
<1>3. Reinserted(z, F, i, i)
  BY <1>2
<1>4. z = F
  BY <1>2, <1>3, SwapSame
<1> QED
  BY <1>4

(***************************************************************************)
(* validateSectionHeadingSequence makes every heading the one expected.    *)
(***************************************************************************)
LEMMA ShapeOf ==
    ASSUME IsDocument(doc), NEW n \in Nat, Counted(doc, n), NEW w \in Nat, OfLength(doc.source, w),
           NEW e, IsDocument(e), NEW z \in Nat, OfLength(e.source, z),
           NEW X, OfLength(X, n), DOMAIN X = 1..n, HeadingSequence(e, X),
           NEW k \in 1..n, NEW y \in 1..n, X[y] = doc.sections[k]
    PROVE  Counted(e, n) /\ SameShape(doc, e, k, y)
<1>1. Counted(e, n)
  BY DEF HeadingSequence, OfLength, Counted
<1>2. /\ e.sections[y].level = doc.sections[k].level
      /\ e.sections[y].kind = doc.sections[k].kind
      /\ Bytes(e.source, e.sections[y].heading) = Bytes(doc.source, doc.sections[k].heading)
  BY DEF HeadingSequence
<1>3. Long(doc, w) /\ Long(e, z) /\ IsText(doc.source) /\ IsText(e.source)
  BY DEF Long, OfLength, IsDocument
<1>4. ASSUME NEW d, IsDocument(d), Counted(d, n), NEW u \in Nat, OfLength(d.source, u), Long(d, u),
             IsText(d.source), NEW j \in 1..n
      PROVE  \E c \in Nat : /\ c = d.sections[j].heading.end - d.sections[j].heading.start
                            /\ OfLength(Bytes(d.source, d.sections[j].heading), c)
  <2> DEFINE a == d.sections[j].heading.start
             b == d.sections[j].heading.end
             r == d.sections[j].heading
  <2>1. IsHeading(d, j, u, a, b)
    BY <1>4, HeadingIs
  <2>2. r = [start |-> a, end |-> b] /\ a \in Nat /\ b \in Nat /\ a < b /\ b <= u
    BY <2>1 DEF IsHeading
  <2> HIDE DEF a, b, r
  <2>3. a <= b /\ b - a \in Nat
    BY <2>2
  <2>4. OfLength(Bytes(d.source, r), b - a)
    BY <1>4, <2>2, <2>3, BytesLong
  <2> QED
    BY <2>3, <2>4 DEF a, b, r
<1>5. PICK c \in Nat : /\ c = doc.sections[k].heading.end - doc.sections[k].heading.start
                       /\ OfLength(Bytes(doc.source, doc.sections[k].heading), c)
  BY <1>3, <1>4
<1>6. PICK f \in Nat : /\ f = e.sections[y].heading.end - e.sections[y].heading.start
                       /\ OfLength(Bytes(e.source, e.sections[y].heading), f)
  BY <1>1, <1>3, <1>4
<1>7. c = f
  BY <1>2, <1>5, <1>6 DEF OfLength
<1>8. SameShape(doc, e, k, y)
  BY <1>2, <1>5, <1>6, <1>7 DEF SameShape
<1> QED
  BY <1>1, <1>8

LEMMA ShapesOf ==
    ASSUME IsDocument(doc), NEW n \in Nat, Counted(doc, n), NEW w \in Nat, OfLength(doc.source, w),
           NEW e, IsDocument(e), NEW z \in Nat, OfLength(e.source, z),
           NEW X, DOMAIN X = 1..n, HeadingSequence(e, X),
           NEW f, NEW g, NEW h, IsCuts(f, g, h, n), IsSwap(X, doc.sections, f, g, h, n)
    PROVE  Counted(e, n) /\ ExchangedShapes(doc, e, n, f, g, h)
<1>0. /\ f \in Nat /\ g \in Nat /\ h \in Nat /\ 1 <= f /\ f < g /\ g < h /\ h <= n + 1
  BY DEF IsCuts
<1>1. OfLength(X, n)
  BY DEF IsSwap
<1>2. ASSUME NEW k \in 1..n, NEW y \in 1..n, X[y] = doc.sections[k]
      PROVE  Counted(e, n) /\ SameShape(doc, e, k, y)
  BY <1>1, <1>2, ShapeOf
<1>3. ASSUME NEW k \in f..(g - 1) PROVE Counted(e, n) /\ SameShape(doc, e, k, k + (h - g))
  <2>1. k \in 1..n /\ k + (h - g) \in 1..n
    BY <1>0
  <2>2. X[k + (h - g)] = doc.sections[k]
    BY DEF IsSwap
  <2> QED
    BY <1>2, <2>1, <2>2
<1>4. ASSUME NEW k \in g..(h - 1) PROVE SameShape(doc, e, k, k + (f - g))
  <2>1. k \in 1..n /\ k + (f - g) \in 1..n
    BY <1>0
  <2>2. X[k + (f - g)] = doc.sections[k]
    BY DEF IsSwap
  <2> QED
    BY <1>2, <2>1, <2>2
<1>5. ASSUME NEW k \in h..n PROVE SameShape(doc, e, k, k)
  <2>1. k \in 1..n
    BY <1>0
  <2>2. X[k] = doc.sections[k]
    BY DEF IsSwap
  <2> QED
    BY <1>2, <2>1, <2>2
<1>6. Counted(e, n)
  <2>1. f \in f..(g - 1)
    BY <1>0
  <2> QED
    BY <1>3, <2>1
<1>7. \A k \in f..(g - 1) : SameShape(doc, e, k, k + (h - g))
  BY <1>3
<1> QED
  BY <1>4, <1>5, <1>6, <1>7 DEF ExchangedShapes

-----------------------------------------------------------------------------
(***************************************************************************)
(* validateMovedSectionSubtree finds the moved sections again, and where   *)
(* the next one begins.                                                    *)
(***************************************************************************)
IsTree(n, i, l, p) ==
    /\ n \in Nat /\ i \in Nat /\ l \in Nat /\ p \in Nat
    /\ 1 <= i /\ i < l /\ l <= n + 1 /\ 1 <= p /\ p + (l - i) <= n + 1
    /\ SubtreeEnd(sections, i) = l

LEMMA MovedSection ==
    ASSUME NEW n, NEW i, NEW l, NEW p, IsTree(n, i, l, p), NEW e, NEW offset,
           SubtreeMoved(e, i, p, offset), NEW k \in i..(l - 1), NEW y, y = k + (p - i),
           NEW x, x = offset - sections[i].range.start
    PROVE  /\ e.sections[y].heading = Shifted(doc.sections[k].heading, x)
           /\ e.sections[y].bodyRange = Shifted(doc.sections[k].bodyRange, x)
<1>1. k \in i..(SubtreeEnd(sections, i) - 1) /\ i \in Nat /\ p \in Nat /\ k \in Nat
  BY DEF IsTree
<1>2. p + k - i = y
  BY <1>1
<1>3. /\ e.sections[p + k - i].heading
             = Shifted(sections[k].heading, offset - sections[i].range.start)
      /\ e.sections[p + k - i].bodyRange
             = Shifted(sections[k].bodyRange, offset - sections[i].range.start)
  BY <1>1 DEF SubtreeMoved
<1> QED
  BY <1>2, <1>3 DEF sections

LEMMA MovedRegion ==
    ASSUME IsDocument(doc), NEW n, NEW i, NEW l, NEW p, IsTree(n, i, l, p), Counted(doc, n),
           NEW e, IsDocument(e), Counted(e, n), NEW offset, SubtreeMoved(e, i, p, offset),
           NEW s, s = p - i, NEW x \in Int, x = offset - sections[i].range.start,
           \A k \in i..(l - 1) : SameShape(doc, e, k, k + s),
           NEW y, y = l + s, NEW c, StartIs(doc, l, c)
    PROVE  Region(doc, e, i, l, s, x) /\ StartIs(e, y, c + x)
<1>0. /\ n \in Nat /\ i \in Nat /\ l \in Nat /\ p \in Nat /\ s \in Int
      /\ 1 <= i /\ i < l /\ l <= n + 1 /\ 1 <= p /\ p + (l - i) <= n + 1
      /\ c = StartOf(doc, l)
  BY DEF IsTree, StartIs
<1>1. ASSUME NEW k \in i..(l - 1) PROVE Synced(doc, k, e, k + s, x)
  <2> DEFINE z == k + s
  <2>1. z = k + (p - i)
    OBVIOUS
  <2>2. SameShape(doc, e, k, z)
    OBVIOUS
  <2> HIDE DEF z
  <2>3. e.sections[z].heading = Shifted(doc.sections[k].heading, x)
    BY <2>1, MovedSection
  <2>4. Synced(doc, k, e, z, x)
    BY <2>2, <2>3 DEF Synced, SameShape, Shifted
  <2> QED
    BY <2>4 DEF z
<1>2. Region(doc, e, i, l, s, x)
  BY <1>1 DEF Region
<1> DEFINE k == l - 1
           z == y - 1
<1>3. /\ k \in i..(l - 1) /\ k \in 1..n /\ z \in 1..n /\ z = k + (p - i) /\ k + 1 = l /\ z + 1 = y
  BY <1>0
<1>4. n = Len(doc.sections) /\ n = Len(e.sections)
  BY DEF Counted
<1>5. e.sections[z].bodyRange = Shifted(doc.sections[k].bodyRange, x)
  <2> HIDE DEF k, z
  <2> QED
    BY <1>3, MovedSection
<1>6. doc.sections[k].bodyRange.end = StartOf(doc, k + 1)
  <2> HIDE DEF k
  <2>1. k \in 1..Len(doc.sections)
    BY <1>3, <1>4
  <2> QED
    BY <2>1, PartsLie
<1>7. e.sections[z].bodyRange.end = StartOf(e, z + 1)
  <2> HIDE DEF z
  <2>1. z \in 1..Len(e.sections)
    BY <1>3, <1>4
  <2> QED
    BY <2>1, PartsLie
<1>8. e.sections[z].bodyRange.end = doc.sections[k].bodyRange.end + x
  BY <1>5 DEF Shifted
<1>9. StartOf(e, y) = c + x
  BY <1>0, <1>3, <1>6, <1>7, <1>8
<1> QED
  BY <1>2, <1>9 DEF StartIs

-----------------------------------------------------------------------------
PatchesOfMove(r, at) ==
    <<Patch(r.start, r.end, << >>), Patch(at, at, Bytes(doc.source, r))>>

MoveChange(r, at) ==
    [Change(PatchesOfMove(r, at)) EXCEPT !.relocations = {[source |-> r, at |-> at]}]

\* What the change makes of the text.
LEMMA MoveCut ==
    ASSUME WellHeld, NEW w \in Nat, OfLength(doc.source, w), NEW b \in Nat, NEW c \in Nat,
           b < c, c <= w, NEW at \in Nat, at <= w, NEW r, r = [start |-> b, end |-> c],
           Accepted(Len(doc.source), PatchesOfMove(r, at)),
           NEW e, e = Candidate(MoveChange(r, at)), at < b \/ c < at
    PROVE  /\ IsDocument(e)
           /\ at < b => IsExchange(e.source, doc.source, at, b, c, w)
           /\ c < at => IsExchange(e.source, doc.source, b, c, at, w)
<1> DEFINE o == Patch(b, c, << >>)
           p == Patch(at, at, Bytes(doc.source, r))
           q == InOrder(<<o, p>>)
           u == Splice(doc.source, q)
<1>1. PatchesOfMove(r, at) = <<o, p>>
  <2>1. r.start = b /\ r.end = c
    OBVIOUS
  <2> QED
    BY <2>1 DEF PatchesOfMove
<1>2. MoveChange(r, at).patches = q
  <2>1. Change(<<o, p>>).patches = q /\ MoveChange(r, at).patches = Change(<<o, p>>).patches
    <3> HIDE DEF o, p
    <3> QED
      BY <1>1 DEF MoveChange, Change
  <2> QED
    BY <2>1
<1>3. e = Doc(u)
  <2> HIDE DEF q
  <2> QED
    BY <1>2 DEF Candidate
<1>4. IsText(doc.source) /\ Accepted(w, <<o, p>>) /\ b <= c
  <2> HIDE DEF o, p
  <2>1. Len(doc.source) = w
    BY DEF OfLength
  <2>2. Accepted(Len(doc.source), <<o, p>>)
    BY <1>1
  <2>3. IsText(doc.source)
    BY DEF WellHeld
  <2> QED
    BY <2>1, <2>2, <2>3
<1>5. /\ IsText(u)
      /\ at < b => IsExchange(u, doc.source, at, b, c, w)
      /\ (c < at /\ b < c) => IsExchange(u, doc.source, b, c, at, w)
  <2>1. o = Patch(b, c, << >>) /\ p = Patch(at, at, Bytes(doc.source, r))
        /\ u = Splice(doc.source, InOrder(<<o, p>>))
    OBVIOUS
  <2> HIDE DEF o, p, q, u
  <2> QED
    BY <1>4, <2>1, MovedText
<1> HIDE DEF u
<1>6. IsDocument(e) /\ e.source = u
  BY <1>3, <1>5, TextsMakeDocuments, DocIs
<1> QED
  BY <1>5, <1>6

\* The runs of the parser over the text and over the candidate's.
LEMMA ExchangedIs ==
    ASSUME WellHeld, NEW n \in Nat, Counted(doc, n), NEW w \in Nat, OfLength(doc.source, w),
           NEW k, NEW e, e = Candidate(k), IsDocument(e), Counted(e, n),
           NEW f, NEW g, NEW h, IsCuts(f, g, h, n),
           NEW a, NEW b, NEW c, StartIs(doc, f, a), StartIs(doc, g, b), StartIs(doc, h, c),
           IsExchange(e.source, doc.source, a, b, c, w)
    PROVE  \E m, v : Exchanged(doc, m, w, e, v, n, f, g, h, a, b, c)
<1>1. IsDocument(doc) /\ Long(doc, w)
  BY DocumentIs DEF OfLength, Long
<1>2. PICK m : HasRun(doc, m, w, n)
  BY <1>1, DocumentRun
<1>3. \E v : \E y, z \in Nat : HasRun(e, v, y, z)
  BY CandidateRun
<1>4. PICK v : \E y, z \in Nat : HasRun(e, v, y, z)
  BY <1>3
<1>5. PICK y, z \in Nat : HasRun(e, v, y, z)
  BY <1>4
<1>6. y = w /\ z = n
  BY <1>5 DEF HasRun, IsExchange, OfLength, Counted
<1>7. HasRun(e, v, w, n)
  BY <1>5, <1>6
<1>8. Exchanged(doc, m, w, e, v, n, f, g, h, a, b, c)
  BY <1>1, <1>2, <1>7 DEF Exchanged
<1> QED
  BY <1>8

-----------------------------------------------------------------------------
LEMMA StartsOrder ==
    ASSUME NEW d, IsDocument(d), NEW n \in Nat, Counted(d, n), NEW w \in Nat, OfLength(d.source, w),
           NEW j \in 1..(n + 1), NEW k \in 1..(n + 1), j < k
    PROVE  /\ StartOf(d, j) \in Nat /\ StartOf(d, k) \in Nat
           /\ StartOf(d, j) < StartOf(d, k) /\ StartOf(d, k) <= w
<1>1. j \in 1..n /\ k \in (j + 1)..(n + 1)
  OBVIOUS
<1>2. /\ d.sections[j].heading.end <= StartOf(d, k)
      /\ StartOf(d, j) = d.sections[j].heading.start
      /\ d.sections[j].heading.start < d.sections[j].heading.end
      /\ d.sections[j].heading.start \in Nat /\ d.sections[j].heading.end \in Nat
  BY <1>1, HeadBeforeStart
<1>3. StartOf(d, k) \in Nat /\ StartOf(d, k) <= w
  <2>1. n = Len(d.sections) /\ Len(d.source) = w
    BY DEF Counted, OfLength
  <2> QED
    BY <2>1, StartsIn
<1> QED
  BY <1>2, <1>3

LEMMA WholeSections ==
    ASSUME NEW d, IsDocument(d), NEW n \in Nat, Counted(d, n), NEW i \in 1..n, NEW l,
           Closer(d.sections, i, l)
    PROVE  \E V : IsWhole(V, d.sections, n, i, l)
<1>1. PICK V : d.sections \in Seq(V)
  BY SectionsSeq
<1>2. /\ OfLength(d.sections, n) /\ DOMAIN d.sections = 1..n
      /\ \A k \in 1..n : d.sections[k].level \in Nat
  BY SectionsSeq
<1>3. Levelled(d.sections, d, n)
  BY <1>2 DEF Levelled
<1>4. TreeEnds(d.sections, n, i, l)
  BY <1>2, <1>3, LevelledEnds
<1>5. IsWhole(V, d.sections, n, i, l)
  BY <1>1, <1>2, <1>4 DEF IsWhole
<1> QED
  BY <1>5

\* A forest is a sequence, ordered as the sections are.
LEMMA WholeForest ==
    ASSUME NEW d, IsDocument(d), NEW n \in Nat, Counted(d, n), NEW i \in 1..n, NEW l,
           Closer(d.sections, i, l)
    PROVE  \E V : IsWhole(V, ForestOf(d), n, i, l) /\ Levelled(ForestOf(d), d, n)
<1> DEFINE F == ForestOf(d)
           V == {Entry(d, k) : k \in 1..n}
<1>1. F = [k \in 1..n |-> Entry(d, k)]
  BY CountedForest
<1>2. \A k \in 1..n : Entry(d, k) \in V /\ Entry(d, k).level = d.sections[k].level
  BY DEF Entry
<1> HIDE DEF F, V
<1>3. F \in Seq(V) /\ OfLength(F, n) /\ DOMAIN F = 1..n
  <2>1. F \in [1..n -> V]
    BY <1>1, <1>2
  <2>2. F \in Seq(V)
    BY <2>1
  <2>3. Len(F) = n
    BY <1>1
  <2> QED
    BY <1>1, <2>2, <2>3 DEF OfLength
<1>4. Levelled(F, d, n)
  BY <1>1, <1>2, <1>3 DEF Levelled
<1>5. \A k \in 1..n : d.sections[k].level \in Nat
  BY SectionsSeq
<1>6. TreeEnds(F, n, i, l)
  BY <1>4, <1>5, LevelledEnds
<1>7. IsWhole(V, F, n, i, l) /\ Levelled(F, d, n)
  BY <1>3, <1>4, <1>6 DEF IsWhole
<1> QED
  BY <1>7 DEF F

LEMMA WholeDomain ==
    ASSUME NEW V, NEW z \in Seq(V), NEW n \in Nat, OfLength(z, n)
    PROVE  DOMAIN z = 1..n
BY DEF OfLength

-----------------------------------------------------------------------------
(***************************************************************************)
(* A planned move that was accepted, and the document it leads to.         *)
(***************************************************************************)
MoveMade(plan, e, n, w, i, l, t) ==
    /\ WellHeld /\ n \in Nat /\ w \in Nat /\ Counted(doc, n) /\ OfLength(doc.source, w)
    /\ IsGoal(doc, plan, n, i, l, t)
    /\ Accepted(Len(doc.source), PatchesOfMove(sections[i].range, plan.at))
    /\ e = Candidate(MoveChange(sections[i].range, plan.at))
    /\ MoveHolds(e, i, plan)

Swaps(d, e, f, g, h, n) ==
    /\ IsSwap(ForestOf(e), ForestOf(d), f, g, h, n)
    /\ PreambleOf(e) = PreambleOf(d)
    /\ IsDocument(e) /\ Counted(e, n)

LEMMA MoveUp ==
    ASSUME NEW plan, NEW e, NEW n, NEW w, NEW i, NEW l, NEW t, MoveMade(plan, e, n, w, i, l, t),
           ~UnderlineTitles(doc), t < i
    PROVE  Swaps(doc, e, t, i, l, n)
<1> DEFINE r == sections[i].range
           a == StartOf(doc, t)
           b == StartOf(doc, i)
           c == StartOf(doc, l)
<1>0. /\ WellHeld /\ n \in Nat /\ w \in Nat /\ Counted(doc, n) /\ OfLength(doc.source, w)
      /\ i \in Nat /\ l \in Nat /\ t \in Nat
      /\ 1 <= i /\ i < l /\ l <= n + 1 /\ 1 <= t /\ t <= n + 1 /\ plan.moved = t
      /\ IsGoal(doc, plan, n, i, l, t)
      /\ Closer(doc.sections, i, l) /\ SubtreeEnd(sections, i) = l
      /\ Reinserted(plan.expected, doc.sections, i, plan.moved)
      /\ e = Candidate(MoveChange(r, plan.at)) /\ MoveHolds(e, i, plan)
      /\ Accepted(Len(doc.source), PatchesOfMove(r, plan.at))
  BY DEF MoveMade, IsGoal, sections
<1>1. plan.at = a /\ r = [start |-> b, end |-> c]
  BY DEF MoveMade, IsGoal, sections
<1>2. IsDocument(doc)
  BY <1>0, DocumentIs
<1>3. a \in Nat /\ b \in Nat /\ c \in Nat /\ a < b /\ b < c /\ c <= w
  <2>1. t \in 1..(n + 1) /\ i \in 1..(n + 1) /\ l \in 1..(n + 1) /\ i < l
    BY <1>0
  <2>2. a \in Nat /\ b \in Nat /\ a < b /\ b <= w
    BY <1>0, <1>2, <2>1, StartsOrder
  <2>3. b \in Nat /\ c \in Nat /\ b < c /\ c <= w
    BY <1>0, <1>2, <2>1, StartsOrder
  <2> QED
    BY <2>2, <2>3
<1>4. StartIs(doc, t, a) /\ StartIs(doc, i, b) /\ StartIs(doc, l, c)
  BY DEF StartIs
<1> HIDE DEF r, a, b, c
<1>5. IsDocument(e) /\ IsExchange(e.source, doc.source, a, b, c, w)
  <2>1. Accepted(Len(doc.source), PatchesOfMove(r, a)) /\ e = Candidate(MoveChange(r, a))
    BY <1>0, <1>1
  <2>2. a <= w /\ (a < b \/ c < a)
    BY <1>0, <1>3
  <2> QED
    BY <1>0, <1>1, <1>3, <2>1, <2>2, MoveCut
<1>6. i \in 1..n
  BY <1>0
<1>7. PICK V : IsWhole(V, doc.sections, n, i, l)
  BY <1>0, <1>2, <1>6, WholeSections
<1>8. /\ IsCuts(t, i, l, n) /\ plan.expected \in Seq(V)
      /\ IsSwap(plan.expected, doc.sections, t, i, l, n)
  BY <1>0, <1>7, GoalUp
<1>9. DOMAIN plan.expected = 1..n
  BY <1>0, <1>8, WholeDomain DEF IsSwap
<1>10. /\ HeadingSequence(e, plan.expected)
       /\ SubtreeMoved(e, i, plan.moved, MovedOffset(r, plan.at))
  BY <1>0 DEF MoveHolds, r
<1>11. Counted(e, n) /\ ExchangedShapes(doc, e, n, t, i, l)
  <2>1. OfLength(e.source, w)
    BY <1>5 DEF IsExchange
  <2> QED
    BY <1>0, <1>2, <1>5, <1>8, <1>9, <1>10, <2>1, ShapesOf
<1>12. PICK m, v : Exchanged(doc, m, w, e, v, n, t, i, l, a, b, c)
  BY <1>0, <1>4, <1>5, <1>8, <1>11, ExchangedIs
<1> DEFINE s == t - i
           x == a - b
           y == l + s
           z == c + x
<1>13. /\ Region(doc, e, i, l, s, x) /\ StartIs(e, y, z)
  <2>1. MovedOffset(r, plan.at) = a
    BY <1>1, <1>3 DEF MovedOffset
  <2>2. SubtreeMoved(e, i, t, a)
    BY <1>0, <1>10, <2>1
  <2>3. IsTree(n, i, l, t)
    BY <1>0 DEF IsTree
  <2>4. \A k \in i..(l - 1) : SameShape(doc, e, k, k + s)
    BY <1>11 DEF ExchangedShapes
  <2>5. x = a - sections[i].range.start /\ x \in Int
    BY <1>1, <1>3 DEF r
  <2>6. s = t - i /\ y = l + s /\ z = c + x
    OBVIOUS
  <2> HIDE DEF s, x, y, z
  <2>7. Region(doc, e, i, l, s, x) /\ StartIs(e, y, c + x)
    BY <1>0, <1>2, <1>4, <1>5, <1>11, <2>2, <2>3, <2>4, <2>5, <2>6, MovedRegion
  <2> QED
    BY <2>6, <2>7
<1>14. y = t + (l - i) /\ z = a + (c - b) /\ y \in 1..n
  BY <1>0, <1>3
<1>15. BeginsAt(e, y, z)
  <2> HIDE DEF y, z
  <2>1. n = Len(e.sections)
    BY <1>11 DEF Counted
  <2>2. StartOf(e, y) = e.sections[y].heading.start
    BY <1>0, <1>14, <2>1 DEF StartOf
  <2> QED
    BY <1>13, <2>2 DEF StartIs, BeginsAt
<1>16. Region(doc, e, i, l, t - i, a - b)
  BY <1>13
<1> HIDE DEF s, x, y, z
<1>17. AllRegions(doc, e, n, t, i, l, a, b, c)
  BY <1>11, <1>12, <1>14, <1>15, <1>16, RegionsUp
<1> QED
  BY <1>5, <1>11, <1>12, <1>17, ExchangedForest, ExchangedPreamble DEF Swaps

LEMMA MoveDown ==
    ASSUME NEW plan, NEW e, NEW n, NEW w, NEW i, NEW l, NEW t, MoveMade(plan, e, n, w, i, l, t),
           ~UnderlineTitles(doc), l < t
    PROVE  Swaps(doc, e, i, l, t, n)
<1> DEFINE r == sections[i].range
           a == StartOf(doc, i)
           b == StartOf(doc, l)
           c == StartOf(doc, t)
           p == t - (l - i)
<1>0. /\ WellHeld /\ n \in Nat /\ w \in Nat /\ Counted(doc, n) /\ OfLength(doc.source, w)
      /\ i \in Nat /\ l \in Nat /\ t \in Nat
      /\ 1 <= i /\ i < l /\ l <= n + 1 /\ 1 <= t /\ t <= n + 1 /\ plan.moved = p
      /\ IsGoal(doc, plan, n, i, l, t)
      /\ Closer(doc.sections, i, l) /\ SubtreeEnd(sections, i) = l
      /\ Reinserted(plan.expected, doc.sections, i, plan.moved)
      /\ e = Candidate(MoveChange(r, plan.at)) /\ MoveHolds(e, i, plan)
      /\ Accepted(Len(doc.source), PatchesOfMove(r, plan.at))
  BY DEF MoveMade, IsGoal, sections
<1>1. plan.at = c /\ r = [start |-> a, end |-> b]
  BY DEF MoveMade, IsGoal, sections
<1>2. IsDocument(doc)
  BY <1>0, DocumentIs
<1>3. a \in Nat /\ b \in Nat /\ c \in Nat /\ a < b /\ b < c /\ c <= w
  <2>1. t \in 1..(n + 1) /\ i \in 1..(n + 1) /\ l \in 1..(n + 1) /\ i < l
    BY <1>0
  <2>2. a \in Nat /\ b \in Nat /\ a < b /\ b <= w
    BY <1>0, <1>2, <2>1, StartsOrder
  <2>3. b \in Nat /\ c \in Nat /\ b < c /\ c <= w
    BY <1>0, <1>2, <2>1, StartsOrder
  <2> QED
    BY <2>2, <2>3
<1>4. StartIs(doc, i, a) /\ StartIs(doc, l, b) /\ StartIs(doc, t, c)
  BY DEF StartIs
<1>40. p \in Nat /\ 1 <= p /\ p + (l - i) <= n + 1 /\ p - i = t - l
  BY <1>0
<1> HIDE DEF r, a, b, c, p
<1>5. IsDocument(e) /\ IsExchange(e.source, doc.source, a, b, c, w)
  <2>1. Accepted(Len(doc.source), PatchesOfMove(r, c)) /\ e = Candidate(MoveChange(r, c))
    BY <1>0, <1>1
  <2>2. b <= w /\ b < c /\ (c < a \/ b < c)
    BY <1>0, <1>3
  <2> QED
    BY <1>0, <1>1, <1>3, <2>1, <2>2, MoveCut
<1>6. i \in 1..n
  BY <1>0
<1>7. PICK V : IsWhole(V, doc.sections, n, i, l)
  BY <1>0, <1>2, <1>6, WholeSections
<1>8. /\ IsCuts(i, l, t, n) /\ plan.expected \in Seq(V)
      /\ IsSwap(plan.expected, doc.sections, i, l, t, n)
  BY <1>0, <1>7, GoalDown
<1>9. DOMAIN plan.expected = 1..n
  BY <1>0, <1>8, WholeDomain DEF IsSwap
<1>10. /\ HeadingSequence(e, plan.expected)
       /\ SubtreeMoved(e, i, plan.moved, MovedOffset(r, plan.at))
  BY <1>0 DEF MoveHolds, r
<1>11. Counted(e, n) /\ ExchangedShapes(doc, e, n, i, l, t)
  <2>1. OfLength(e.source, w)
    BY <1>5 DEF IsExchange
  <2> QED
    BY <1>0, <1>2, <1>5, <1>8, <1>9, <1>10, <2>1, ShapesOf
<1>12. PICK m, v : Exchanged(doc, m, w, e, v, n, i, l, t, a, b, c)
  BY <1>0, <1>4, <1>5, <1>8, <1>11, ExchangedIs
<1> DEFINE s == t - l
           x == c - b
           o == c - (b - a)
           y == l + s
<1>13. /\ Region(doc, e, i, l, s, x) /\ StartIs(e, t, c)
  <2>1. MovedOffset(r, plan.at) = o
    BY <1>1, <1>3 DEF MovedOffset
  <2>2. SubtreeMoved(e, i, p, o)
    BY <1>0, <1>10, <2>1
  <2>3. IsTree(n, i, l, p)
    BY <1>0, <1>40 DEF IsTree
  <2>4. \A k \in i..(l - 1) : SameShape(doc, e, k, k + s)
    BY <1>11 DEF ExchangedShapes
  <2>5. x = o - sections[i].range.start /\ x \in Int
    BY <1>1, <1>3 DEF r
  <2>6. s = p - i /\ y = l + s /\ y = t /\ b + x = c
    BY <1>0, <1>3, <1>40
  <2> HIDE DEF s, x, y, o
  <2>7. Region(doc, e, i, l, s, x) /\ StartIs(e, y, b + x)
    BY <1>0, <1>2, <1>4, <1>5, <1>11, <2>2, <2>3, <2>4, <2>5, <2>6, MovedRegion
  <2> QED
    BY <2>6, <2>7
<1>14. ASSUME t <= n PROVE BeginsAt(e, t, c)
  <2>1. n = Len(e.sections)
    BY <1>11 DEF Counted
  <2>2. StartOf(e, t) = e.sections[t].heading.start
    BY <1>0, <1>14, <2>1 DEF StartOf
  <2> QED
    BY <1>13, <2>2 DEF StartIs, BeginsAt
<1>15. Region(doc, e, i, l, t - l, c - b)
  BY <1>13
<1> HIDE DEF s, x, y, o
<1>16. AllRegions(doc, e, n, i, l, t, a, b, c)
  BY <1>11, <1>12, <1>14, <1>15, RegionsDown
<1> QED
  BY <1>5, <1>11, <1>12, <1>16, ExchangedForest, ExchangedPreamble DEF Swaps

-----------------------------------------------------------------------------
LEMMA WholeWider ==
    ASSUME NEW V, NEW W, NEW F, NEW n, NEW i, NEW l, IsWhole(V, F, n, i, l), V \subseteq W
    PROVE  IsWhole(W, F, n, i, l)
<1>1. F \in Seq(V) /\ OfLength(F, n) /\ DOMAIN F = 1..n /\ TreeEnds(F, n, i, l)
  BY DEF IsWhole
<1>2. F \in Seq(W)
  BY <1>1
<1> QED
  BY <1>1, <1>2 DEF IsWhole

(***************************************************************************)
(* The outline of the document a move leads to is the outline with the     *)
(* tree taken out and put back.                                            *)
(***************************************************************************)
LEMMA MoveReinserts ==
    ASSUME NEW plan, NEW e, NEW n, NEW w, NEW i, NEW l, NEW t, MoveMade(plan, e, n, w, i, l, t),
           ~UnderlineTitles(doc), t < i \/ l < t
    PROVE  Reinserted(ForestOf(e), ForestOf(doc), i, plan.moved) /\ PreambleOf(e) = PreambleOf(doc)
<1> DEFINE F == ForestOf(doc)
           G == ForestOf(e)
           p == plan.moved
           z == O!Insert(O!Without(F, i), p, O!Tree(F, i))
           A == {Entry(doc, k) : k \in 1..n}
           B == {Entry(e, k) : k \in 1..n}
           V == A \cup B
<1>0. /\ WellHeld /\ n \in Nat /\ Counted(doc, n) /\ IsGoal(doc, plan, n, i, l, t)
      /\ i \in 1..n /\ Closer(doc.sections, i, l)
  BY DEF MoveMade, IsGoal
<1>1. IsDocument(doc)
  BY <1>0, DocumentIs
<1>2. PICK W : IsWhole(W, F, n, i, l)
  BY <1>0, <1>1, WholeForest
<1>3. F \in Seq(V)
  <2>1. F = [k \in 1..n |-> Entry(doc, k)]
    BY <1>0, <1>1, CountedForest
  <2>2. \A k \in 1..n : Entry(doc, k) \in V
    OBVIOUS
  <2> HIDE DEF F, V
  <2>3. F \in [1..n -> V]
    BY <2>1, <2>2
  <2> QED
    BY <1>0, <2>3
<1>4. IsWhole(V, F, n, i, l)
  BY <1>2, <1>3 DEF IsWhole
<1>5. Reinserted(z, F, i, p)
  BY DEF Reinserted
<1>6. ASSUME IsDocument(e), Counted(e, n) PROVE G \in Seq(V)
  <2>1. G = [k \in 1..n |-> Entry(e, k)]
    BY <1>0, <1>6, CountedForest
  <2>2. \A k \in 1..n : Entry(e, k) \in V
    OBVIOUS
  <2> HIDE DEF G, V
  <2>3. G \in [1..n -> V]
    BY <2>1, <2>2
  <2> QED
    BY <1>0, <2>3
<1> HIDE DEF z, V
<1>7. CASE t < i
  <2>1. Swaps(doc, e, t, i, l, n)
    BY <1>7, MoveUp
  <2>2. IsSwap(G, F, t, i, l, n) /\ PreambleOf(e) = PreambleOf(doc) /\ G \in Seq(V)
    BY <1>6, <2>1 DEF Swaps
  <2>3. Reinserted(z, F, i, plan.moved)
    BY <1>5
  <2> HIDE DEF F, G, p
  <2>4. IsCuts(t, i, l, n) /\ z \in Seq(V) /\ IsSwap(z, F, t, i, l, n)
    BY <1>0, <1>4, <1>7, <2>3, GoalUp
  <2>5. z = G
    BY <2>2, <2>4, SwapUnique
  <2> QED
    BY <2>2, <2>3, <2>5 DEF F, G
<1>8. CASE l < t
  <2>1. Swaps(doc, e, i, l, t, n)
    BY <1>8, MoveDown
  <2>2. IsSwap(G, F, i, l, t, n) /\ PreambleOf(e) = PreambleOf(doc) /\ G \in Seq(V)
    BY <1>6, <2>1 DEF Swaps
  <2>3. Reinserted(z, F, i, plan.moved)
    BY <1>5
  <2> HIDE DEF F, G, p
  <2>4. IsCuts(i, l, t, n) /\ z \in Seq(V) /\ IsSwap(z, F, i, l, t, n)
    BY <1>0, <1>4, <1>8, <2>3, GoalDown
  <2>5. z = G
    BY <2>2, <2>4, SwapUnique
  <2> QED
    BY <2>2, <2>3, <2>5 DEF F, G
<1> QED
  BY <1>7, <1>8

(***************************************************************************)
(* What a held change does to the document, in terms of the outline.       *)
(***************************************************************************)
Leads(d, e) == e = d \/ UnderlineTitles(d) \/ Outlined(d, e) \/ Appended(d, e)

LeadingHeld ==
    \E o, c : o.kind \notin HeadingEdits /\ Hold(o, c) /\ Leads(doc, Candidate(c))

LEMMA MoveLeads ==
    ASSUME WellHeld, NEW plan, NEW n, NEW w, NEW i, NEW l, NEW j, NEW q, NEW after \in BOOLEAN,
           IsPlan(doc, plan, n, i, l, j, q, after), w \in Nat, OfLength(doc.source, w),
           plan.expected # doc.sections,
           Accepted(Len(doc.source), PatchesOfMove(sections[i].range, plan.at)),
           NEW e, e = Candidate(MoveChange(sections[i].range, plan.at)), MoveHolds(e, i, plan)
    PROVE  UnderlineTitles(doc) \/ Outlined(doc, e)
<1> SUFFICES ASSUME ~UnderlineTitles(doc) PROVE Outlined(doc, e)
  OBVIOUS
<1>1. IsMove(doc, n, i, l, j, q)
  BY DEF IsPlan
<1>2. /\ n \in Nat /\ Counted(doc, n) /\ i \in 1..n /\ Closer(doc.sections, i, l)
  BY <1>1 DEF IsMove
<1>3. IsDocument(doc)
  BY DocumentIs
<1>4. PICK t : IsGoal(doc, plan, n, i, l, t)
  BY PlanGoal
<1>5. MoveMade(plan, e, n, w, i, l, t)
  BY <1>2, <1>4 DEF MoveMade
<1>6. t < i \/ l < t
  <2>1. PICK V : IsWhole(V, doc.sections, n, i, l)
    BY <1>2, <1>3, WholeSections
  <2> DEFINE F == doc.sections
             z == plan.expected
  <2>2. Reinserted(z, F, i, plan.moved) /\ IsWhole(V, F, n, i, l) /\ z # F
    BY <1>4, <2>1 DEF IsGoal
  <2> HIDE DEF F, z
  <2> QED
    BY <1>4, <2>2, GoalSame
<1>7. /\ Reinserted(ForestOf(e), ForestOf(doc), i, plan.moved)
      /\ PreambleOf(e) = PreambleOf(doc)
  BY <1>5, <1>6, MoveReinserts
<1>8. PICK V : IsWhole(V, ForestOf(doc), n, i, l) /\ Levelled(ForestOf(doc), doc, n)
  BY <1>2, <1>3, WholeForest
<1> DEFINE F == ForestOf(doc)
           G == ForestOf(e)
           J == Remainder(j, i, l)
           P == J + (q - j)
           p == plan.moved
<1>9. F \in Seq(V) /\ DOMAIN F = 1..n
  BY <1>8 DEF IsWhole
<1>10. p = IF after THEN P ELSE J
  BY DEF IsPlan
<1>11. J = Remainder(j, i, l) /\ P = J + (q - j) /\ Reinserted(G, F, i, p) /\ Levelled(F, doc, n)
  BY <1>7, <1>8
<1> HIDE DEF F, G, J, P, p
<1>12. G \in O!Edits(F, i)
  BY <1>1, <1>9, <1>10, <1>11, MoveIsEdit
<1> QED
  BY <1>2, <1>7, <1>9, <1>12 DEF Outlined, F, G

-----------------------------------------------------------------------------
LEMMA LeadingIs ==
    ASSUME NEW o, NEW c, o.kind \notin HeadingEdits, Hold(o, c), Leads(doc, Candidate(c))
    PROVE  LeadingHeld
BY DEF LeadingHeld

LEMMA OutlinedLeads ==
    ASSUME NEW o, NEW c, o.kind \notin HeadingEdits, Hold(o, c), Outlined(doc, Candidate(c))
    PROVE  LeadingHeld
<1>1. Leads(doc, Candidate(c))
  BY Zenon DEF Leads
<1> QED
  BY <1>1, LeadingIs

LEMMA MovePrepared ==
    ASSUME WellHeld, NEW i \in Targets, NEW j \in Targets, NEW after \in BOOLEAN,
           PrepareMoveSection(i, j, after)
    PROVE  LeadingHeld
<1> DEFINE r == sections[i].range
           plan == MovePlan(i, j, after)
           change == MoveChange(r, plan.at)
           none == Change(<< >>)
           operation == [kind |-> "move", at |-> i]
<1>0. operation.kind \notin HeadingEdits
  BY DEF HeadingEdits
<1>1. /\ i # j /\ sections[i].level = sections[j].level
      /\ \/ plan.expected = sections /\ Hold(operation, none)
         \/ /\ plan.expected # sections
            /\ Accepted(Len(doc.source), PatchesOfMove(r, plan.at))
            /\ MoveHolds(Candidate(change), i, plan)
            /\ Hold(operation, change)
  <2> HIDE DEF plan, none
  <2> QED
    BY DEF PrepareMoveSection, PatchesOfMove, MoveChange, plan, none
<1>2. IsDocument(doc) /\ Len(doc.source) \in Nat /\ Len(doc.sections) \in Nat
  BY DocumentIs
<1>3. PICK n \in Nat : Counted(doc, n)
  BY <1>2 DEF Counted
<1>4. PICK w \in Nat : OfLength(doc.source, w)
  BY <1>2 DEF OfLength
<1>5. plan = MovePlan(i, j, after)
  OBVIOUS
<1>6. Candidate(none) = doc
  BY UnchangedIs
<1> HIDE DEF r, plan, change, none, operation
<1>7. PICK l, q : IsPlan(doc, plan, n, i, l, j, q, after)
  BY <1>1, <1>3, <1>5, MovePlanIs
<1>8. CASE plan.expected = sections /\ Hold(operation, none)
  <2>1. Leads(doc, Candidate(none))
    BY <1>6, Zenon DEF Leads
  <2> QED
    BY <1>0, <1>8, <2>1, LeadingIs
<1>9. CASE /\ plan.expected # sections
           /\ Accepted(Len(doc.source), PatchesOfMove(r, plan.at))
           /\ MoveHolds(Candidate(change), i, plan)
           /\ Hold(operation, change)
  <2> DEFINE e == Candidate(change)
  <2>1. /\ plan.expected # doc.sections
        /\ Accepted(Len(doc.source), PatchesOfMove(sections[i].range, plan.at))
        /\ e = Candidate(MoveChange(sections[i].range, plan.at)) /\ MoveHolds(e, i, plan)
    BY <1>9 DEF sections, r, change
  <2> HIDE DEF e
  <2>2. UnderlineTitles(doc) \/ Outlined(doc, e)
    BY <1>4, <1>7, <2>1, MoveLeads
  <2>3. Leads(doc, e)
    BY <2>2, Zenon DEF Leads
  <2> QED
    BY <1>0, <1>9, <2>3, LeadingIs DEF e
<1> QED
  BY <1>1, <1>8, <1>9

LEMMA EditsPrepared ==
    ASSUME WellHeld
    PROVE  /\ \A i \in Targets : PrepareRemoveSection(i) => LeadingHeld
           /\ \A i \in Targets, f \in Fragments : PrepareReplaceSection(i, f) => LeadingHeld
           /\ \A i \in Targets, f \in Fragments, after \in BOOLEAN :
                 PrepareInsertSection(i, f, after) => LeadingHeld
           /\ \A i \in Targets, f \in Fragments : PrepareAppendSectionChild(i, f) => LeadingHeld
           /\ \A i \in Targets, body \in NewBodies : PrepareReplaceSectionBody(i, body) => LeadingHeld
           /\ \A label \in Definitions : PrepareAppendDefinition(label) => LeadingHeld
<1>1. ASSUME NEW i \in Targets, PrepareRemoveSection(i) PROVE LeadingHeld
  <2> DEFINE o == [kind |-> "remove", at |-> i]
             c == Change(<<Patch(sections[i].range.start, sections[i].range.end, << >>)>>)
  <2>1. Outlined(doc, Candidate(c)) /\ Hold(o, c)
    BY <1>1, RemoveOutlined
  <2>2. o.kind \notin HeadingEdits
    BY DEF HeadingEdits
  <2> HIDE DEF o, c
  <2> QED
    BY <2>1, <2>2, OutlinedLeads
<1>2. ASSUME NEW i \in Targets, NEW f \in Fragments, PrepareReplaceSection(i, f) PROVE LeadingHeld
  <2> DEFINE o == [kind |-> "replace", at |-> i]
             c == Change(<<Patch(sections[i].range.start, sections[i].range.end, f)>>)
  <2>1. Outlined(doc, Candidate(c)) /\ Hold(o, c)
    BY <1>2, ReplaceOutlined
  <2>2. o.kind \notin HeadingEdits
    BY DEF HeadingEdits
  <2> HIDE DEF o, c
  <2> QED
    BY <2>1, <2>2, OutlinedLeads
<1>3. ASSUME NEW i \in Targets, NEW f \in Fragments, NEW after \in BOOLEAN,
             PrepareInsertSection(i, f, after)
      PROVE  LeadingHeld
  <2> DEFINE o == [kind |-> "insert", at |-> i]
  <2>1. PICK c : Outlined(doc, Candidate(c)) /\ Hold(o, c)
    BY <1>3, InsertOutlined
  <2>2. o.kind \notin HeadingEdits
    BY DEF HeadingEdits
  <2> HIDE DEF o
  <2> QED
    BY <2>1, <2>2, OutlinedLeads
<1>4. ASSUME NEW i \in Targets, NEW f \in Fragments, PrepareAppendSectionChild(i, f)
      PROVE  LeadingHeld
  <2> DEFINE o == [kind |-> "child", at |-> i, fragment |-> f]
  <2>1. PICK c : Outlined(doc, Candidate(c)) /\ Hold(o, c)
    BY <1>4, ChildOutlined
  <2>2. o.kind \notin HeadingEdits
    BY DEF HeadingEdits
  <2> HIDE DEF o
  <2> QED
    BY <2>1, <2>2, OutlinedLeads
<1>5. ASSUME NEW i \in Targets, NEW body \in NewBodies, PrepareReplaceSectionBody(i, body)
      PROVE  LeadingHeld
  <2> DEFINE o == [kind |-> "body", at |-> i]
             c == Change(<<BodyPatch(doc, i, body)>>)
  <2>1. Outlined(doc, Candidate(c)) /\ Hold(o, c)
    BY <1>5, BodyOutlined
  <2>2. o.kind \notin HeadingEdits
    BY DEF HeadingEdits
  <2> HIDE DEF o, c
  <2> QED
    BY <2>1, <2>2, OutlinedLeads
<1>6. ASSUME NEW label \in Definitions, PrepareAppendDefinition(label) PROVE LeadingHeld
  <2> DEFINE o == [kind |-> "definition"]
  <2>1. PICK c : Appended(doc, Candidate(c)) /\ Hold(o, c)
    BY <1>6, AppendOutlined
  <2>2. o.kind \notin HeadingEdits
    BY DEF HeadingEdits
  <2> HIDE DEF o
  <2>3. Leads(doc, Candidate(c))
    BY <2>1, Zenon DEF Leads
  <2> QED
    BY <2>1, <2>2, <2>3, LeadingIs
<1> QED
  BY <1>1, <1>2, <1>3, <1>4, <1>5, <1>6

-----------------------------------------------------------------------------
(***************************************************************************)
(* The section edits implement the outline: when one change at a time is   *)
(* held, it leads from the document to one the outline's edits lead to.    *)
(***************************************************************************)
LeadsTo(d, p) == Leads(d, Doc(Splice(d.source, p.change.patches)))

OutlineHeld ==
    batch = 1 => Len(pool) <= 1 /\ \A k \in DOMAIN pool : LeadsTo(doc, pool[k])

LEMMA EmptyPool ==
    ASSUME WellHeld, LocalHeld, batch = 1, Len(Prepared) < batch
    PROVE  pool = << >> /\ Len(pool) = 0
<1>1. PICK S : pool \in Seq(S)
  BY DEF WellHeld
<1>2. Len(pool) = 0
  <2> SUFFICES ASSUME Len(pool) # 0 PROVE FALSE
    OBVIOUS
  <2> DEFINE z == Len(Prepared)
  <2>1. z \in Nat \ {0}
    BY PreparedIs
  <2>2. z < 1
    OBVIOUS
  <2> HIDE DEF z
  <2> QED
    BY <2>1, <2>2
<1> QED
  BY <1>1, <1>2

LEMMA LeadingStep ==
    ASSUME WellHeld, LocalHeld, OutlineHeld, LeadingHeld
    PROVE  LocalHeld' /\ OutlineHeld'
<1>1. PICK o, c : o.kind \notin HeadingEdits /\ Hold(o, c) /\ Leads(doc, Candidate(c))
  BY DEF LeadingHeld
<1>2. LocalHeld'
  <2>1. OtherHeld
    BY <1>1, OtherIs
  <2> QED
    BY <2>1, OtherLocal
<1> DEFINE x == [operations |-> <<o>>, change |-> c]
<1>3. /\ Len(Prepared) < batch
      /\ pool' = Append(pool, x) /\ doc' = doc /\ batch' = batch
  BY <1>1 DEF Hold
<1>4. LeadsTo(doc, x)
  <2>1. x.change = c
    OBVIOUS
  <2> HIDE DEF x
  <2> QED
    BY <1>1, <2>1 DEF LeadsTo, Candidate
<1> HIDE DEF x
<1>5. ASSUME batch = 1 PROVE Len(pool') <= 1 /\ \A k \in DOMAIN pool' : LeadsTo(doc, pool'[k])
  <2>1. pool = << >>
    BY <1>3, <1>5, EmptyPool
  <2>2. pool' = <<x>>
    BY <1>3, <2>1
  <2>3. Len(pool') = 1 /\ DOMAIN pool' = {1} /\ pool'[1] = x
    BY <2>2
  <2> QED
    BY <1>4, <2>3
<1>6. OutlineHeld'
  BY <1>3, <1>5 DEF OutlineHeld
<1> QED
  BY <1>2, <1>6

LEMMA OutlineStep ==
    ASSUME WellHeld, LocalHeld, OutlineHeld, [Next]_vars
    PROVE  LocalHeld' /\ OutlineHeld'
<1>1. ASSUME LeadingHeld PROVE LocalHeld' /\ OutlineHeld'
  BY <1>1, LeadingStep
<1>2. ASSUME NEW i \in Targets, PrepareRemoveSection(i) PROVE LeadingHeld
  BY <1>2, EditsPrepared
<1>3. ASSUME NEW i \in Targets, NEW f \in Fragments, PrepareReplaceSection(i, f) PROVE LeadingHeld
  BY <1>3, EditsPrepared
<1>4. ASSUME NEW i \in Targets, NEW f \in Fragments, NEW after \in BOOLEAN,
             PrepareInsertSection(i, f, after)
      PROVE  LeadingHeld
  BY <1>4, EditsPrepared
<1>5. ASSUME NEW i \in Targets, NEW f \in Fragments, PrepareAppendSectionChild(i, f)
      PROVE  LeadingHeld
  BY <1>5, EditsPrepared
<1>6. ASSUME NEW i \in Targets, NEW anchor \in Targets, NEW after \in BOOLEAN,
             PrepareMoveSection(i, anchor, after)
      PROVE  LeadingHeld
  BY <1>6, MovePrepared
<1>7. ASSUME NEW i \in Targets, NEW body \in NewBodies, PrepareReplaceSectionBody(i, body)
      PROVE  LeadingHeld
  BY <1>7, EditsPrepared
<1>8. ASSUME NEW label \in Definitions, PrepareAppendDefinition(label) PROVE LeadingHeld
  BY <1>8, EditsPrepared
<1>9. ASSUME Compose PROVE LocalHeld' /\ OutlineHeld'
  <2>1. LocalHeld'
    BY <1>9, ComposeLocal
  <2>2. Len(pool) = 2 /\ batch' = batch
    BY <1>9 DEF Compose
  <2>3. batch # 1
    BY <2>2 DEF OutlineHeld
  <2>4. OutlineHeld'
    BY <2>2, <2>3 DEF OutlineHeld
  <2> QED
    BY <2>1, <2>4
<1>10. ASSUME NEW i \in 1..MaxPool, Apply(i) PROVE LocalHeld' /\ OutlineHeld'
  <2>1. LocalHeld'
    BY <1>10, ApplyLocal
  <2>2. pool' = << >>
    BY <1>10 DEF Apply
  <2>3. Len(pool') <= 1 /\ DOMAIN pool' = {}
    BY <2>2
  <2>4. OutlineHeld'
    BY <2>3 DEF OutlineHeld
  <2> QED
    BY <2>1, <2>4
<1>11. ASSUME UNCHANGED vars PROVE LocalHeld' /\ OutlineHeld'
  <2>1. pool' = pool /\ doc' = doc /\ batch' = batch
    BY <1>11 DEF vars
  <2> QED
    BY <2>1 DEF LocalHeld, OutlineHeld
<1> QED
  BY <1>1, <1>2, <1>3, <1>4, <1>5, <1>6, <1>7, <1>8, <1>9, <1>10, <1>11 DEF Next

\* Only Apply changes the document.
LEMMA StepKeepsDocument ==
    ASSUME [Next]_vars
    PROVE  (\E i \in 1..MaxPool : Apply(i)) \/ doc' = doc
<1>1. ASSUME NEW o, NEW c, Hold(o, c) PROVE doc' = doc
  BY <1>1 DEF Hold
<1>2. ASSUME NEW i \in Targets, PrepareRemoveSection(i) PROVE doc' = doc
  BY <1>1, <1>2 DEF PrepareRemoveSection
<1>3. ASSUME NEW i \in Targets, NEW f \in Fragments, PrepareReplaceSection(i, f) PROVE doc' = doc
  BY <1>1, <1>3 DEF PrepareReplaceSection
<1>4. ASSUME NEW i \in Targets, NEW f \in Fragments, NEW after \in BOOLEAN,
             PrepareInsertSection(i, f, after)
      PROVE  doc' = doc
  BY <1>1, <1>4 DEF PrepareInsertSection
<1>5. ASSUME NEW i \in Targets, NEW f \in Fragments, PrepareAppendSectionChild(i, f)
      PROVE  doc' = doc
  BY <1>1, <1>5 DEF PrepareAppendSectionChild
<1>6. ASSUME NEW i \in Targets, NEW anchor \in Targets, NEW after \in BOOLEAN,
             PrepareMoveSection(i, anchor, after)
      PROVE  doc' = doc
  BY <1>1, <1>6 DEF PrepareMoveSection
<1>7. ASSUME NEW i \in Targets, NEW body \in NewBodies, PrepareReplaceSectionBody(i, body)
      PROVE  doc' = doc
  BY <1>1, <1>7 DEF PrepareReplaceSectionBody
<1>8. ASSUME NEW label \in Definitions, PrepareAppendDefinition(label) PROVE doc' = doc
  BY <1>1, <1>8 DEF PrepareAppendDefinition
<1>9. ASSUME Compose PROVE doc' = doc
  BY <1>9 DEF Compose
<1>10. ASSUME UNCHANGED vars PROVE doc' = doc
  BY <1>10 DEF vars
<1> QED
  BY <1>2, <1>3, <1>4, <1>5, <1>6, <1>7, <1>8, <1>9, <1>10 DEF Next

\* What Leads says of the outline's next step.
LEMMA LeadsNext ==
    ASSUME OutlineHeld, batch = 1, ~UnderlineTitles(doc), NEW i, Apply(i)
    PROVE  O!Next \/ UNCHANGED (O!vars)
<1>1. i \in DOMAIN pool /\ doc' = Doc(Splice(doc.source, pool[i].change.patches))
  BY DEF Apply, Candidate
<1>2. Leads(doc, doc')
  BY <1>1 DEF OutlineHeld, LeadsTo
<1>3. CASE doc' = doc
  BY <1>3 DEF O!vars
<1>4. CASE Outlined(doc, doc')
  <2>1. /\ PreambleOf(doc') = PreambleOf(doc)
        /\ \E k \in DOMAIN ForestOf(doc) : ForestOf(doc') \in O!Edits(ForestOf(doc), k)
    BY <1>4 DEF Outlined
  <2>2. O!Edit
    BY <2>1 DEF O!Edit
  <2> QED
    BY <2>2 DEF O!Next
<1>5. CASE Appended(doc, doc')
  <2>1. O!AppendText
    BY <1>5 DEF Appended, O!AppendText
  <2> QED
    BY <2>1 DEF O!Next
<1> QED
  BY <1>2, <1>3, <1>4, <1>5, Zenon DEF Leads

(***************************************************************************)
(* The section edits implement the outline, in every sequence of edits of  *)
(* any texts: a change that was accepted and is applied does to the        *)
(* outline what its name says, to the preamble and every other section     *)
(* nothing.                                                                *)
(***************************************************************************)
THEOREM SectionEditsImplementOutline == Spec => ImplementsOutline
<1>1. Init => LocalHeld /\ OutlineHeld
  BY DEF Init, LocalHeld, OutlineHeld
<1>2. WellHeld /\ LocalHeld /\ OutlineHeld /\ [Next]_vars => LocalHeld' /\ OutlineHeld'
  BY OutlineStep
<1>3. Init => O!Init
  BY DEF O!Init
<1>4. WellHeld /\ OutlineHeld /\ [Next]_vars
         => [batch = 1 /\ ~UnderlineTitles(doc) => O!Next]_(O!vars)
  <2> SUFFICES ASSUME OutlineHeld, [Next]_vars, batch = 1, ~UnderlineTitles(doc)
               PROVE  O!Next \/ UNCHANGED (O!vars)
    OBVIOUS
  <2>1. ASSUME NEW i, Apply(i) PROVE O!Next \/ UNCHANGED (O!vars)
    BY <2>1, LeadsNext
  <2>2. ASSUME doc' = doc PROVE UNCHANGED (O!vars)
    BY <2>2 DEF O!vars
  <2>3. (\E i \in 1..MaxPool : Apply(i)) \/ doc' = doc
    BY StepKeepsDocument
  <2> QED
    BY <2>1, <2>2, <2>3
<1> QED
  BY <1>1, <1>2, <1>3, <1>4, TextsOfSpec, PTL DEF Spec, ImplementsOutline
=============================================================================
