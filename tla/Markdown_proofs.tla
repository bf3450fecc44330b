--------------------------- MODULE Markdown_proofs --------------------------
(***************************************************************************)
(* What the block parser and buildSections make of a text, for every text: *)
(* headings lie in order on whole lines, and a section ends where the next *)
(* heading of its rank or a higher begins.  How two runs of the parser     *)
(* over the same bytes compare, and when a section of one document is a    *)
(* section of another.                                                     *)
(***************************************************************************)
EXTENDS Markdown, Foundations

\* Said of a length without the length, which the solver reads better.
OfLength(s, n) == Len(s) = n

-----------------------------------------------------------------------------
(***************************************************************************)
(* Lines.                                                                  *)
(***************************************************************************)
LEMMA MinIs ==
    ASSUME NEW S \in SUBSET Nat, S # {}
    PROVE  Min(S) \in S /\ \A x \in S : Min(S) <= x
<1> DEFINE X == {n \in Nat : n \notin S}
<1>1. \E m \in S : \A x \in S : m <= x
  <2> SUFFICES ASSUME \A m \in S : \E x \in S : ~(m <= x)
               PROVE  FALSE
    BY Zenon
  <2>1. ASSUME NEW n \in Nat, \A m \in Nat : m < n => m \in X
        PROVE  n \in X
    BY <2>1
  <2>2. Nat \subseteq X
    <3>1. \A n \in Nat : (\A m \in Nat : m < n => m \in X) => n \in X
      BY <2>1
    <3> HIDE DEF X
    <3> QED
      BY <3>1, NatStrongInduction
  <2> QED
    BY <2>2
<1> QED
  BY <1>1 DEF Min

IsText(s) == \E T : s \in Seq(T)

LEMMA TextIs ==
    ASSUME NEW s, IsText(s)
    PROVE  /\ Len(s) \in Nat
           /\ DOMAIN s = 1..Len(s)
           /\ s = [i \in 1..Len(s) |-> s[i]]
BY DEF IsText

LEMMA LineEndIs ==
    ASSUME NEW s, IsText(s), NEW a \in 0..Len(s)
    PROVE  /\ LineEnd(s, a) \in a..Len(s)
           /\ LineEnd(s, a) = Len(s) \/ s[LineEnd(s, a) + 1] = "nl"
           /\ \A j \in a..(LineEnd(s, a) - 1) : s[j + 1] # "nl"
<1> DEFINE n == Len(s)
           S == {i \in a..n : i = n \/ s[i + 1] = "nl"}
<1>1. n \in Nat
  BY TextIs
<1>2. S \in SUBSET Nat /\ n \in S
  BY <1>1
<1>3. Min(S) \in S /\ \A x \in S : Min(S) <= x
  <2> HIDE DEF S
  <2> QED
    BY <1>2, MinIs
<1> DEFINE e == Min(S)
<1>4. e \in a..n /\ (e = n \/ s[e + 1] = "nl")
  BY <1>3
<1>5. ASSUME NEW j \in a..(e - 1) PROVE s[j + 1] # "nl"
  <2>1. j \in a..n /\ ~(e <= j)
    BY <1>1, <1>4
  <2> QED
    BY <1>3, <2>1
<1>6. LineEnd(s, a) = e
  BY DEF LineEnd
<1> HIDE DEF e
<1> QED
  BY <1>4, <1>5, <1>6 DEF n

\* A line is behind the end of each line that starts before it.
LEMMA LinesApart ==
    ASSUME NEW s, IsText(s), NEW a \in 0..Len(s), NEW b \in 0..Len(s),
           a < b, StartsLine(s, b)
    PROVE  LineEnd(s, a) < b
<1> DEFINE e == LineEnd(s, a)
<1>1. /\ e \in a..Len(s) /\ Len(s) \in Nat
      /\ \A j \in a..(e - 1) : s[j + 1] # "nl"
  BY LineEndIs, TextIs
<1> HIDE DEF e
<1>2. s[b] = "nl"
  BY DEF StartsLine
<1>3. CASE b <= e
  <2>1. b - 1 \in a..(e - 1) /\ (b - 1) + 1 = b
    BY <1>1, <1>3
  <2> QED
    BY <1>1, <1>2, <2>1
<1> QED
  BY <1>1, <1>3 DEF e

-----------------------------------------------------------------------------
(***************************************************************************)
(* The headings among blocks.                                              *)
(***************************************************************************)
Kinds == {"none", "fence", "paragraph", "item"}

HeadingKinds == {"atx", "setext"}

BlockKinds == Kinds \cup HeadingKinds \cup {"break", "definition"}

BlockSet == [kind : BlockKinds, level : Nat, start : Nat, end : Nat]

LEMMA HeadingsNone == Headings(<< >>) = << >>
<1>1. [i \in DOMAIN << >> |->
          IF i \in {k \in DOMAIN << >> : << >>[k].kind \in {"atx", "setext"}}
          THEN <<<< >>[i]>> ELSE << >>] = << >>
  OBVIOUS
<1> QED
  BY <1>1, FlattenNone, Zenon DEF Headings, Picked

Parts(blocks) ==
    [i \in 1..Len(blocks) |->
        IF blocks[i].kind \in HeadingKinds THEN <<blocks[i]>> ELSE << >>]

LEMMA PartsOf ==
    ASSUME NEW blocks \in Seq(BlockSet)
    PROVE  /\ Parts(blocks) \in Seq(Seq(BlockSet))
           /\ Headings(blocks) = FlattenSeq(Parts(blocks))
<1> DEFINE p == Parts(blocks)
           q == [i \in DOMAIN blocks |->
                    IF i \in {k \in DOMAIN blocks : blocks[k].kind \in {"atx", "setext"}}
                    THEN <<blocks[i]>> ELSE << >>]
<1>1. DOMAIN blocks = 1..Len(blocks) /\ Len(blocks) \in Nat
  OBVIOUS
<1>2. \A i \in 1..Len(blocks) : blocks[i] \in BlockSet
  OBVIOUS
<1>3. p = q
  BY <1>1 DEF Parts, HeadingKinds
<1>4. Headings(blocks) = FlattenSeq(q)
  BY DEF Headings, Picked
<1>5. \A i \in 1..Len(blocks) : p[i] \in Seq(BlockSet)
  <2> TAKE i \in 1..Len(blocks)
  <2>1. <<blocks[i]>> \in Seq(BlockSet)
    BY <1>2
  <2>2. << >> \in Seq(BlockSet)
    OBVIOUS
  <2> QED
    BY <2>1, <2>2 DEF Parts
<1>6. p = [i \in 1..Len(blocks) |-> p[i]]
  BY DEF Parts
<1> HIDE DEF p, q
<1>7. p \in Seq(Seq(BlockSet))
  BY <1>1, <1>5, <1>6
<1> QED
  BY <1>3, <1>4, <1>7 DEF p

LEMMA HeadingsType ==
    ASSUME NEW blocks \in Seq(BlockSet)
    PROVE  Headings(blocks) \in Seq(BlockSet)
BY PartsOf, FlattenType

LEMMA HeadingsAppend ==
    ASSUME NEW blocks \in Seq(BlockSet), NEW b \in BlockSet
    PROVE  Headings(Append(blocks, b)) =
              IF b.kind \in HeadingKinds THEN Append(Headings(blocks), b)
              ELSE Headings(blocks)
<1> DEFINE n == Len(blocks)
           c == Append(blocks, b)
           x == IF b.kind \in HeadingKinds THEN <<b>> ELSE << >>
           p == Parts(blocks)
           q == Parts(c)
           V == Seq(BlockSet)
<1>1. /\ c \in Seq(BlockSet) /\ Len(c) = n + 1 /\ n \in Nat
      /\ c[n + 1] = b /\ \A i \in 1..n : c[i] = blocks[i]
  OBVIOUS
<1>2. x \in V
  <2>1. <<b>> \in Seq(BlockSet) /\ << >> \in Seq(BlockSet)
    OBVIOUS
  <2> QED
    BY <2>1
<1>3. p \in Seq(V) /\ Headings(blocks) = FlattenSeq(p)
  BY PartsOf
<1>4. Headings(c) = FlattenSeq(q)
  BY <1>1, PartsOf
<1>5. Len(p) = n /\ \A i \in 1..n : p[i] = q[i]
  <2> HIDE DEF c
  <2> QED
    BY <1>1 DEF Parts
<1>6. q[n + 1] = x
  <2>1. n + 1 \in 1..Len(c)
    BY <1>1
  <2>2. q[n + 1] = IF c[n + 1].kind \in HeadingKinds THEN <<c[n + 1]>> ELSE << >>
    <3> HIDE DEF c, n
    <3> QED
      BY <2>1 DEF Parts
  <2> HIDE DEF q, c, n
  <2> QED
    BY <1>1, <2>2
<1>7. q = [i \in 1..(n + 1) |-> q[i]]
  <2> HIDE DEF c
  <2> QED
    BY <1>1 DEF Parts
<1> HIDE DEF n, c, x, p, q, V
<1>8. Append(p, x) = [i \in 1..(Len(p) + 1) |-> IF i = Len(p) + 1 THEN x ELSE p[i]]
  BY <1>2, <1>3, AppendIs
<1>9. Append(p, x) = q
  <2>1. \A i \in 1..(n + 1) : q[i] = IF i = n + 1 THEN x ELSE p[i]
    BY <1>1, <1>5, <1>6
  <2> QED
    BY <1>5, <1>7, <1>8, <2>1
<1>10. FlattenSeq(q) = FlattenSeq(p) \o x
  <2>1. FlattenSeq(Append(p, x)) = FlattenSeq(p) \o x
    <3>1. p \in Seq(Seq(BlockSet)) /\ x \in Seq(BlockSet)
      BY <1>2, <1>3 DEF V
    <3> QED
      BY <3>1, FlattenAppend
  <2> QED
    BY <1>9, <2>1
<1>11. Headings(c) = Headings(blocks) \o x
  BY <1>3, <1>4, <1>10
<1>12. Headings(blocks) \in Seq(BlockSet)
  BY HeadingsType
<1>13. CASE b.kind \in HeadingKinds
  <2>1. x = <<b>>
    BY <1>13 DEF x
  <2>2. Headings(blocks) \o <<b>> = Append(Headings(blocks), b)
    BY <1>12
  <2> QED
    BY <1>11, <1>13, <2>1, <2>2 DEF c
<1>14. CASE b.kind \notin HeadingKinds
  <2>1. x = << >>
    BY <1>14 DEF x
  <2>2. Headings(blocks) \o << >> = Headings(blocks)
    BY <1>12
  <2> QED
    BY <1>11, <1>14, <2>1, <2>2 DEF c
<1> QED
  BY <1>13, <1>14

-----------------------------------------------------------------------------
(***************************************************************************)
(* What reading a line does to the kind of the open block and to the       *)
(* headings.  A line is known by its first token and by whether that is    *)
(* all of it.                                                              *)
(***************************************************************************)
Reading ==
    [blocks : Seq(BlockSet),
     open   : [open : Kinds, range : [start : Nat, end : Nat]]]

LineSet == [start : Nat, end : Nat]

FirstOf(s, l) == IF l.start = l.end THEN "nl" ELSE s[l.start + 1]

AloneIn(l)    == l.end = l.start + 1

\* A line that is a heading for itself, and one that makes the paragraph one.
MakesAtx(k, x)            == k # "fence" /\ x \in DOMAIN Level

MakesSetext(k, x, alone)  == k = "paragraph" /\ x \in {"=", "-"} /\ alone

Ends(k, x, alone) ==
    IF k = "fence" THEN x = "F" /\ alone
    ELSE \/ x = "nl" \/ x \in DOMAIN Level
         \/ k = "paragraph" /\ x \in {"=", "-"} /\ alone
         \/ x = "-" /\ alone
         \/ k = "none" /\ x \in Definitions /\ alone

Opens(k, x, alone) ==
    IF Ends(k, x, alone) THEN "none"
    ELSE IF k = "fence" THEN "fence"
    ELSE IF x = "F" THEN "fence"
    ELSE IF x \in ToSet(Bullets) THEN "item"
    ELSE IF k = "none" THEN "paragraph" ELSE k

LEMMA CloseIs ==
    ASSUME NEW st \in Reading
    PROVE  /\ Close(st) \in Reading
           /\ Close(st).open.open = "none"
           /\ Headings(Close(st).blocks) = Headings(st.blocks)
<1>1. /\ st.blocks \in Seq(BlockSet) /\ st.open.open \in Kinds
      /\ st.open.range.start \in Nat /\ st.open.range.end \in Nat
      /\ st = [blocks |-> st.blocks, open |-> st.open]
  BY DEF Reading
<1> DEFINE b == Block(st.open.open, 0, st.open.range)
<1>2. b \in BlockSet /\ b.kind = st.open.open
  <2>1. st.open.open \in BlockKinds
    BY <1>1 DEF BlockKinds
  <2>2. b = [kind  |-> st.open.open, level |-> 0,
             start |-> st.open.range.start, end |-> st.open.range.end]
    BY DEF Block
  <2> HIDE DEF b
  <2> QED
    BY <1>1, <2>1, <2>2 DEF BlockSet
<1>3. Closed \in [open : Kinds, range : [start : Nat, end : Nat]]
  BY DEF Closed, Kinds
<1>4. CASE st.open.open = "none"
  <2>1. Close(st) = st
    BY <1>4 DEF Close
  <2> QED
    BY <1>4, <2>1
<1>5. CASE st.open.open # "none"
  <2>1. Close(st) = [blocks |-> Append(st.blocks, b), open |-> Closed]
    BY <1>5 DEF Close
  <2>2. b.kind \notin HeadingKinds
    BY <1>1, <1>2 DEF Kinds, HeadingKinds
  <2> HIDE DEF b
  <2>3. /\ Append(st.blocks, b) \in Seq(BlockSet)
        /\ Headings(Append(st.blocks, b)) = Headings(st.blocks)
    BY <1>1, <1>2, <2>2, HeadingsAppend
  <2> QED
    BY <1>3, <2>1, <2>3 DEF Reading, Closed
<1> QED
  BY <1>4, <1>5

LEMMA OpenIs ==
    ASSUME NEW st \in Reading, NEW l \in LineSet, NEW kind \in Kinds
    PROVE  /\ Open(st, kind, l) \in Reading
           /\ Open(st, kind, l).open.open = kind
           /\ Open(st, kind, l).open.range = l
           /\ Headings(Open(st, kind, l).blocks) = Headings(st.blocks)
<1> DEFINE c == Close(st)
<1>1. c \in Reading /\ Headings(c.blocks) = Headings(st.blocks)
  BY CloseIs
<1>2. Open(st, kind, l) = [c EXCEPT !.open = [open |-> kind, range |-> l]]
  BY DEF Open
<1> HIDE DEF c
<1>3. Open(st, kind, l) = [blocks |-> c.blocks, open |-> [open |-> kind, range |-> l]]
  BY <1>1, <1>2 DEF Reading
<1> QED
  BY <1>1, <1>3 DEF Reading, LineSet

LEMMA ExtendIs ==
    ASSUME NEW st \in Reading, NEW l \in LineSet
    PROVE  /\ Extend(st, l) \in Reading
           /\ Extend(st, l).open.open = st.open.open
           /\ Extend(st, l).open.range = [start |-> st.open.range.start, end |-> l.end]
           /\ Extend(st, l).blocks = st.blocks
<1>1. /\ st = [blocks |-> st.blocks, open |-> st.open]
      /\ st.open = [open |-> st.open.open, range |-> st.open.range]
      /\ st.open.range = [start |-> st.open.range.start, end |-> st.open.range.end]
      /\ st.blocks \in Seq(BlockSet) /\ st.open.open \in Kinds
      /\ st.open.range.start \in Nat /\ st.open.range.end \in Nat /\ l.end \in Nat
  BY DEF Reading, LineSet
<1>2. Extend(st, l) = [blocks |-> st.blocks,
                       open   |-> [open  |-> st.open.open,
                                   range |-> [start |-> st.open.range.start,
                                              end   |-> l.end]]]
  BY <1>1 DEF Extend
<1> QED
  BY <1>1, <1>2 DEF Reading

LEMMA AddIs ==
    ASSUME NEW st \in Reading, NEW l \in LineSet,
           NEW kind \in BlockKinds, NEW level \in Nat
    PROVE  /\ Add(st, kind, level, l) \in Reading
           /\ Add(st, kind, level, l).open.open = "none"
           /\ Headings(Add(st, kind, level, l).blocks) =
                 IF kind \in HeadingKinds
                 THEN Append(Headings(st.blocks), Block(kind, level, l))
                 ELSE Headings(st.blocks)
<1> DEFINE c == Close(st)
           b == Block(kind, level, l)
<1>1. /\ c \in Reading /\ Headings(c.blocks) = Headings(st.blocks)
      /\ c.open.open = "none"
  BY CloseIs
<1>2. Add(st, kind, level, l) = [c EXCEPT !.blocks = Append(@, b)]
  BY DEF Add
<1>3. b \in BlockSet /\ b.kind = kind
  <2>1. b = [kind |-> kind, level |-> level, start |-> l.start, end |-> l.end]
    BY DEF Block
  <2> HIDE DEF b
  <2> QED
    BY <2>1 DEF BlockSet, LineSet
<1> HIDE DEF c, b
<1>4. Add(st, kind, level, l) = [blocks |-> Append(c.blocks, b), open |-> c.open]
  BY <1>1, <1>2 DEF Reading
<1>5. c.blocks \in Seq(BlockSet) /\ c.open \in [open : Kinds, range : [start : Nat, end : Nat]]
  BY <1>1 DEF Reading
<1>6. /\ Append(c.blocks, b) \in Seq(BlockSet)
      /\ Headings(Append(c.blocks, b)) =
            IF kind \in HeadingKinds THEN Append(Headings(st.blocks), b)
            ELSE Headings(st.blocks)
  <2> DEFINE old == c.blocks
  <2>1. old \in Seq(BlockSet) /\ Headings(old) = Headings(st.blocks)
    BY <1>1, <1>5
  <2> HIDE DEF old
  <2>2. Append(old, b) \in Seq(BlockSet)
    BY <1>3, <2>1
  <2>3. Headings(Append(old, b)) =
           IF b.kind \in HeadingKinds THEN Append(Headings(old), b) ELSE Headings(old)
    BY <1>3, <2>1, HeadingsAppend
  <2>4. Headings(Append(old, b)) =
           IF kind \in HeadingKinds THEN Append(Headings(st.blocks), b)
           ELSE Headings(st.blocks)
    BY <1>3, <2>1, <2>3
  <2> QED
    BY <2>2, <2>4 DEF old
<1> QED
  BY <1>1, <1>4, <1>5, <1>6 DEF Reading, b

\* A line of one token that underlines the open paragraph.
LEMMA UnderlineIs ==
    ASSUME NEW st \in Reading, NEW l \in LineSet, NEW level \in Nat,
           NEW n, n = [blocks |-> Append(st.blocks, Block("setext", level,
                                                          Extend(st, l).open.range)),
                       open   |-> Closed]
    PROVE  /\ n \in Reading
           /\ n.open.open = "none"
           /\ Headings(n.blocks) =
                 Append(Headings(st.blocks),
                        [kind |-> "setext", level |-> level,
                         start |-> st.open.range.start, end |-> l.end])
<1> DEFINE b == [kind |-> "setext", level |-> level,
                 start |-> st.open.range.start, end |-> l.end]
<1>1. Block("setext", level, Extend(st, l).open.range) = b
  <2>1. Extend(st, l).open.range = [start |-> st.open.range.start, end |-> l.end]
    BY ExtendIs
  <2> QED
    BY <2>1 DEF Block
<1>2. b \in BlockSet /\ b.kind \in HeadingKinds
  BY DEF Reading, LineSet, BlockSet, BlockKinds, HeadingKinds
<1> HIDE DEF b
<1>3. st.blocks \in Seq(BlockSet)
  BY DEF Reading
<1>4. /\ Append(st.blocks, b) \in Seq(BlockSet)
      /\ Headings(Append(st.blocks, b)) = Append(Headings(st.blocks), b)
  BY <1>2, <1>3, HeadingsAppend
<1>5. n = [blocks |-> Append(st.blocks, b), open |-> Closed]
  BY <1>1
<1> QED
  BY <1>4, <1>5 DEF Reading, Closed, Kinds, b

\* The heading a line makes, if it makes one.
Makes(k, x, alone) == MakesAtx(k, x) \/ MakesSetext(k, x, alone)

Made(s, st, l) ==
    LET x == FirstOf(s, l) IN
    IF MakesAtx(st.open.open, x)
    THEN [kind |-> "atx", level |-> Level[x], start |-> l.start, end |-> l.end]
    ELSE [kind |-> "setext", level |-> Underline[x],
          start |-> st.open.range.start, end |-> l.end]

LEMMA ReadLineIs ==
    ASSUME NEW s, NEW st \in Reading, NEW l \in LineSet,
           NEW n, n = ReadLine(s, st, l),
           NEW x, x = FirstOf(s, l), l.start # l.end => x # "nl"
    PROVE  /\ n \in Reading
           /\ n.open.open = Opens(st.open.open, x, AloneIn(l))
           /\ Headings(n.blocks) =
                 IF Makes(st.open.open, x, AloneIn(l))
                 THEN Append(Headings(st.blocks), Made(s, st, l))
                 ELSE Headings(st.blocks)
           /\ n.open.open = "paragraph" =>
                 n.open.range.start = IF st.open.open = "paragraph"
                                      THEN st.open.range.start ELSE l.start
<1> DEFINE k == st.open.open
           alone == l.end = l.start + 1
           blank == l.start = l.end
<1>1. k \in Kinds /\ l.start \in Nat /\ l.end \in Nat
  BY DEF Reading, LineSet
<1>2. x = "nl" <=> blank
  BY DEF FirstOf
<1>3. blank => ~alone
  BY <1>1
<1>4. DOMAIN Underline = {"=", "-"} /\ Underline["="] = 1 /\ Underline["-"] = 2
  BY DEF Underline
<1>5. \A kind \in Kinds : kind \in BlockKinds /\ kind \notin HeadingKinds
  BY DEF Kinds, BlockKinds, HeadingKinds
<1>6. n = CASE k = "fence" /\ x = "F" /\ alone -> Close(Extend(st, l))
            [] k = "fence" /\ ~(x = "F" /\ alone) -> Extend(st, l)
            [] k # "fence" /\ blank -> Close(st)
            [] k # "fence" /\ x \in DOMAIN Level -> Add(st, "atx", Level[x], l)
            [] k # "fence" /\ x = "F" -> Open(st, "fence", l)
            [] k = "paragraph" /\ x \in DOMAIN Underline /\ alone ->
                 [blocks |-> Append(st.blocks, Block("setext", Underline[x],
                                                     Extend(st, l).open.range)),
                  open   |-> Closed]
            [] k # "fence" /\ k # "paragraph" /\ x = "-" /\ alone -> Add(st, "break", 0, l)
            [] k # "fence" /\ x \in ToSet(Bullets) -> Open(st, "item", l)
            [] k = "none" /\ x \in Definitions /\ alone -> Add(st, "definition", 0, l)
            [] OTHER -> IF k \in {"paragraph", "item"} THEN Extend(st, l)
                        ELSE Open(st, "paragraph", l)
  BY DEF ReadLine, FirstOf
<1> HIDE DEF k, alone, blank
<1>7. AloneIn(l) = alone
  BY DEF AloneIn, alone
<1> DEFINE Goal == /\ n \in Reading
                   /\ n.open.open = Opens(k, x, alone)
                   /\ Headings(n.blocks) = IF Makes(k, x, alone)
                                           THEN Append(Headings(st.blocks), Made(s, st, l))
                                           ELSE Headings(st.blocks)
                   /\ n.open.open = "paragraph" =>
                         n.open.range.start = IF k = "paragraph"
                                              THEN st.open.range.start ELSE l.start
<1> SUFFICES Goal
  BY <1>7 DEF k
<1>8. CASE k = "fence"
  <2>1. Extend(st, l) \in Reading /\ Extend(st, l).blocks = st.blocks
        /\ Extend(st, l).open.open = k
    BY ExtendIs DEF k
  <2>2. ~Makes(k, x, alone)
    BY <1>8 DEF Makes, MakesAtx, MakesSetext
  <2>3. CASE x = "F" /\ alone
    <3>1. n = Close(Extend(st, l))
      BY <1>6, <1>8, <2>3
    <3>2. /\ n \in Reading /\ n.open.open = "none"
          /\ Headings(n.blocks) = Headings(st.blocks)
      BY <2>1, <3>1, CloseIs
    <3>3. Opens(k, x, alone) = "none"
      BY <1>8, <2>3 DEF Opens, Ends
    <3> QED
      BY <2>2, <3>2, <3>3
  <2>4. CASE ~(x = "F" /\ alone)
    <3>1. n = Extend(st, l)
      BY <1>6, <1>8, <2>4
    <3>3. Opens(k, x, alone) = "fence"
      BY <1>8, <2>4 DEF Opens, Ends
    <3> QED
      BY <1>8, <2>1, <2>2, <3>1, <3>3
  <2> QED
    BY <2>3, <2>4
<1>9. CASE k # "fence" /\ (blank \/ x \in DOMAIN Level)
  <2>1. CASE blank
    <3>1. x \notin DOMAIN Level /\ ~Makes(k, x, alone)
      BY <1>2, <1>3, <2>1, TokenAssumption DEF Makes, MakesAtx, MakesSetext
    <3>2. n = Close(st)
      BY <1>2, <1>6, <1>9, <2>1, <3>1, <1>3, <1>4, TokenAssumption
    <3>3. Opens(k, x, alone) = "none"
      BY <1>2, <1>9, <2>1 DEF Opens, Ends
    <3> QED
      BY <3>1, <3>2, <3>3, CloseIs
  <2>2. CASE x \in DOMAIN Level
    <3>1. ~blank /\ x \notin {"F", "=", "-"} /\ x \notin ToSet(Bullets) /\ x \notin Definitions
      BY <1>2, <2>2, TokenAssumption
    <3>2. n = Add(st, "atx", Level[x], l)
      BY <1>4, <1>6, <1>9, <2>2, <3>1
    <3>3. Opens(k, x, alone) = "none" /\ Makes(k, x, alone) /\ MakesAtx(k, x)
      BY <1>9, <2>2 DEF Opens, Ends, Makes, MakesAtx
    <3>4. Level[x] \in Nat /\ "atx" \in BlockKinds /\ "atx" \in HeadingKinds
      BY <2>2, LevelAssumption DEF BlockKinds, HeadingKinds
    <3>5. /\ n \in Reading /\ n.open.open = "none"
          /\ Headings(n.blocks) = Append(Headings(st.blocks), Block("atx", Level[x], l))
      <4> DEFINE v == Level[x]
      <4>1. v \in Nat /\ n = Add(st, "atx", v, l)
        BY <3>2, <3>4
      <4> HIDE DEF v
      <4>2. /\ n \in Reading /\ n.open.open = "none"
            /\ Headings(n.blocks) =
                  IF "atx" \in HeadingKinds
                  THEN Append(Headings(st.blocks), Block("atx", v, l))
                  ELSE Headings(st.blocks)
        <5>1. \A kind \in BlockKinds :
                 /\ Add(st, kind, v, l) \in Reading
                 /\ Add(st, kind, v, l).open.open = "none"
                 /\ Headings(Add(st, kind, v, l).blocks) =
                       IF kind \in HeadingKinds
                       THEN Append(Headings(st.blocks), Block(kind, v, l))
                       ELSE Headings(st.blocks)
          BY <4>1, AddIs
        <5> QED
          BY <3>4, <4>1, <5>1, Zenon
      <4> QED
        BY <3>4, <4>2 DEF v
    <3>6. Made(s, st, l) = Block("atx", Level[x], l)
      BY <3>3 DEF Made, Block, k
    <3> QED
      BY <3>3, <3>5, <3>6
  <2> QED
    BY <1>9, <2>1, <2>2
<1>10. CASE k # "fence" /\ ~blank /\ x \notin DOMAIN Level
  <2>1. ~MakesAtx(k, x)
    BY <1>10 DEF MakesAtx
  <2>2. CASE x = "F"
    <3>1. x \notin {"=", "-"} /\ x \notin ToSet(Bullets) /\ x \notin Definitions
      BY <2>2, TokenAssumption
    <3>2. n = Open(st, "fence", l)
      BY <1>4, <1>6, <1>10, <2>2, <3>1
    <3>3. Opens(k, x, alone) = "fence" /\ ~Makes(k, x, alone)
      BY <1>2, <1>10, <2>1, <2>2, <3>1 DEF Opens, Ends, Makes, MakesSetext
    <3>4. "fence" \in Kinds
      BY DEF Kinds
    <3> QED
      BY <3>2, <3>3, <3>4, OpenIs
  <2>3. CASE k = "paragraph" /\ x \in {"=", "-"} /\ alone
    <3>1. n = [blocks |-> Append(st.blocks, Block("setext", Underline[x],
                                                   Extend(st, l).open.range)),
               open   |-> Closed]
      BY <1>4, <1>6, <1>10, <2>3, TokenAssumption
    <3>2. Underline[x] \in Nat
      BY <1>4, <2>3
    <3>3. Made(s, st, l) = [kind |-> "setext", level |-> Underline[x],
                            start |-> st.open.range.start, end |-> l.end]
      BY <2>1 DEF Made, k
    <3>4. Opens(k, x, alone) = "none" /\ Makes(k, x, alone)
      BY <2>3 DEF Opens, Ends, Makes, MakesSetext
    <3>5. /\ n \in Reading /\ n.open.open = "none"
          /\ Headings(n.blocks) = Append(Headings(st.blocks), Made(s, st, l))
      <4> DEFINE v == Underline[x]
      <4>1. /\ v \in Nat
            /\ n = [blocks |-> Append(st.blocks, Block("setext", v, Extend(st, l).open.range)),
                    open   |-> Closed]
            /\ Made(s, st, l) = [kind |-> "setext", level |-> v,
                                 start |-> st.open.range.start, end |-> l.end]
        BY <3>1, <3>2, <3>3
      <4> HIDE DEF v
      <4>2. /\ n \in Reading /\ n.open.open = "none"
            /\ Headings(n.blocks) =
                  Append(Headings(st.blocks),
                         [kind |-> "setext", level |-> v,
                          start |-> st.open.range.start, end |-> l.end])
        BY <4>1, UnderlineIs
      <4> QED
        BY <4>1, <4>2
    <3> QED
      BY <3>4, <3>5
  <2>4. CASE x # "F" /\ ~(k = "paragraph" /\ x \in {"=", "-"} /\ alone)
    <3>1. ~Makes(k, x, alone)
      BY <2>1, <2>4 DEF Makes, MakesSetext
    <3>2. CASE x = "-" /\ alone
      <4>1. n = Add(st, "break", 0, l)
        BY <1>4, <1>6, <1>10, <2>4, <3>2, TokenAssumption
      <4>2. Opens(k, x, alone) = "none"
        BY <1>10, <3>2 DEF Opens, Ends
      <4>3. "break" \in BlockKinds /\ "break" \notin HeadingKinds /\ 0 \in Nat
        BY DEF BlockKinds, HeadingKinds
      <4> QED
        BY <3>1, <4>1, <4>2, <4>3, AddIs
    <3>3. CASE ~(x = "-" /\ alone) /\ x \in ToSet(Bullets)
      <4>1. x \notin Definitions /\ x \notin {"=", "-"}
        BY <3>3, TokenAssumption
      <4>2. n = Open(st, "item", l)
        BY <1>4, <1>6, <1>10, <2>4, <3>3, <4>1
      <4>3. Opens(k, x, alone) = "item"
        BY <1>2, <1>10, <2>4, <3>3, <4>1 DEF Opens, Ends
      <4>4. "item" \in Kinds
        BY DEF Kinds
      <4> QED
        BY <3>1, <4>2, <4>3, <4>4, OpenIs
    <3>4. CASE ~(x = "-" /\ alone) /\ x \notin ToSet(Bullets)
      <4>1. CASE k = "none" /\ x \in Definitions /\ alone
        <5>1. n = Add(st, "definition", 0, l)
          BY <1>4, <1>6, <1>10, <2>4, <3>4, <4>1, TokenAssumption
        <5>2. Opens(k, x, alone) = "none"
          BY <1>10, <4>1 DEF Opens, Ends
        <5>3. "definition" \in BlockKinds /\ "definition" \notin HeadingKinds /\ 0 \in Nat
          BY DEF BlockKinds, HeadingKinds
        <5> QED
          BY <3>1, <5>1, <5>2, <5>3, AddIs
      <4>2. CASE ~(k = "none" /\ x \in Definitions /\ alone)
        <5>1. n = IF k \in {"paragraph", "item"} THEN Extend(st, l)
                  ELSE Open(st, "paragraph", l)
          BY <1>4, <1>6, <1>10, <2>4, <3>4, <4>2
        <5>2. Opens(k, x, alone) = IF k = "none" THEN "paragraph" ELSE k
          BY <1>2, <1>10, <2>4, <3>4, <4>2 DEF Opens, Ends
        <5>3. CASE k \in {"paragraph", "item"}
          <6>1. n = Extend(st, l)
            BY <5>1, <5>3
          <6>2. /\ n \in Reading /\ n.open.open = k /\ n.blocks = st.blocks
                /\ n.open.range.start = st.open.range.start
            <7>1. /\ Extend(st, l) \in Reading
                  /\ Extend(st, l).open.open = st.open.open
                  /\ Extend(st, l).open.range = [start |-> st.open.range.start, end |-> l.end]
                  /\ Extend(st, l).blocks = st.blocks
              BY ExtendIs
            <7> QED
              BY <6>1, <7>1 DEF k
          <6> QED
            BY <3>1, <5>2, <5>3, <6>2
        <5>4. CASE k = "none"
          <6>1. n = Open(st, "paragraph", l)
            BY <5>1, <5>4
          <6>2. /\ n \in Reading /\ n.open.open = "paragraph"
                /\ Headings(n.blocks) = Headings(st.blocks)
                /\ n.open.range.start = l.start
            <7>1. "paragraph" \in Kinds
              BY DEF Kinds
            <7> QED
              BY <6>1, <7>1, OpenIs
          <6> QED
            BY <3>1, <5>2, <5>4, <6>2
        <5> QED
          BY <1>1, <1>10, <5>3, <5>4 DEF Kinds
      <4> QED
        BY <4>1, <4>2
    <3> QED
      BY <3>2, <3>3, <3>4
  <2> QED
    BY <2>2, <2>3, <2>4
<1> QED
  BY <1>8, <1>9, <1>10

-----------------------------------------------------------------------------
(***************************************************************************)
(* The parser, reduced to what the headings depend on: the headings so     *)
(* far, the kind of the open block, and where an open paragraph began.     *)
(***************************************************************************)
HeadSet == [kind : HeadingKinds, level : Nat, start : Nat, end : Nat]

Reduced == [heads : Seq(HeadSet), open : Kinds, from : Nat]

First(s, i) == FirstOf(s, LineAt(s, i))

Alone(s, i) == AloneIn(LineAt(s, i))

\* Whether the line at i makes a heading, and which.
Heads(s, i, u) == Makes(u.open, First(s, i), Alone(s, i))

HeadAt(s, i, u) ==
    IF MakesAtx(u.open, First(s, i))
    THEN [kind |-> "atx", level |-> Level[First(s, i)], start |-> i, end |-> LineEnd(s, i)]
    ELSE [kind |-> "setext", level |-> Underline[First(s, i)],
          start |-> u.from, end |-> LineEnd(s, i)]

Then(s, i, u) == Opens(u.open, First(s, i), Alone(s, i))

Read(s, i, u) ==
    [heads |-> IF Heads(s, i, u) THEN Append(u.heads, HeadAt(s, i, u)) ELSE u.heads,
     open  |-> Then(s, i, u),
     from  |-> IF Then(s, i, u) = "paragraph"
               THEN IF u.open = "paragraph" THEN u.from ELSE i
               ELSE 0]

Start == [heads |-> << >>, open |-> "none", from |-> 0]

\* m[i] is what the lines make that start before i.
IsRun(s, m) ==
    m = [i \in 0..Len(s) |->
            IF i = 0 THEN Start
            ELSE IF StartsLine(s, i - 1) THEN Read(s, i - 1, m[i - 1])
            ELSE m[i - 1]]

\* The reduced state of the parser.
Reduce(st) ==
    [heads |-> Headings(st.blocks),
     open  |-> st.open.open,
     from  |-> IF st.open.open = "paragraph" THEN st.open.range.start ELSE 0]

LEMMA LineIs ==
    ASSUME NEW s, IsText(s), NEW i \in 0..(Len(s) - 1)
    PROVE  /\ LineAt(s, i) \in LineSet
           /\ LineAt(s, i).start = i
           /\ LineAt(s, i).end = LineEnd(s, i)
           /\ LineEnd(s, i) \in i..Len(s)
           /\ i # LineEnd(s, i) => First(s, i) # "nl"
           /\ First(s, i) = s[i + 1]
<1>1. Len(s) \in Nat /\ i \in 0..Len(s)
  BY TextIs
<1> DEFINE e == LineEnd(s, i)
<1>2. /\ e \in i..Len(s) /\ (e = Len(s) \/ s[e + 1] = "nl")
      /\ \A j \in i..(e - 1) : s[j + 1] # "nl"
  BY <1>1, LineEndIs
<1>3. LineAt(s, i) = [start |-> i, end |-> e]
  BY DEF LineAt
<1> HIDE DEF e
<1>4. First(s, i) = IF i = e THEN "nl" ELSE s[i + 1]
  BY <1>3 DEF First, FirstOf
<1>5. i # e => s[i + 1] # "nl"
  <2>1. i # e => i \in i..(e - 1)
    BY <1>1, <1>2
  <2> QED
    BY <1>2, <2>1
<1>6. i = e => s[i + 1] = "nl"
  BY <1>1, <1>2
<1> QED
  BY <1>1, <1>2, <1>3, <1>4, <1>5, <1>6 DEF LineSet, e

\* One line read, in the reduced parser.
LEMMA ReadIs ==
    ASSUME NEW s, IsText(s), NEW i \in 0..(Len(s) - 1), NEW st \in Reading
    PROVE  /\ ReadLine(s, st, LineAt(s, i)) \in Reading
           /\ Reduce(ReadLine(s, st, LineAt(s, i))) = Read(s, i, Reduce(st))
<1> DEFINE l == LineAt(s, i)
           n == ReadLine(s, st, l)
           x == FirstOf(s, l)
           u == Reduce(st)
<1>1. /\ l \in LineSet /\ l.start = i /\ l.end = LineEnd(s, i)
      /\ l.start # l.end => x # "nl"
  BY LineIs DEF First
<1>2. x = First(s, i) /\ AloneIn(l) = Alone(s, i)
  BY DEF First, Alone
<1>3. u.open = st.open.open /\ u.heads = Headings(st.blocks)
      /\ (u.open = "paragraph" => u.from = st.open.range.start)
  BY DEF Reduce
<1> HIDE DEF l, n, x, u
<1>4. /\ n \in Reading
      /\ n.open.open = Opens(st.open.open, x, AloneIn(l))
      /\ Headings(n.blocks) = IF Makes(st.open.open, x, AloneIn(l))
                              THEN Append(Headings(st.blocks), Made(s, st, l))
                              ELSE Headings(st.blocks)
      /\ n.open.open = "paragraph" =>
            n.open.range.start = IF st.open.open = "paragraph"
                                 THEN st.open.range.start ELSE l.start
  BY <1>1, ReadLineIs DEF n, x
<1>5. n.open.open = Then(s, i, u)
  BY <1>2, <1>3, <1>4 DEF Then
<1>6. Heads(s, i, u) => Made(s, st, l) = HeadAt(s, i, u)
  <2> SUFFICES ASSUME Heads(s, i, u) PROVE Made(s, st, l) = HeadAt(s, i, u)
    OBVIOUS
  <2>1. Made(s, st, l) =
           IF MakesAtx(st.open.open, x)
           THEN [kind |-> "atx", level |-> Level[x], start |-> l.start, end |-> l.end]
           ELSE [kind |-> "setext", level |-> Underline[x],
                 start |-> st.open.range.start, end |-> l.end]
    BY DEF Made, x
  <2>2. ~MakesAtx(u.open, x) => u.open = "paragraph"
    BY <1>2 DEF Heads, Makes, MakesSetext
  <2> QED
    BY <1>1, <1>2, <1>3, <2>1, <2>2 DEF HeadAt
<1>7. Headings(n.blocks) = IF Heads(s, i, u) THEN Append(u.heads, HeadAt(s, i, u))
                           ELSE u.heads
  BY <1>2, <1>3, <1>4, <1>6 DEF Heads
<1>8. n.open.open = "paragraph" =>
         n.open.range.start = IF u.open = "paragraph" THEN u.from ELSE i
  BY <1>1, <1>3, <1>4
<1>9. Reduce(n) = Read(s, i, u)
  BY <1>5, <1>7, <1>8 DEF Reduce, Read
<1> QED
  BY <1>4, <1>9 DEF n, l, u

LEMMA RunExists ==
    ASSUME NEW s, IsText(s)
    PROVE  \E m : IsRun(s, m) /\ Headings(Blocks(s)) = m[Len(s)].heads
<1> DEFINE n == Len(s)
           D == 0..n
           z == [blocks |-> << >>, open |-> Closed]
           P(f) == f = [i \in D |->
                          IF i = 0 THEN z
                          ELSE IF StartsLine(s, i - 1)
                          THEN ReadLine(s, f[i - 1], LineAt(s, i - 1))
                          ELSE f[i - 1]]
           h == [vi \in Reading \X D |->
                    IF StartsLine(s, vi[2] - 1)
                    THEN ReadLine(s, vi[1], LineAt(s, vi[2] - 1))
                    ELSE vi[1]]
           f == CHOOSE f : P(f)
<1>1. n \in Nat
  BY TextIs
<1>2. z \in Reading /\ Reduce(z) = Start
  <2>1. << >> \in Seq(BlockSet)
    OBVIOUS
  <2>2. z \in Reading
    BY <2>1 DEF Reading, Closed, Kinds
  <2>3. Reduce(z) = Start
    BY HeadingsNone DEF Reduce, Start, Closed
  <2> QED
    BY <2>2, <2>3
<1>3. ASSUME NEW i \in D, i # 0 PROVE i - 1 \in D /\ i - 1 \in 0..(Len(s) - 1)
  BY <1>1, <1>3
<1>4. ASSUME NEW v \in Reading, NEW i \in D, i # 0
      PROVE  ReadLine(s, v, LineAt(s, i - 1)) \in Reading
  <2> DEFINE j == i - 1
  <2>1. j \in 0..(Len(s) - 1)
    BY <1>3, <1>4
  <2> HIDE DEF j
  <2>2. ReadLine(s, v, LineAt(s, j)) \in Reading
    BY <2>1, ReadIs
  <2> QED
    BY <2>2 DEF j
<1>5. \A v \in Reading, i \in D : h[<<v, i>>] = IF StartsLine(s, i - 1)
                                              THEN ReadLine(s, v, LineAt(s, i - 1))
                                              ELSE v
  OBVIOUS
<1>6. PICK g \in [D -> Reading] : Steps(g, D, z, h)
  <2>1. \A v \in Reading, i \in D : i # 0 => h[<<v, i>>] \in Reading
    <3> HIDE DEF h, D
    <3> QED
      BY <1>4, <1>5
  <2>2. IsInitial(D)
    BY <1>1 DEF IsInitial
  <2> HIDE DEF h, D, z
  <2> QED
    BY <1>2, <2>1, <2>2, StepsExist
<1>7. P(g)
  <2>1. g = [i \in D |-> IF i = 0 THEN z ELSE h[<<g[i - 1], i>>]]
    BY <1>6 DEF Steps
  <2>2. \A i \in D : i # 0 => g[i - 1] \in Reading
    BY <1>3, <1>6
  <2> HIDE DEF h, D, z
  <2> QED
    BY <1>5, <2>1, <2>2
<1>8. P(f)
  <2> HIDE DEF P
  <2> QED
    BY <1>7
<1>9. Blocks(s) = Close(f[n]).blocks
  BY DEF Blocks
<1> HIDE DEF f
<1>10. \A i \in D : f[i] = IF i = 0 THEN z
                          ELSE IF StartsLine(s, i - 1)
                          THEN ReadLine(s, f[i - 1], LineAt(s, i - 1))
                          ELSE f[i - 1]
  <2> HIDE DEF D, z
  <2> QED
    BY <1>8 DEF P
<1> DEFINE X == {i \in Nat : i \in D => f[i] \in Reading}
<1>11. ASSUME NEW i \in Nat, i \in X PROVE i + 1 \in X
  <2> SUFFICES ASSUME i + 1 \in D PROVE f[i + 1] \in Reading
    OBVIOUS
  <2>1. i \in D /\ f[i] \in Reading /\ (i + 1) - 1 = i /\ i + 1 # 0
    BY <1>1, <1>11
  <2> HIDE DEF D, X, z
  <2>2. ReadLine(s, f[i], LineAt(s, i)) \in Reading
    BY <1>4, <2>1
  <2> QED
    BY <1>10, <2>1, <2>2
<1>12. \A i \in D : f[i] \in Reading
  <2>1. 0 \in X
    BY <1>1, <1>2, <1>10
  <2>2. \A i \in Nat : i \in X => i + 1 \in X
    BY <1>11
  <2>3. Nat \subseteq X
    <3> HIDE DEF X
    <3> QED
      BY <2>1, <2>2, NatSetInduction
  <2>4. \A i \in D : i \in Nat
    BY <1>1
  <2> QED
    BY <2>3, <2>4
<1> DEFINE m == [i \in D |-> Reduce(f[i])]
<1>13. ASSUME NEW i \in D
       PROVE  m[i] = IF i = 0 THEN Start
                     ELSE IF StartsLine(s, i - 1) THEN Read(s, i - 1, m[i - 1])
                     ELSE m[i - 1]
  <2>1. CASE i = 0
    <3> HIDE DEF D, z
    <3> QED
      BY <1>2, <1>10, <2>1
  <2>2. CASE i # 0
    <3> DEFINE j == i - 1
    <3>1. j \in D /\ j \in 0..(Len(s) - 1) /\ f[j] \in Reading
      BY <1>3, <1>12, <2>2
    <3>2. f[i] = IF StartsLine(s, j) THEN ReadLine(s, f[j], LineAt(s, j)) ELSE f[j]
      <4> HIDE DEF D, z
      <4> QED
        BY <1>10, <2>2
    <3>3. m[i] = Reduce(f[i]) /\ m[j] = Reduce(f[j])
      <4> HIDE DEF D, j
      <4> QED
        BY <3>1
    <3> HIDE DEF j, m, D
    <3>4. Reduce(ReadLine(s, f[j], LineAt(s, j))) = Read(s, j, Reduce(f[j]))
      BY <3>1, ReadIs
    <3>5. m[i] = IF StartsLine(s, j) THEN Read(s, j, m[j]) ELSE m[j]
      BY <3>2, <3>3, <3>4
    <3> QED
      BY <2>2, <3>5 DEF j
  <2> QED
    BY <2>1, <2>2
<1>14. IsRun(s, m)
  <2>1. m = [i \in D |-> m[i]]
    OBVIOUS
  <2> HIDE DEF m
  <2> QED
    BY <1>13, <2>1 DEF IsRun
<1>15. Headings(Blocks(s)) = m[n].heads
  <2>1. n \in D /\ f[n] \in Reading
    BY <1>1, <1>12
  <2>2. Headings(Close(f[n]).blocks) = Headings(f[n].blocks)
    <3> HIDE DEF n
    <3> QED
      BY <2>1, CloseIs
  <2>3. m[n].heads = Headings(f[n].blocks)
    <3> HIDE DEF D
    <3> QED
      BY <2>1 DEF Reduce
  <2> QED
    BY <1>9, <2>2, <2>3
<1> HIDE DEF m
<1> QED
  BY <1>14, <1>15

-----------------------------------------------------------------------------
(***************************************************************************)
(* Headings lie in order on whole lines; an open paragraph began behind    *)
(* all of them.                                                            *)
(***************************************************************************)
\* The last line of h starts at j.
LastLine(s, h, j) ==
    /\ StartsLine(s, j)
    /\ h.start <= j /\ j < h.end
    /\ h.end = LineEnd(s, j)
    /\ h.kind = "atx" => h.start = j /\ s[j + 1] \in DOMAIN Level /\ h.level = Level[s[j + 1]]
    /\ h.kind = "setext" => /\ h.start + 2 <= j /\ h.end = j + 1
                            /\ s[j + 1] \in {"=", "-"} /\ h.level \in 1..2

HeadUpto(s, h, i) ==
    /\ StartsLine(s, h.start)
    /\ \E j \in 0..(i - 1) : LastLine(s, h, j)

FromHolds(s, u, i) ==
    /\ u.from < i
    /\ StartsLine(s, u.from)
    /\ s[u.from + 1] # "nl"
    /\ \A k \in 1..Len(u.heads) : u.heads[k].end < u.from

SoundAt(s, u, i) ==
    /\ u \in Reduced
    /\ \A k \in 1..Len(u.heads) : HeadUpto(s, u.heads[k], i)
    /\ \A k, l \in 1..Len(u.heads) : k < l => u.heads[k].end < u.heads[l].start
    /\ u.open = "paragraph" => FromHolds(s, u, i)

\* A heading lies in front of every line that starts behind its own.
LEMMA HeadsBehind ==
    ASSUME NEW s, IsText(s), NEW i \in 0..Len(s), NEW h \in HeadSet, HeadUpto(s, h, i),
           NEW b \in i..Len(s), StartsLine(s, b)
    PROVE  h.end < b
<1>1. Len(s) \in Nat
  BY TextIs
<1>2. PICK j \in 0..(i - 1) : LastLine(s, h, j)
  BY DEF HeadUpto
<1>3. j \in 0..Len(s) /\ b \in 0..Len(s) /\ j < b
  BY <1>1
<1>4. LineEnd(s, j) < b
  BY <1>3, LinesApart
<1> QED
  BY <1>2, <1>4 DEF LastLine

LEMMA HeadAtIs ==
    ASSUME NEW s, IsText(s), NEW i \in 0..(Len(s) - 1), StartsLine(s, i),
           NEW u, SoundAt(s, u, i), Heads(s, i, u),
           NEW h, h = HeadAt(s, i, u)
    PROVE  /\ h \in HeadSet
           /\ HeadUpto(s, h, i + 1)
           /\ LastLine(s, h, i)
           /\ \A k \in 1..Len(u.heads) : u.heads[k].end < h.start
<1> DEFINE x == First(s, i)
           e == LineEnd(s, i)
<1>1. Len(s) \in Nat
  BY TextIs
<1>2. /\ LineAt(s, i).start = i /\ LineAt(s, i).end = e /\ e \in i..Len(s)
      /\ (i # e => x # "nl") /\ x = s[i + 1]
  BY LineIs
<1>3. Alone(s, i) <=> e = i + 1
  BY <1>2 DEF Alone, AloneIn
<1>4. i = e => x = "nl"
  BY <1>2 DEF First, FirstOf
<1>5. u \in Reduced /\ Len(u.heads) \in Nat /\ \A k \in 1..Len(u.heads) : u.heads[k] \in HeadSet
  BY DEF SoundAt, Reduced
<1>6. \A k \in 1..Len(u.heads) : u.heads[k].end < i
  <2> TAKE k \in 1..Len(u.heads)
  <2> DEFINE g == u.heads[k]
  <2>1. g \in HeadSet /\ HeadUpto(s, g, i)
    BY <1>5 DEF SoundAt
  <2>2. i \in 0..Len(s) /\ i \in i..Len(s)
    BY <1>1
  <2> HIDE DEF g
  <2>3. g.end < i
    BY <2>1, <2>2, HeadsBehind
  <2> QED
    BY <2>3 DEF g
<1>7. i \in 0..((i + 1) - 1)
  OBVIOUS
<1> HIDE DEF x, e
<1>8. CASE MakesAtx(u.open, x)
  <2>1. h = [kind |-> "atx", level |-> Level[x], start |-> i, end |-> e]
    BY <1>8 DEF HeadAt, x, e
  <2>2. x \in DOMAIN Level /\ x # "nl" /\ Level[x] \in 1..6
    BY <1>8, TokenAssumption, LevelAssumption DEF MakesAtx
  <2>3. i < e /\ e \in Nat
    BY <1>2, <1>4, <2>2
  <2> DEFINE v == Level[x]
  <2>4. h \in HeadSet
    <3>1. v \in Nat
      BY <2>2
    <3> HIDE DEF v
    <3> QED
      BY <2>1, <2>3, <3>1 DEF HeadSet, HeadingKinds, v
  <2>5. LastLine(s, h, i)
    BY <1>2, <2>1, <2>2, <2>3 DEF LastLine, e
  <2>6. HeadUpto(s, h, i + 1)
    BY <1>7, <2>1, <2>5 DEF HeadUpto
  <2> QED
    BY <1>6, <2>1, <2>4, <2>5, <2>6
<1>9. CASE ~MakesAtx(u.open, x)
  <2>1. h = [kind |-> "setext", level |-> Underline[x], start |-> u.from, end |-> e]
    BY <1>9 DEF HeadAt, x, e
  <2>2. u.open = "paragraph" /\ x \in {"=", "-"} /\ e = i + 1
    BY <1>3, <1>9 DEF Heads, Makes, MakesSetext, x
  <2>3. Underline[x] \in 1..2
    BY <2>2 DEF Underline
  <2>4. FromHolds(s, u, i) /\ u.from \in Nat
    BY <1>5, <2>2 DEF SoundAt, Reduced
  <2>5. u.from + 2 <= i
    <3> DEFINE f == u.from
    <3>1. f \in 0..Len(s) /\ i \in 0..Len(s) /\ f < i
      BY <1>1, <2>4 DEF FromHolds
    <3>2. f \in 0..(Len(s) - 1)
      BY <3>1
    <3>3. s[f + 1] # "nl"
      BY <2>4 DEF FromHolds
    <3> HIDE DEF f
    <3>4. LineEnd(s, f) < i
      BY <3>1, LinesApart
    <3>5. LineEnd(s, f) \in f..Len(s) /\ First(s, f) = s[f + 1]
          /\ LineAt(s, f).start = f /\ LineAt(s, f).end = LineEnd(s, f)
      BY <3>2, LineIs
    <3>6. LineEnd(s, f) # f
      BY <3>3, <3>5 DEF First, FirstOf
    <3> QED
      BY <3>1, <3>4, <3>5, <3>6 DEF f
  <2> DEFINE v == Underline[x]
             f == u.from
  <2>6. v \in Nat /\ f \in Nat
    BY <2>3, <2>4
  <2>7. h \in HeadSet
    <3> HIDE DEF v, f
    <3> QED
      BY <2>1, <2>2, <2>6 DEF HeadSet, HeadingKinds, v, f
  <2>8. LastLine(s, h, i)
    BY <1>2, <2>1, <2>2, <2>3, <2>4, <2>5 DEF LastLine, e
  <2>9. HeadUpto(s, h, i + 1)
    BY <1>7, <2>1, <2>4, <2>8 DEF HeadUpto, FromHolds
  <2> QED
    BY <2>1, <2>4, <2>7, <2>8, <2>9 DEF FromHolds
<1> QED
  BY <1>8, <1>9

LEMMA ReadKeeps ==
    ASSUME NEW s, IsText(s), NEW i \in 0..(Len(s) - 1), StartsLine(s, i),
           NEW u, SoundAt(s, u, i)
    PROVE  SoundAt(s, Read(s, i, u), i + 1)
<1> DEFINE v == Read(s, i, u)
           n == Len(u.heads)
           h == HeadAt(s, i, u)
<1>1. /\ v.heads = IF Heads(s, i, u) THEN Append(u.heads, h) ELSE u.heads
      /\ v.open = Then(s, i, u)
      /\ v.from = IF Then(s, i, u) = "paragraph"
                  THEN IF u.open = "paragraph" THEN u.from ELSE i ELSE 0
      /\ v = [heads |-> v.heads, open |-> v.open, from |-> v.from]
  BY DEF Read
<1>2. u \in Reduced /\ u.heads \in Seq(HeadSet) /\ u.from \in Nat /\ u.open \in Kinds /\ n \in Nat
      /\ \A k \in 1..n : u.heads[k] \in HeadSet
  BY DEF SoundAt, Reduced
<1>3. Heads(s, i, u) => /\ h \in HeadSet
                        /\ HeadUpto(s, h, i + 1)
                        /\ \A k \in 1..n : u.heads[k].end < h.start
  BY HeadAtIs
<1>4. v.open \in Kinds
  BY <1>1, <1>2 DEF Then, Opens, Kinds
<1> HIDE DEF h, v
<1>5. v.heads \in Seq(HeadSet)
  BY <1>1, <1>2, <1>3
<1>6. v \in Reduced
  BY <1>1, <1>2, <1>4, <1>5 DEF Reduced
<1>7. /\ \A k \in 1..n : v.heads[k] = u.heads[k]
      /\ Heads(s, i, u) => Len(v.heads) = n + 1 /\ v.heads[n + 1] = h
      /\ ~Heads(s, i, u) => Len(v.heads) = n
  BY <1>1, <1>2, <1>3
<1>8. \A k \in 1..n : HeadUpto(s, u.heads[k], i + 1)
  <2> TAKE k \in 1..n
  <2>1. HeadUpto(s, u.heads[k], i)
    BY DEF SoundAt
  <2>2. \A j \in 0..(i - 1) : j \in 0..((i + 1) - 1)
    OBVIOUS
  <2> QED
    BY <2>1, <2>2 DEF HeadUpto
<1>9. \A k \in 1..Len(v.heads) : HeadUpto(s, v.heads[k], i + 1)
  <2> TAKE k \in 1..Len(v.heads)
  <2>1. k \in 1..n \/ (Heads(s, i, u) /\ k = n + 1)
    BY <1>2, <1>7
  <2> QED
    BY <1>3, <1>7, <1>8, <2>1
<1>10. \A k, l \in 1..Len(v.heads) : k < l => v.heads[k].end < v.heads[l].start
  <2> TAKE k, l \in 1..Len(v.heads)
  <2> SUFFICES ASSUME k < l PROVE v.heads[k].end < v.heads[l].start
    OBVIOUS
  <2>1. k \in 1..n
    BY <1>2, <1>7
  <2>2. l \in 1..n \/ (Heads(s, i, u) /\ l = n + 1)
    BY <1>2, <1>7
  <2>3. CASE l \in 1..n
    <3>1. u.heads[k].end < u.heads[l].start
      BY <2>1, <2>3 DEF SoundAt
    <3> QED
      BY <1>7, <2>1, <2>3, <3>1
  <2>4. CASE Heads(s, i, u) /\ l = n + 1
    BY <1>3, <1>7, <2>1, <2>4
  <2> QED
    BY <2>2, <2>3, <2>4
<1>11. ASSUME v.open = "paragraph" PROVE FromHolds(s, v, i + 1)
  <2>1. ~Heads(s, i, u) /\ First(s, i) # "nl"
    BY <1>1, <1>11 DEF Then, Opens, Ends, Heads, Makes, MakesAtx, MakesSetext
  <2>2. Len(v.heads) = n /\ First(s, i) = s[i + 1]
    BY <1>7, <2>1, LineIs
  <2>3. CASE u.open = "paragraph"
    <3>1. FromHolds(s, u, i) /\ v.from = u.from
      BY <1>1, <1>11, <2>3 DEF SoundAt
    <3>2. u.from < i => u.from < i + 1
      BY <1>2
    <3> QED
      BY <1>7, <2>2, <3>1, <3>2 DEF FromHolds
  <2>4. CASE u.open # "paragraph"
    <3>1. v.from = i
      BY <1>1, <1>11, <2>4
    <3>2. \A k \in 1..n : u.heads[k].end < i
      <4> TAKE k \in 1..n
      <4> DEFINE g == u.heads[k]
      <4>1. g \in HeadSet /\ HeadUpto(s, g, i)
        BY <1>2 DEF SoundAt
      <4>2. i \in 0..Len(s) /\ i \in i..Len(s)
        BY TextIs
      <4> HIDE DEF g
      <4>3. g.end < i
        BY <4>1, <4>2, HeadsBehind
      <4> QED
        BY <4>3 DEF g
    <3> QED
      BY <1>7, <2>1, <2>2, <3>1, <3>2 DEF FromHolds
  <2> QED
    BY <2>3, <2>4
<1>12. SoundAt(s, v, i + 1)
  BY <1>6, <1>9, <1>10, <1>11 DEF SoundAt
<1> QED
  BY <1>12 DEF v

LEMMA SoundLater ==
    ASSUME NEW s, NEW u, NEW i \in Nat, SoundAt(s, u, i)
    PROVE  SoundAt(s, u, i + 1)
<1>1. \A j \in 0..(i - 1) : j \in 0..((i + 1) - 1)
  OBVIOUS
<1>2. \A k \in 1..Len(u.heads) : HeadUpto(s, u.heads[k], i + 1)
  BY <1>1 DEF SoundAt, HeadUpto
<1>3. u.open = "paragraph" => FromHolds(s, u, i + 1)
  <2>1. u.from \in Nat
    BY DEF SoundAt, Reduced
  <2>2. u.from < i => u.from < i + 1
    BY <2>1
  <2> QED
    BY <2>2 DEF SoundAt, FromHolds
<1> QED
  BY <1>2, <1>3 DEF SoundAt

\* The run at i + 1.
LEMMA RunStep ==
    ASSUME NEW s, IsText(s), NEW m, IsRun(s, m), NEW i \in 0..(Len(s) - 1)
    PROVE  m[i + 1] = IF StartsLine(s, i) THEN Read(s, i, m[i]) ELSE m[i]
<1>1. Len(s) \in Nat
  BY TextIs
<1>2. i + 1 \in 0..Len(s) /\ i + 1 # 0 /\ (i + 1) - 1 = i
  BY <1>1
<1> QED
  BY <1>2 DEF IsRun

LEMMA RunSound ==
    ASSUME NEW s, IsText(s), NEW m, IsRun(s, m)
    PROVE  \A i \in 0..Len(s) : SoundAt(s, m[i], i)
<1> DEFINE X == {i \in Nat : i <= Len(s) => SoundAt(s, m[i], i)}
<1>1. Len(s) \in Nat
  BY TextIs
<1>2. 0 \in X
  <2>1. m[0] = Start
    BY <1>1 DEF IsRun
  <2>2. Start \in Reduced /\ Len(Start.heads) = 0 /\ Start.open # "paragraph"
    <3>1. << >> \in Seq(HeadSet)
      OBVIOUS
    <3> QED
      BY <3>1 DEF Start, Reduced, Kinds
  <2>3. SoundAt(s, Start, 0)
    BY <2>2 DEF SoundAt
  <2> QED
    BY <2>1, <2>3
<1>3. ASSUME NEW i \in Nat, i \in X PROVE i + 1 \in X
  <2> SUFFICES ASSUME i + 1 <= Len(s) PROVE SoundAt(s, m[i + 1], i + 1)
    BY <1>1
  <2>1. SoundAt(s, m[i], i) /\ i \in 0..(Len(s) - 1)
    BY <1>1, <1>3
  <2>2. m[i + 1] = IF StartsLine(s, i) THEN Read(s, i, m[i]) ELSE m[i]
    BY <2>1, RunStep
  <2> DEFINE u == m[i]
  <2>3. SoundAt(s, u, i)
    BY <2>1
  <2> HIDE DEF u
  <2>4. SoundAt(s, u, i + 1)
    BY <2>3, SoundLater
  <2>5. StartsLine(s, i) => SoundAt(s, Read(s, i, u), i + 1)
    BY <2>1, <2>3, ReadKeeps
  <2> QED
    BY <2>2, <2>4, <2>5 DEF u
<1>4. Nat \subseteq X
  <2> HIDE DEF X
  <2> QED
    BY <1>2, <1>3, NatSetInduction
<1> QED
  BY <1>1, <1>4

-----------------------------------------------------------------------------
(***************************************************************************)
(* The sections that buildSections has after i headings.                   *)
(***************************************************************************)
Closers(heads, k, i) == {l \in (k + 1)..i : heads[l].level <= heads[k].level}

EndAfter(s, heads, k, i) ==
    IF Closers(heads, k, i) = {} THEN Len(s)
    ELSE heads[Min(Closers(heads, k, i))].start

\* Where the text behind heading k ends.
NextStart(s, heads, k) == IF k < Len(heads) THEN heads[k + 1].start ELSE Len(s)

Stack(heads, i) == {k \in 1..i : Closers(heads, k, i) = {}}

ParentOf(heads, i) == Max({k \in 1..(i - 1) : Closers(heads, k, i) = {}} \cup {0})

SectionAfter(s, heads, k, i) ==
    [level     |-> heads[k].level,
     kind      |-> heads[k].kind,
     heading   |-> [start |-> heads[k].start, end |-> heads[k].end],
     range     |-> [start |-> heads[k].start, end |-> EndAfter(s, heads, k, i)],
     bodyRange |-> [start |-> BodyStart(s, heads[k]), end |-> NextStart(s, heads, k)],
     parent    |-> ParentOf(heads, k)]

SectionsAfter(s, heads, i) == [k \in 1..i |-> SectionAfter(s, heads, k, i)]

LEMMA MinOf ==
    ASSUME NEW S \in SUBSET Nat, NEW x \in S, \A y \in S : x <= y
    PROVE  Min(S) = x
<1>1. Min(S) \in S /\ \A y \in S : Min(S) <= y
  BY MinIs
<1> DEFINE m == Min(S)
<1> HIDE DEF m
<1>2. m \in Nat /\ x \in Nat /\ m <= x /\ x <= m
  BY <1>1 DEF m
<1>3. m = x
  BY <1>2
<1> QED
  BY <1>3 DEF m

\* What heading i does to the end of section k.
LEMMA EndMoves ==
    ASSUME NEW s, NEW heads, NEW n \in Nat, \A k \in 1..n : heads[k] \in HeadSet,
           NEW i \in 1..n, NEW k \in 1..(i - 1)
    PROVE  EndAfter(s, heads, k, i) =
              IF k \in Stack(heads, i - 1) /\ heads[k].level >= heads[i].level
              THEN heads[i].start ELSE EndAfter(s, heads, k, i - 1)
<1> DEFINE C == Closers(heads, k, i)
           B == Closers(heads, k, i - 1)
<1>1. heads[k].level \in Nat /\ heads[i].level \in Nat
  BY DEF HeadSet
<1>2. C = IF heads[k].level >= heads[i].level THEN B \cup {i} ELSE B
  <2>1. (k + 1)..i = ((k + 1)..(i - 1)) \cup {i}
    OBVIOUS
  <2> QED
    BY <1>1, <2>1 DEF Closers
<1>3. B \in SUBSET Nat /\ \A l \in B : l < i
  BY DEF Closers
<1>4. k \in Stack(heads, i - 1) <=> B = {}
  BY DEF Stack
<1>5. EndAfter(s, heads, k, i) = IF C = {} THEN Len(s) ELSE heads[Min(C)].start
  BY DEF EndAfter
<1>6. EndAfter(s, heads, k, i - 1) = IF B = {} THEN Len(s) ELSE heads[Min(B)].start
  BY DEF EndAfter
<1> HIDE DEF B, C
<1>7. CASE heads[k].level >= heads[i].level /\ B = {}
  <2>1. C \in SUBSET Nat /\ i \in C /\ \A y \in C : i <= y
    BY <1>2, <1>7
  <2>2. Min(C) = i
    BY <2>1, MinOf
  <2> QED
    BY <1>4, <1>5, <1>7, <2>1, <2>2
<1>8. CASE heads[k].level >= heads[i].level /\ B # {}
  <2> DEFINE b == Min(B)
  <2>1. b \in B /\ \A y \in B : b <= y
    BY <1>3, <1>8, MinIs
  <2> HIDE DEF b
  <2>2. C \in SUBSET Nat /\ b \in C /\ \A y \in C : b <= y
    <3>1. C = B \cup {i}
      BY <1>2, <1>8
    <3>2. b \in Nat /\ b < i
      BY <1>3, <2>1
    <3>3. b <= i
      BY <3>2
    <3> QED
      BY <1>3, <2>1, <3>1, <3>3
  <2>3. Min(C) = b
    BY <2>2, MinOf
  <2> QED
    BY <1>4, <1>5, <1>6, <1>8, <2>2, <2>3 DEF b
<1>9. CASE ~(heads[k].level >= heads[i].level)
  BY <1>2, <1>5, <1>6, <1>9
<1> QED
  BY <1>7, <1>8, <1>9

LEMMA StackMoves ==
    ASSUME NEW heads, NEW n \in Nat, \A k \in 1..n : heads[k] \in HeadSet,
           NEW i \in 1..n
    PROVE  /\ {k \in Stack(heads, i - 1) : ~(heads[k].level >= heads[i].level)}
                 = {k \in 1..(i - 1) : Closers(heads, k, i) = {}}
           /\ Stack(heads, i) = {k \in 1..(i - 1) : Closers(heads, k, i) = {}} \cup {i}
<1>1. ASSUME NEW k \in 1..(i - 1)
      PROVE  Closers(heads, k, i) = {} <=> /\ Closers(heads, k, i - 1) = {}
                                           /\ ~(heads[k].level >= heads[i].level)
  <2>1. (k + 1)..i = ((k + 1)..(i - 1)) \cup {i}
    OBVIOUS
  <2>2. heads[k].level \in Nat /\ heads[i].level \in Nat
    BY DEF HeadSet
  <2> QED
    BY <2>1, <2>2 DEF Closers
<1>2. Closers(heads, i, i) = {}
  BY DEF Closers
<1>3. 1..i = (1..(i - 1)) \cup {i}
  OBVIOUS
<1> QED
  BY <1>1, <1>2, <1>3 DEF Stack

SectionsStep(s, heads, st, i) ==
    LET h == heads[i]
        kept == {k \in st.stack : ~Closes(h, st.sections[k])}
        ended == [k \in DOMAIN st.sections |->
                     IF k \in st.stack \ kept
                     THEN [st.sections[k] EXCEPT !.range.end = h.start]
                     ELSE st.sections[k]]
        parent == Max(kept \cup {0})
    IN [sections |-> Append(ended, NewSection(s, h, NextStart(s, heads, i), parent)),
        stack    |-> kept \cup {i}]

Built(s, heads, i) == [sections |-> SectionsAfter(s, heads, i), stack |-> Stack(heads, i)]

LEMMA SectionsStepIs ==
    ASSUME NEW s, NEW heads, NEW n \in Nat, \A k \in 1..n : heads[k] \in HeadSet,
           NEW i \in 1..n
    PROVE  SectionsStep(s, heads, Built(s, heads, i - 1), i) = Built(s, heads, i)
<1> DEFINE st == Built(s, heads, i - 1)
           h == heads[i]
           old == st.sections
           kept == {k \in st.stack : ~Closes(h, old[k])}
           ended == [k \in DOMAIN old |->
                        IF k \in st.stack \ kept
                        THEN [old[k] EXCEPT !.range.end = h.start]
                        ELSE old[k]]
           x == NewSection(s, h, NextStart(s, heads, i), Max(kept \cup {0}))
<1>1. SectionsStep(s, heads, st, i) = [sections |-> Append(ended, x), stack |-> kept \cup {i}]
  BY DEF SectionsStep
<1>2. /\ st.stack = Stack(heads, i - 1) /\ DOMAIN old = 1..(i - 1)
      /\ \A k \in 1..(i - 1) : old[k] = SectionAfter(s, heads, k, i - 1)
  BY DEF Built, SectionsAfter
<1>3. kept = {k \in 1..(i - 1) : Closers(heads, k, i) = {}}
  <2>1. kept = {k \in Stack(heads, i - 1) : ~(heads[k].level >= heads[i].level)}
    <3>1. \A k \in Stack(heads, i - 1) : Closes(h, old[k]) <=> heads[k].level >= heads[i].level
      <4> TAKE k \in Stack(heads, i - 1)
      <4>1. k \in 1..(i - 1)
        BY DEF Stack
      <4>2. old[k] = SectionAfter(s, heads, k, i - 1)
        BY <1>2, <4>1
      <4> HIDE DEF old, h
      <4>3. old[k].level = heads[k].level
        BY <4>2 DEF SectionAfter
      <4> QED
        BY <4>3 DEF Closes, h
    <3> HIDE DEF old, h
    <3> QED
      BY <1>2, <3>1
  <2> QED
    BY <2>1, StackMoves
<1>4. kept \cup {i} = Stack(heads, i)
  BY <1>3, StackMoves
<1>5. x = SectionAfter(s, heads, i, i)
  <2>1. EndAfter(s, heads, i, i) = Len(s)
    BY DEF EndAfter, Closers
  <2>2. Max(kept \cup {0}) = ParentOf(heads, i)
    BY <1>3 DEF ParentOf
  <2> HIDE DEF kept
  <2> QED
    BY <2>1, <2>2 DEF NewSection, SectionAfter
<1>6. ASSUME NEW k \in 1..(i - 1) PROVE ended[k] = SectionAfter(s, heads, k, i)
  <2>1. ended[k] = IF k \in st.stack \ kept
                   THEN [old[k] EXCEPT !.range.end = h.start] ELSE old[k]
    BY <1>2
  <2>2. k \in st.stack \ kept <=> k \in Stack(heads, i - 1) /\ heads[k].level >= heads[i].level
    <3>1. Closes(h, old[k]) <=> heads[k].level >= heads[i].level
      <4>1. old[k] = SectionAfter(s, heads, k, i - 1)
        BY <1>2
      <4> HIDE DEF old, h
      <4>2. old[k].level = heads[k].level
        BY <4>1 DEF SectionAfter
      <4> QED
        BY <4>2 DEF Closes, h
    <3> HIDE DEF old, h
    <3> QED
      BY <1>2, <3>1
  <2>3. EndAfter(s, heads, k, i) =
              IF k \in Stack(heads, i - 1) /\ heads[k].level >= heads[i].level
              THEN heads[i].start ELSE EndAfter(s, heads, k, i - 1)
    BY EndMoves
  <2>4. old[k] = SectionAfter(s, heads, k, i - 1)
    BY <1>2
  <2> HIDE DEF st, kept, ended, old
  <2> QED
    BY <2>1, <2>2, <2>3, <2>4 DEF SectionAfter
<1> DEFINE W == {ended[k] : k \in 1..(i - 1)} \cup {x}
<1>7. ended = [k \in 1..(i - 1) |-> ended[k]]
  BY <1>2
<1> HIDE DEF st, kept, ended, old, x, h
<1>8. ended \in Seq(W) /\ Len(ended) = i - 1 /\ x \in W
  <2>1. i - 1 \in Nat /\ \A e \in 1..(i - 1) : ended[e] \in W
    OBVIOUS
  <2> DEFINE p == i - 1
  <2>2. p \in Nat /\ \A e \in 1..p : ended[e] \in W
    BY <2>1
  <2> HIDE DEF p, W
  <2>3. [e \in 1..p |-> ended[e]] \in Seq(W) /\ Len([e \in 1..p |-> ended[e]]) = p
    BY <2>2, SequenceIs
  <2>4. x \in W
    BY DEF W
  <2> QED
    BY <1>7, <2>3, <2>4 DEF p
<1> HIDE DEF W
<1>9. Append(ended, x) = [e \in 1..(Len(ended) + 1) |-> IF e = Len(ended) + 1 THEN x ELSE ended[e]]
  BY <1>8, AppendIs
<1>10. Append(ended, x) = SectionsAfter(s, heads, i)
  <2>1. Len(ended) + 1 = i
    BY <1>8
  <2>2. \A e \in 1..i : (IF e = i THEN x ELSE ended[e]) = SectionAfter(s, heads, e, i)
    BY <1>5, <1>6
  <2> QED
    BY <1>9, <2>1, <2>2 DEF SectionsAfter
<1> QED
  BY <1>1, <1>4, <1>10 DEF Built, st

LEMMA SectionsAre ==
    ASSUME NEW s, NEW heads \in Seq(HeadSet)
    PROVE  Sections(s, heads) = SectionsAfter(s, heads, Len(heads))
<1> DEFINE n == Len(heads)
           D == 0..n
           z == [sections |-> << >>, stack |-> {}]
           P(f) == f = [i \in D |-> IF i = 0 THEN z ELSE SectionsStep(s, heads, f[i - 1], i)]
           f == CHOOSE f : P(f)
           g == [i \in D |-> Built(s, heads, i)]
<1>1. n \in Nat /\ \A k \in 1..n : heads[k] \in HeadSet
  OBVIOUS
<1>2. Built(s, heads, 0) = z
  <2>1. SectionsAfter(s, heads, 0) = << >>
    BY DEF SectionsAfter
  <2>2. Stack(heads, 0) = {}
    BY DEF Stack
  <2> QED
    BY <2>1, <2>2 DEF Built
<1>3. \A i \in 1..n : SectionsStep(s, heads, Built(s, heads, i - 1), i) = Built(s, heads, i)
  <2> HIDE DEF n
  <2> QED
    BY <1>1, SectionsStepIs
<1>4. P(g)
  <2>1. \A i \in D : i # 0 => i \in 1..n /\ i - 1 \in D
    BY <1>1
  <2>2. \A i \in D : g[i] = IF i = 0 THEN z ELSE SectionsStep(s, heads, g[i - 1], i)
    <3> TAKE i \in D
    <3>1. i # 0 => g[i - 1] = Built(s, heads, i - 1)
      BY <2>1
    <3>2. g[i] = Built(s, heads, i)
      OBVIOUS
    <3> HIDE DEF g, D, z, n
    <3> QED
      BY <1>2, <1>3, <2>1, <3>1, <3>2
  <2>3. g = [i \in D |-> g[i]]
    OBVIOUS
  <2> HIDE DEF g, D, z
  <2> QED
    BY <2>2, <2>3
<1>5. P(f)
  <2> HIDE DEF P
  <2> QED
    BY <1>4
<1>6. Sections(s, heads) = f[n].sections
  BY DEF Sections, SectionsStep, NextStart
<1> HIDE DEF f, g
<1> DEFINE X == {i \in Nat : i \in D => f[i] = Built(s, heads, i)}
<1>7. 0 \in X
  BY <1>1, <1>2, <1>5
<1>8. ASSUME NEW i \in Nat, i \in X PROVE i + 1 \in X
  <2> SUFFICES ASSUME i + 1 \in D PROVE f[i + 1] = Built(s, heads, i + 1)
    OBVIOUS
  <2> DEFINE j == i + 1
  <2>1. i \in D /\ f[i] = Built(s, heads, i) /\ j - 1 = i /\ j \in 1..n /\ j \in D /\ j # 0
    BY <1>1, <1>8
  <2> HIDE DEF j, X
  <2>2. f[j] = SectionsStep(s, heads, f[i], j)
    <3> HIDE DEF D, z
    <3> QED
      BY <1>5, <2>1
  <2>3. SectionsStep(s, heads, Built(s, heads, i), j) = Built(s, heads, j)
    BY <1>3, <2>1
  <2> QED
    BY <2>1, <2>2, <2>3 DEF j
<1>9. Nat \subseteq X
  <2> HIDE DEF X
  <2> QED
    BY <1>7, <1>8, NatSetInduction
<1>10. f[n] = Built(s, heads, n)
  BY <1>1, <1>9
<1> QED
  BY <1>6, <1>10 DEF Built

-----------------------------------------------------------------------------
LEMMA MaxIs ==
    ASSUME NEW n \in Nat, NEW S \in SUBSET (0..n), S # {}
    PROVE  Max(S) \in S /\ \A x \in S : x <= Max(S)
<1> DEFINE T == {n - x : x \in S}
<1>1. T \in SUBSET Nat /\ T # {}
  <2>1. \A x \in S : n - x \in Nat
    OBVIOUS
  <2>2. T \in SUBSET Nat
    BY <2>1
  <2>3. T # {}
    OBVIOUS
  <2> QED
    BY <2>2, <2>3
<1>2. Min(T) \in T /\ \A t \in T : Min(T) <= t
  <2> HIDE DEF T
  <2> QED
    BY <1>1, MinIs
<1>3. PICK m \in S : Min(T) = n - m
  BY <1>2
<1>4. \A x \in S : x <= m
  <2> TAKE x \in S
  <2>1. n - x \in T
    OBVIOUS
  <2>2. n - m <= n - x
    BY <1>2, <1>3, <2>1
  <2> QED
    BY <2>2
<1> QED
  BY <1>3, <1>4 DEF Max

-----------------------------------------------------------------------------
(***************************************************************************)
(* The sections of a document, by their headings.                          *)
(***************************************************************************)
HeadsOf(s) == Headings(Blocks(s))

\* The headings of a text s, in order on whole lines.
HeadHolds(s, h) ==
    /\ h \in HeadSet
    /\ h.level \in 1..6
    /\ StartsLine(s, h.start)
    /\ h.start < h.end /\ h.end <= Len(s)
    /\ h.end = Len(s) \/ s[h.end + 1] = "nl"
    /\ h.kind = "setext" => h.start + 3 <= h.end

Ordered(heads) ==
    \A k, l \in 1..Len(heads) : k < l => heads[k].end < heads[l].start

LEMMA HeadUptoHolds ==
    ASSUME NEW s, IsText(s), NEW h \in HeadSet, HeadUpto(s, h, Len(s))
    PROVE  HeadHolds(s, h)
<1>1. Len(s) \in Nat
  BY TextIs
<1>2. PICK j \in 0..(Len(s) - 1) : LastLine(s, h, j)
  BY DEF HeadUpto
<1>3. j \in 0..Len(s) /\ h.end = LineEnd(s, j) /\ h.start \in Nat /\ h.end \in Nat
      /\ h.level \in Nat
  BY <1>1, <1>2 DEF LastLine, HeadSet
<1>4. h.end <= Len(s) /\ (h.end = Len(s) \/ s[h.end + 1] = "nl")
  <2>1. /\ LineEnd(s, j) \in j..Len(s)
        /\ LineEnd(s, j) = Len(s) \/ s[LineEnd(s, j) + 1] = "nl"
    BY <1>3, LineEndIs
  <2> QED
    BY <1>1, <1>3, <2>1
<1>5. h.start < h.end /\ (h.kind = "setext" => h.start + 3 <= h.end)
  BY <1>2, <1>3 DEF LastLine
<1>6. h.level \in 1..6
  BY <1>2, LevelAssumption DEF LastLine, HeadSet, HeadingKinds
<1> QED
  BY <1>4, <1>5, <1>6 DEF HeadUpto, HeadHolds

LEMMA HeadsAre ==
    ASSUME NEW s, IsText(s)
    PROVE  /\ HeadsOf(s) \in Seq(HeadSet)
           /\ \A k \in 1..Len(HeadsOf(s)) : HeadHolds(s, HeadsOf(s)[k])
           /\ Ordered(HeadsOf(s))
<1>1. PICK m : IsRun(s, m) /\ Headings(Blocks(s)) = m[Len(s)].heads
  BY RunExists
<1>2. Len(s) \in 0..Len(s)
  BY TextIs
<1>3. SoundAt(s, m[Len(s)], Len(s))
  BY <1>1, <1>2, RunSound
<1> DEFINE h == HeadsOf(s)
<1>4. h = m[Len(s)].heads
  BY <1>1 DEF HeadsOf
<1>5. h \in Seq(HeadSet)
  BY <1>3, <1>4 DEF SoundAt, Reduced
<1>6. Ordered(h)
  BY <1>3, <1>4 DEF SoundAt, Ordered
<1>7. \A k \in 1..Len(h) : HeadHolds(s, h[k])
  <2> TAKE k \in 1..Len(h)
  <2>1. HeadUpto(s, h[k], Len(s))
    BY <1>3, <1>4 DEF SoundAt
  <2> DEFINE x == h[k]
  <2>2. x \in HeadSet /\ HeadUpto(s, x, Len(s))
    BY <1>5, <2>1
  <2> HIDE DEF x, h
  <2>3. HeadHolds(s, x)
    BY <2>2, HeadUptoHolds
  <2> QED
    BY <2>3 DEF x
<1> QED
  BY <1>5, <1>6, <1>7

\* A section without its parent: the places of its parts.
IsSection(s, heads, k, section) ==
    /\ section.level = heads[k].level
    /\ section.kind = heads[k].kind
    /\ section.heading = [start |-> heads[k].start, end |-> heads[k].end]
    /\ section.range = [start |-> heads[k].start,
                        end   |-> EndAfter(s, heads, k, Len(heads))]
    /\ section.bodyRange = [start |-> BodyStart(s, heads[k]),
                            end   |-> NextStart(s, heads, k)]
    /\ section.parent = ParentOf(heads, k)

LEMMA DocIs ==
    ASSUME NEW s, IsText(s), NEW d, d = Doc(s)
    PROVE  /\ d.source = s
           /\ DOMAIN d.sections = 1..Len(HeadsOf(s))
           /\ Len(d.sections) = Len(HeadsOf(s))
           /\ d.sections = [k \in 1..Len(d.sections) |-> d.sections[k]]
           /\ \A k \in 1..Len(HeadsOf(s)) : IsSection(s, HeadsOf(s), k, d.sections[k])
<1> DEFINE h == HeadsOf(s)
           n == Len(h)
<1>1. h \in Seq(HeadSet)
  BY HeadsAre
<1>2. d.source = s /\ d.sections = Sections(s, h)
  BY DEF Doc, HeadsOf
<1> HIDE DEF h
<1>3. d.sections = [k \in 1..n |-> SectionAfter(s, h, k, n)]
  BY <1>1, <1>2, SectionsAre DEF SectionsAfter
<1>4. n \in Nat
  BY <1>1
<1>5. Len(d.sections) = n
  <2> HIDE DEF n
  <2> QED
    BY <1>3, <1>4
<1>6. \A k \in 1..n : IsSection(s, h, k, d.sections[k])
  <2> TAKE k \in 1..n
  <2>1. d.sections[k] = SectionAfter(s, h, k, n)
    BY <1>3
  <2> QED
    BY <2>1 DEF SectionAfter, IsSection
<1> QED
  BY <1>2, <1>3, <1>5, <1>6 DEF h

-----------------------------------------------------------------------------
(***************************************************************************)
(* Where a section ends: at the next heading of its level or a higher.     *)
(***************************************************************************)
\* Section l is the first behind k of its level or a higher; l is one past
\* the last section if there is none.
Closer(ss, k, l) ==
    /\ l \in (k + 1)..(Len(ss) + 1)
    /\ \A j \in (k + 1)..(l - 1) : ss[j].level > ss[k].level
    /\ l <= Len(ss) => ss[l].level <= ss[k].level

StartOf(d, l) == IF l <= Len(d.sections) THEN d.sections[l].heading.start ELSE Len(d.source)

SectionLies(d, k) ==
    LET section == d.sections[k] IN
    /\ section.level \in 1..6
    /\ section.kind \in HeadingKinds
    /\ section.heading = [start |-> section.heading.start, end |-> section.heading.end]
    /\ section.heading.start \in Nat /\ section.heading.end \in Nat
    /\ StartsLine(d.source, section.heading.start)
    /\ section.heading.start < section.heading.end
    /\ section.heading.end <= Len(d.source)
    /\ section.heading.end = Len(d.source) \/ d.source[section.heading.end + 1] = "nl"
    /\ section.kind = "setext" => section.heading.start + 3 <= section.heading.end
    /\ section.bodyRange =
          [start |-> IF section.heading.end = Len(d.source) THEN section.heading.end
                     ELSE section.heading.end + 1,
           end   |-> StartOf(d, k + 1)]
    /\ section.bodyRange.start <= section.bodyRange.end
    /\ \E l : Closer(d.sections, k, l)
    /\ \A l : Closer(d.sections, k, l) =>
          section.range = [start |-> section.heading.start, end |-> StartOf(d, l)]

IsDocument(d) ==
    /\ IsText(d.source)
    /\ Len(d.sections) \in Nat
    /\ DOMAIN d.sections = 1..Len(d.sections)
    /\ d.sections = [k \in 1..Len(d.sections) |-> d.sections[k]]
    /\ \A k \in 1..Len(d.sections) : SectionLies(d, k)
    /\ \A k, l \in 1..Len(d.sections) :
          k < l => d.sections[k].heading.end < d.sections[l].heading.start

LEMMA CloserOf ==
    ASSUME NEW heads, NEW n \in Nat, \A k \in 1..n : heads[k] \in HeadSet,
           NEW k \in 1..n, NEW s
    PROVE  \E l \in (k + 1)..(n + 1) :
              /\ \A j \in (k + 1)..(l - 1) : heads[j].level > heads[k].level
              /\ l <= n => heads[l].level <= heads[k].level
              /\ EndAfter(s, heads, k, n) = IF l <= n THEN heads[l].start ELSE Len(s)
<1> DEFINE C == Closers(heads, k, n)
<1>1. EndAfter(s, heads, k, n) = IF C = {} THEN Len(s) ELSE heads[Min(C)].start
  BY DEF EndAfter
<1>2. \A j \in 1..n : heads[j].level \in Nat
  BY DEF HeadSet
<1>3. C = {l \in (k + 1)..n : heads[l].level <= heads[k].level}
  BY DEF Closers
<1> HIDE DEF C
<1>4. CASE C = {}
  <2>1. \A j \in (k + 1)..n : heads[j].level > heads[k].level
    <3> TAKE j \in (k + 1)..n
    <3>1. ~(heads[j].level <= heads[k].level) /\ j \in 1..n
      BY <1>3, <1>4
    <3> QED
      BY <1>2, <3>1
  <2>2. n + 1 \in (k + 1)..(n + 1) /\ (n + 1) - 1 = n /\ ~(n + 1 <= n)
    OBVIOUS
  <2> QED
    BY <1>1, <1>4, <2>1, <2>2
<1>5. CASE C # {}
  <2> DEFINE l == Min(C)
  <2>1. C \in SUBSET Nat
    BY <1>3
  <2>2. l \in C /\ \A y \in C : l <= y
    BY <1>5, <2>1, MinIs
  <2>3. EndAfter(s, heads, k, n) = heads[l].start
    BY <1>1, <1>5
  <2> HIDE DEF l
  <2>4. l \in (k + 1)..n /\ heads[l].level <= heads[k].level
    BY <1>3, <2>2
  <2>5. \A j \in (k + 1)..(l - 1) : heads[j].level > heads[k].level
    <3> TAKE j \in (k + 1)..(l - 1)
    <3>1. j \in (k + 1)..n /\ j \in 1..n /\ ~(l <= j)
      BY <2>4
    <3>2. ~(heads[j].level <= heads[k].level)
      BY <1>3, <2>2, <3>1
    <3> QED
      BY <1>2, <3>1, <3>2
  <2>6. l \in (k + 1)..(n + 1) /\ l <= n
    BY <2>4
  <2> QED
    BY <2>3, <2>4, <2>5, <2>6
<1> QED
  BY <1>4, <1>5

LEMMA CloserUnique ==
    ASSUME NEW ss, Len(ss) \in Nat, \A j \in 1..Len(ss) : ss[j].level \in Nat,
           NEW k \in 1..Len(ss), NEW l, NEW m,
           Closer(ss, k, l), Closer(ss, k, m)
    PROVE  l = m
<1> DEFINE n == Len(ss)
<1>1. l \in (k + 1)..(n + 1) /\ m \in (k + 1)..(n + 1) /\ n \in Nat
  BY DEF Closer
<1>2. ASSUME NEW a \in (k + 1)..(n + 1), NEW b \in (k + 1)..(n + 1), a < b,
             Closer(ss, k, a), Closer(ss, k, b)
      PROVE  FALSE
  <2>1. a \in (k + 1)..(b - 1) /\ a \in 1..n
    BY <1>1, <1>2
  <2>2. ss[a].level > ss[k].level
    BY <1>2, <2>1 DEF Closer
  <2>3. ss[a].level <= ss[k].level
    BY <1>2, <2>1 DEF Closer
  <2> QED
    BY <2>1, <2>2, <2>3
<1>3. ~(l < m) /\ ~(m < l)
  BY <1>1, <1>2
<1> QED
  BY <1>1, <1>3

(***************************************************************************)
(* Every text makes a document whose sections lie in order, each with its  *)
(* heading on whole lines and its body behind it up to the next heading,   *)
(* and end where the next section of their level or a higher begins: what  *)
(* collectSectionHeadings and newSection check never fails, and ranges     *)
(* nest (buildSections).                                                   *)
(***************************************************************************)
THEOREM TextsMakeDocuments ==
    ASSUME NEW s, IsText(s)
    PROVE  IsDocument(Doc(s))
<1> DEFINE d == Doc(s)
           h == HeadsOf(s)
           n == Len(h)
           ss == d.sections
<1>1. /\ h \in Seq(HeadSet) /\ Ordered(h)
      /\ \A k \in 1..n : HeadHolds(s, h[k])
  BY HeadsAre
<1>2. /\ d.source = s /\ DOMAIN ss = 1..n /\ Len(ss) = n
      /\ ss = [k \in 1..n |-> ss[k]]
      /\ \A k \in 1..n : IsSection(s, h, k, ss[k])
  BY DocIs
<1>3. n \in Nat /\ Len(s) \in Nat /\ \A k \in 1..n : h[k] \in HeadSet
  BY <1>1, TextIs
<1> HIDE DEF d, h
<1>4. \A k \in 1..n : /\ ss[k].level = h[k].level
                      /\ ss[k].kind = h[k].kind
                      /\ ss[k].heading = [start |-> h[k].start, end |-> h[k].end]
                      /\ ss[k].heading.start = h[k].start
                      /\ ss[k].heading.end = h[k].end
  <2> TAKE k \in 1..n
  <2>1. IsSection(s, h, k, ss[k])
    BY <1>2
  <2> DEFINE t == ss[k]
  <2>2. IsSection(s, h, k, t)
    BY <2>1
  <2> HIDE DEF t
  <2>3. /\ t.level = h[k].level /\ t.kind = h[k].kind
        /\ t.heading = [start |-> h[k].start, end |-> h[k].end]
    BY <2>2 DEF IsSection
  <2>4. t.heading.start = h[k].start /\ t.heading.end = h[k].end
    BY <2>3
  <2> QED
    BY <2>3, <2>4 DEF t
<1>5. \A k, l \in 1..n : k < l => h[k].end < h[l].start
  BY <1>1 DEF Ordered
<1>6. ASSUME NEW k \in 1..n PROVE SectionLies(d, k)
  <2> DEFINE t == ss[k]
             x == h[k]
  <2>1. /\ x \in HeadSet /\ HeadHolds(s, x)
        /\ t.level = x.level /\ t.kind = x.kind
        /\ t.heading = [start |-> x.start, end |-> x.end]
        /\ t.range = [start |-> x.start, end |-> EndAfter(s, h, k, n)]
        /\ t.bodyRange = [start |-> BodyStart(s, x), end |-> NextStart(s, h, k)]
    BY <1>1, <1>2, <1>3 DEF IsSection
  <2>2. StartOf(d, k + 1) = NextStart(s, h, k)
    <3>1. CASE k < n
      <4>1. k + 1 \in 1..n /\ k + 1 <= n
        BY <1>3, <3>1
      <4> QED
        BY <1>2, <1>4, <3>1, <4>1 DEF StartOf, NextStart
    <3>2. CASE ~(k < n)
      <4>1. ~(k + 1 <= n)
        BY <1>3, <3>2
      <4> QED
        BY <1>2, <3>2, <4>1 DEF StartOf, NextStart
    <3> QED
      BY <3>1, <3>2
  <2>3. BodyStart(s, x) <= NextStart(s, h, k)
    <3>1. x.end \in Nat /\ x.end <= Len(s)
      BY <2>1 DEF HeadHolds, HeadSet
    <3>2. BodyStart(s, x) <= Len(s) /\ BodyStart(s, x) <= x.end + 1 /\ BodyStart(s, x) \in Nat
      BY <1>3, <3>1 DEF BodyStart
    <3>3. CASE k < n
      <4>1. k + 1 \in 1..n
        BY <1>3, <3>3
      <4>2. h[k + 1].start \in Nat /\ x.end < h[k + 1].start
        BY <1>3, <1>5, <3>3, <4>1 DEF HeadSet
      <4>3. NextStart(s, h, k) = h[k + 1].start
        BY <3>3 DEF NextStart
      <4> DEFINE y == h[k + 1].start
                 b == BodyStart(s, x)
      <4>4. y \in Nat /\ x.end < y /\ b <= x.end + 1 /\ b \in Nat
        BY <3>2, <4>2
      <4> HIDE DEF y, b, x
      <4>5. b <= y
        BY <3>1, <4>4
      <4> QED
        BY <4>3, <4>5 DEF y, b
    <3>4. CASE ~(k < n)
      BY <3>2, <3>4 DEF NextStart
    <3> QED
      BY <3>3, <3>4
  <2>4. PICK l \in (k + 1)..(n + 1) :
           /\ \A j \in (k + 1)..(l - 1) : h[j].level > h[k].level
           /\ l <= n => h[l].level <= h[k].level
           /\ EndAfter(s, h, k, n) = IF l <= n THEN h[l].start ELSE Len(s)
    <3> HIDE DEF n
    <3> QED
      BY <1>3, CloserOf
  <2>5. Closer(ss, k, l)
    <3>1. \A j \in (k + 1)..(l - 1) : j \in 1..n
      BY <1>3, <2>4
    <3>2. l <= n => l \in 1..n
      BY <1>3, <2>4
    <3> QED
      BY <1>2, <1>4, <2>4, <3>1, <3>2 DEF Closer
  <2>6. StartOf(d, l) = EndAfter(s, h, k, n)
    <3>1. l <= n => l \in 1..n
      BY <1>3, <2>4
    <3> QED
      BY <1>2, <1>4, <2>4, <3>1 DEF StartOf
  <2>7. ASSUME NEW m, Closer(ss, k, m)
        PROVE  t.range = [start |-> t.heading.start, end |-> StartOf(d, m)]
    <3>1. \A j \in 1..Len(ss) : ss[j].level \in Nat
      BY <1>2, <1>3, <1>4 DEF HeadSet
    <3>2. k \in 1..Len(ss) /\ Len(ss) \in Nat
      BY <1>2, <1>3
    <3>3. m = l
      <4> HIDE DEF ss
      <4> QED
        BY <2>5, <2>7, <3>1, <3>2, CloserUnique
    <3> QED
      BY <2>1, <2>6, <3>3
  <2>8. /\ x.start \in Nat /\ x.end \in Nat /\ x.kind \in HeadingKinds
    BY <2>1 DEF HeadSet
  <2>9. BodyStart(s, x) = IF x.end = Len(s) THEN x.end ELSE x.end + 1
    BY DEF BodyStart
  <2> HIDE DEF x
  <2>10. /\ t.level \in 1..6 /\ t.kind \in HeadingKinds
         /\ t.heading = [start |-> t.heading.start, end |-> t.heading.end]
         /\ t.heading.start \in Nat /\ t.heading.end \in Nat
         /\ StartsLine(d.source, t.heading.start)
         /\ t.heading.start < t.heading.end
         /\ t.heading.end <= Len(d.source)
         /\ t.heading.end = Len(d.source) \/ d.source[t.heading.end + 1] = "nl"
         /\ t.kind = "setext" => t.heading.start + 3 <= t.heading.end
    <3> HIDE DEF t
    <3>1. /\ x.level \in 1..6 /\ x.kind \in HeadingKinds
          /\ StartsLine(s, x.start)
          /\ x.start < x.end /\ x.end <= Len(s)
          /\ x.end = Len(s) \/ s[x.end + 1] = "nl"
          /\ x.kind = "setext" => x.start + 3 <= x.end
      BY <2>1, <2>8 DEF HeadHolds
    <3>2. t.heading.start = x.start /\ t.heading.end = x.end
      BY <2>1
    <3>3. t.level = x.level /\ t.kind = x.kind /\ d.source = s
      BY <1>2, <2>1
    <3>4. t.heading = [start |-> t.heading.start, end |-> t.heading.end]
      BY <2>1, <3>2
    <3> QED
      BY <2>8, <3>1, <3>2, <3>3, <3>4
  <2>11. /\ t.bodyRange = [start |-> IF t.heading.end = Len(d.source) THEN t.heading.end
                                     ELSE t.heading.end + 1,
                           end   |-> StartOf(d, k + 1)]
         /\ t.bodyRange.start <= t.bodyRange.end
    BY <1>2, <2>1, <2>2, <2>3, <2>9
  <2> HIDE DEF t
  <2> QED
    BY <2>5, <2>7, <2>10, <2>11 DEF SectionLies, t
<1>7. \A k, l \in 1..n : k < l => ss[k].heading.end < ss[l].heading.start
  BY <1>4, <1>5
<1> QED
  BY <1>2, <1>3, <1>6, <1>7 DEF IsDocument, d

-----------------------------------------------------------------------------
(***************************************************************************)
(* One patch: what a text holds in which a range was replaced.             *)
(***************************************************************************)
\* a is s with t for what lies between b and c.
IsCut(a, s, b, c, t) ==
    /\ Len(a) = Len(s) + (Len(t) - (c - b))
    /\ \A i \in 1..b : a[i] = s[i]
    /\ \A i \in 1..Len(t) : a[b + i] = t[i]
    /\ \A i \in (c + 1)..Len(s) : a[i + (Len(t) - (c - b))] = s[i]

\* Two texts are sequences of one set of tokens.
LEMMA TextsTogether ==
    ASSUME NEW s, NEW t, IsText(s), IsText(t)
    PROVE  \E V : s \in Seq(V) /\ t \in Seq(V)
<1>1. PICK S : s \in Seq(S)
  BY DEF IsText
<1>2. PICK T : t \in Seq(T)
  BY DEF IsText
<1> DEFINE V == S \cup T
<1>3. s \in Seq(V) /\ t \in Seq(V)
  BY <1>1, <1>2
<1> QED
  BY <1>3

LEMMA OneInOrder ==
    ASSUME NEW V, NEW p \in Patches(V), NEW n \in Nat, Valid(p, n)
    PROVE  InOrder(<<p>>) = <<p>> /\ LaidOut(<<p>>, n) /\ <<p>> \in Seq(Patches(V))
<1> DEFINE q == <<p>>
<1>1. q \in Seq(Patches(V)) /\ Len(q) = 1 /\ q[1] = p /\ DOMAIN q = {1}
  OBVIOUS
<1> HIDE DEF q
<1>2. LaidOut(q, n)
  BY <1>1 DEF LaidOut, NeighboursDisjoint
<1>3. InOrder(q) = q
  BY <1>1, <1>2, InOrderAlready
<1> QED
  BY <1>1, <1>2, <1>3 DEF q

LEMMA OneDelta ==
    ASSUME NEW V, NEW p \in Patches(V)
    PROVE  /\ PrefixDelta(<<p>>, 0) = 0
           /\ PrefixDelta(<<p>>, 1) = Delta(p)
           /\ Delta(p) \in Int
<1> DEFINE q == <<p>>
<1>1. q \in Seq(Patches(V)) /\ Len(q) = 1 /\ q[1] = p
  OBVIOUS
<1>2. Delta(p) \in Int
  BY DEF Delta, Patches
<1> HIDE DEF q
<1>3. PrefixDelta(q, 0) = 0 /\ PrefixDelta(q, 1) = PrefixDelta(q, 0) + Delta(q[1])
  <2>1. \A k \in 1..Len(q) : PrefixDelta(q, k) = PrefixDelta(q, k - 1) + Delta(q[k])
    BY <1>1, DeltaSums
  <2>2. 1 \in 1..Len(q) /\ 1 - 1 = 0
    BY <1>1
  <2>3. PrefixDelta(q, 1) = PrefixDelta(q, 1 - 1) + Delta(q[1])
    BY <2>1, <2>2, Zenon
  <2> QED
    BY <1>1, <2>2, <2>3, DeltaSums
<1> QED
  BY <1>1, <1>2, <1>3 DEF q

\* Where one patch leaves a range.
LEMMA RangeOne ==
    ASSUME NEW V, NEW p \in Patches(V), NEW r,
           r.start \in Int, r.end \in Int
    PROVE  /\ p.start >= r.end => RangeAfterPatches(r, <<p>>) = Shifted(r, 0)
           /\ p.start < r.end /\ p.end <= r.start =>
                 RangeAfterPatches(r, <<p>>) = Shifted(r, Delta(p))
           /\ p.start < r.end /\ p.end > r.start => RangeAfterPatches(r, <<p>>) = NoRange
<1> DEFINE q == <<p>>
           S == {i \in DOMAIN q : q[i].start < r.end}
<1>1. q \in Seq(Patches(V)) /\ Len(q) = 1 /\ q[1] = p /\ DOMAIN q = {1}
  OBVIOUS
<1>2. p.start \in Int /\ p.end \in Int
  BY DEF Patches
<1>3. PrefixDelta(q, 0) = 0 /\ PrefixDelta(q, 1) = Delta(p)
  BY OneDelta
<1> DEFINE m == Cardinality(S)
<1>4. RangeAfterPatches(r, q) =
         IF \A i \in 1..m : q[i].end <= r.start THEN Shifted(r, PrefixDelta(q, m))
         ELSE NoRange
  BY DEF RangeAfterPatches, HowMany
<1>5. /\ p.start < r.end => S = {1}
      /\ ~(p.start < r.end) => S = {}
  BY <1>1
<1> HIDE DEF S
<1>6. /\ p.start < r.end => m = 1
      /\ ~(p.start < r.end) => m = 0
  BY <1>5, FS_EmptySet, FS_Singleton
<1>7. /\ \A i \in 1..0 : q[i].end <= r.start
      /\ (\A i \in 1..1 : q[i].end <= r.start) <=> p.end <= r.start
  BY <1>1
<1> HIDE DEF q, m
<1>8. ~(p.start < r.end) => RangeAfterPatches(r, q) = Shifted(r, 0)
  BY <1>3, <1>4, <1>6, <1>7
<1>9. p.start < r.end /\ p.end <= r.start => RangeAfterPatches(r, q) = Shifted(r, Delta(p))
  BY <1>3, <1>4, <1>6, <1>7
<1>10. p.start < r.end /\ ~(p.end <= r.start) => RangeAfterPatches(r, q) = NoRange
  BY <1>3, <1>4, <1>6, <1>7
<1> QED
  BY <1>2, <1>8, <1>9, <1>10 DEF q

-----------------------------------------------------------------------------
(***************************************************************************)
(* A section that is found again: the same bytes between the same seams    *)
(* are the same entry of the outline.                                      *)
(***************************************************************************)
LEMMA SameBytes ==
    ASSUME NEW s, NEW u, IsText(s), IsText(u), NEW a \in Nat, NEW b \in Nat,
           a <= b, b <= Len(s), NEW x \in Int, 0 <= a + x, b + x <= Len(u),
           \A i \in (a + 1)..b : u[i + x] = s[i]
    PROVE  SubSeq(u, a + x + 1, b + x) = SubSeq(s, a + 1, b)
<1> DEFINE p == SubSeq(s, a + 1, b)
           q == SubSeq(u, a + x + 1, b + x)
<1>1. PICK V : s \in Seq(V) /\ u \in Seq(V)
  BY TextsTogether
<1>2. Len(s) \in Nat /\ Len(u) \in Nat
  BY <1>1
<1>3. p \in Seq(V) /\ Len(p) = b - a /\ \A i \in 1..(b - a) : p[i] = s[a + i]
  BY <1>1, SubSeqIs DEF IsPart
<1> DEFINE c == a + x
           e == b + x
<1>4. c \in Nat /\ e \in Nat /\ c <= e /\ e <= Len(u) /\ e - c = b - a
  BY <1>2
<1>5. \A i \in 1..(b - a) : u[c + i] = s[a + i]
  <2> TAKE i \in 1..(b - a)
  <2>1. a + i \in (a + 1)..b /\ (a + i) + x = c + i
    OBVIOUS
  <2> QED
    BY <2>1
<1>6. q = SubSeq(u, c + 1, e)
  OBVIOUS
<1> HIDE DEF c, e
<1>7. q \in Seq(V) /\ Len(q) = e - c /\ \A i \in 1..(e - c) : q[i] = u[c + i]
  BY <1>1, <1>4, <1>6, SubSeqIs DEF IsPart
<1> HIDE DEF p, q
<1>8. Len(q) = Len(p) /\ \A i \in 1..Len(p) : q[i] = p[i]
  BY <1>3, <1>4, <1>5, <1>7
<1>9. p = q
  BY <1>3, <1>7, <1>8, SameSequences
<1> QED
  BY <1>9 DEF p, q

\* The number of sections of d, and of bytes.
Counted(d, n) == n = Len(d.sections)

Long(d, z)    == z = Len(d.source)

\* Section l of e is section k of d, further behind by x.
Synced(d, k, e, l, x) ==
    /\ e.sections[l].level = d.sections[k].level
    /\ e.sections[l].heading.start = d.sections[k].heading.start + x
    /\ e.sections[l].heading.end = d.sections[k].heading.end + x

\* The entry of section k in the outline of d.
Entry(d, k) ==
    [level   |-> d.sections[k].level,
     heading |-> SubSeq(d.source, d.sections[k].range.start + 1,
                        d.sections[k].bodyRange.start),
     body    |-> SubSeq(d.source, d.sections[k].bodyRange.start + 1,
                        d.sections[k].bodyRange.end)]

\* Where the parts of section k lie.
LEMMA PartsLie ==
    ASSUME NEW d, IsDocument(d), NEW k \in 1..Len(d.sections)
    PROVE  LET t == d.sections[k]
           IN /\ t.heading.start \in Nat /\ t.heading.end \in Nat
              /\ t.bodyRange.start \in Nat /\ t.bodyRange.end \in Nat
              /\ t.heading.start < t.heading.end
              /\ t.range.start = t.heading.start
              /\ t.bodyRange.start = IF t.heading.end = Len(d.source) THEN t.heading.end
                                     ELSE t.heading.end + 1
              /\ t.bodyRange.end = StartOf(d, k + 1)
              /\ t.bodyRange.start <= t.bodyRange.end
              /\ t.bodyRange.end <= Len(d.source)
              /\ StartOf(d, k + 1) \in Nat
              /\ StartOf(d, k) = t.heading.start
<1> DEFINE t == d.sections[k]
<1>1. SectionLies(d, k) /\ Len(d.source) \in Nat /\ Len(d.sections) \in Nat
  BY TextIs DEF IsDocument
<1>2. /\ t.heading.start \in Nat /\ t.heading.end \in Nat
      /\ t.heading.start < t.heading.end /\ t.heading.end <= Len(d.source)
      /\ t.bodyRange = [start |-> IF t.heading.end = Len(d.source) THEN t.heading.end
                                  ELSE t.heading.end + 1,
                        end   |-> StartOf(d, k + 1)]
      /\ t.bodyRange.start <= t.bodyRange.end
  BY <1>1 DEF SectionLies
<1>3. t.range.start = t.heading.start
  <2>1. PICK l : Closer(d.sections, k, l)
    BY <1>1 DEF SectionLies
  <2>2. t.range = [start |-> t.heading.start, end |-> StartOf(d, l)]
    BY <1>1, <2>1 DEF SectionLies
  <2> HIDE DEF t
  <2> QED
    BY <2>2
<1>4. StartOf(d, k) = t.heading.start
  BY <1>1 DEF StartOf
<1>5. StartOf(d, k + 1) \in Nat /\ StartOf(d, k + 1) <= Len(d.source)
  <2>1. CASE k + 1 <= Len(d.sections)
    <3>1. k + 1 \in 1..Len(d.sections)
      BY <1>1, <2>1
    <3>2. SectionLies(d, k + 1)
      BY <3>1 DEF IsDocument
    <3>3. /\ d.sections[k + 1].heading.start \in Nat /\ d.sections[k + 1].heading.end \in Nat
          /\ d.sections[k + 1].heading.start < d.sections[k + 1].heading.end
          /\ d.sections[k + 1].heading.end <= Len(d.source)
      BY <3>2 DEF SectionLies
    <3> QED
      BY <1>1, <2>1, <3>3 DEF StartOf
  <2>2. CASE ~(k + 1 <= Len(d.sections))
    BY <1>1, <2>2 DEF StartOf
  <2> QED
    BY <2>1, <2>2
<1> HIDE DEF t
<1>6. /\ t.bodyRange.start = IF t.heading.end = Len(d.source) THEN t.heading.end
                             ELSE t.heading.end + 1
      /\ t.bodyRange.end = StartOf(d, k + 1)
  BY <1>2
<1>7. t.bodyRange.start \in Nat
  BY <1>2, <1>6
<1> QED
  BY <1>2, <1>3, <1>4, <1>5, <1>6, <1>7 DEF t

\* With its body and up to the same seam.
Copied(d, k, e, l, x) ==
    /\ Synced(d, k, e, l, x)
    /\ StartOf(e, l + 1) = StartOf(d, k + 1) + x
    /\ \A i \in (StartOf(d, k) + 1)..StartOf(d, k + 1) : e.source[i + x] = d.source[i]

LEMMA SameEntry ==
    ASSUME NEW d, NEW e, IsDocument(d), IsDocument(e),
           NEW p \in Nat, Counted(d, p), NEW q \in Nat, Counted(e, q),
           NEW k \in 1..p, NEW l \in 1..q, NEW x \in Int, Copied(d, k, e, l, x)
    PROVE  Entry(e, l) = Entry(d, k)
<1> DEFINE s == d.source
           u == e.source
           a == d.sections[k].heading.start
           b == d.sections[k].bodyRange.start
           h == d.sections[k].heading.end
           n == StartOf(d, k + 1)
           f == e.sections[l].bodyRange.start
           g == e.sections[l].heading.start
           j == e.sections[l].heading.end
           m == StartOf(e, l + 1)
<1>0. k \in 1..Len(d.sections) /\ l \in 1..Len(e.sections)
  BY DEF Counted
<1>1. IsText(s) /\ IsText(u) /\ Len(s) \in Nat /\ Len(u) \in Nat
  BY TextIs DEF IsDocument
<1>2. /\ a \in Nat /\ h \in Nat /\ b \in Nat /\ n \in Nat /\ a < h
      /\ d.sections[k].range.start = a
      /\ b = (IF h = Len(s) THEN h ELSE h + 1)
      /\ d.sections[k].bodyRange.end = n
      /\ b <= n /\ n <= Len(s)
      /\ StartOf(d, k) = a
  BY <1>0, PartsLie
<1>3. /\ g \in Nat /\ j \in Nat /\ f \in Nat /\ m \in Nat
      /\ e.sections[l].range.start = g
      /\ f = (IF j = Len(u) THEN j ELSE j + 1)
      /\ e.sections[l].bodyRange.end = m
      /\ f <= m /\ m <= Len(u)
  BY <1>0, PartsLie
<1>4. /\ e.sections[l].level = d.sections[k].level
      /\ g = a + x /\ j = h + x /\ m = n + x
  BY DEF Copied, Synced
<1>5. \A i \in (a + 1)..n : u[i + x] = s[i]
  BY <1>2 DEF Copied
<1>6. /\ Entry(d, k) = [level |-> d.sections[k].level, heading |-> SubSeq(s, a + 1, b),
                        body |-> SubSeq(s, b + 1, n)]
      /\ Entry(e, l) = [level |-> e.sections[l].level, heading |-> SubSeq(u, g + 1, f),
                        body |-> SubSeq(u, f + 1, m)]
  BY <1>2, <1>3 DEF Entry
<1> HIDE DEF s, u, a, b, h, n, f, g, j, m
<1>7. f = b + x
  <2>1. CASE h = Len(s)
    <3>1. m = n + x /\ j = h + x /\ n = h /\ b = h
      BY <1>1, <1>2, <1>4, <2>1
    <3>2. f \in Nat /\ j \in Nat /\ f <= m /\ (f = j \/ f = j + 1)
      BY <1>3
    <3>3. m = j
      BY <3>1
    <3>4. f = j
      BY <3>2, <3>3
    <3> QED
      BY <3>1, <3>4
  <2>2. CASE h # Len(s)
    <3>1. b = h + 1 /\ h + 1 <= n
      BY <1>2, <2>2
    <3>2. j # Len(u)
      BY <1>1, <1>2, <1>3, <1>4, <3>1
    <3>3. f = j + 1
      BY <1>3, <3>2
    <3> QED
      BY <1>2, <1>4, <3>1, <3>3
  <2> QED
    BY <2>1, <2>2
<1>8. SubSeq(u, a + x + 1, b + x) = SubSeq(s, a + 1, b)
  <2>1. \A i \in (a + 1)..b : u[i + x] = s[i]
    BY <1>2, <1>5
  <2>2. 0 <= a + x
    BY <1>3, <1>4
  <2>3. b + x <= Len(u)
    BY <1>1, <1>3, <1>7
  <2>4. a <= b
    BY <1>2
  <2>5. b <= Len(s)
    BY <1>1, <1>2
  <2> QED
    BY <1>1, <1>2, <2>1, <2>2, <2>3, <2>4, <2>5, SameBytes
<1>9. SubSeq(u, b + x + 1, n + x) = SubSeq(s, b + 1, n)
  <2>1. \A i \in (b + 1)..n : u[i + x] = s[i]
    BY <1>2, <1>5
  <2>2. 0 <= b + x
    BY <1>3, <1>7
  <2>3. n + x <= Len(u)
    BY <1>1, <1>3, <1>4
  <2>4. b \in Nat /\ n \in Nat /\ b <= n /\ n <= Len(s)
    BY <1>2
  <2>5. IsText(s) /\ IsText(u)
    BY <1>1
  <2> QED
    BY <2>1, <2>2, <2>3, <2>4, <2>5, SameBytes
<1>10. SubSeq(u, g + 1, f) = SubSeq(s, a + 1, b)
  BY <1>4, <1>7, <1>8
<1>11. SubSeq(u, f + 1, m) = SubSeq(s, b + 1, n)
  BY <1>4, <1>7, <1>9
<1> QED
  BY <1>4, <1>6, <1>10, <1>11

-----------------------------------------------------------------------------
(***************************************************************************)
(* Sections of d, from i up to before l, replaced by the sections of f.    *)
(***************************************************************************)
LEMMA StartsIn ==
    ASSUME NEW d, IsDocument(d)
    PROVE  /\ Len(d.sections) \in Nat /\ Len(d.source) \in Nat
           /\ StartOf(d, Len(d.sections) + 1) = Len(d.source)
           /\ \A k \in 1..(Len(d.sections) + 1) :
                 StartOf(d, k) \in Nat /\ StartOf(d, k) <= Len(d.source)
           /\ \A k, l \in 1..(Len(d.sections) + 1) :
                 k < l => StartOf(d, k) <= StartOf(d, l)
<1> DEFINE n == Len(d.sections)
           z == Len(d.source)
<1>1. n \in Nat /\ z \in Nat
  BY TextIs DEF IsDocument
<1>2. StartOf(d, n + 1) = z
  BY <1>1 DEF StartOf
<1>3. ASSUME NEW k \in 1..n
      PROVE  /\ StartOf(d, k) \in Nat
             /\ StartOf(d, k) = d.sections[k].heading.start
             /\ d.sections[k].heading.end \in Nat
             /\ StartOf(d, k) < d.sections[k].heading.end
             /\ d.sections[k].heading.end <= z
  <2>1. SectionLies(d, k)
    BY DEF IsDocument
  <2>2. StartOf(d, k) = d.sections[k].heading.start
    BY <1>1 DEF StartOf
  <2> QED
    BY <2>1, <2>2 DEF SectionLies
<1>4. \A k \in 1..(n + 1) : StartOf(d, k) \in Nat /\ StartOf(d, k) <= z
  <2> TAKE k \in 1..(n + 1)
  <2>1. k \in 1..n \/ k = n + 1
    BY <1>1
  <2>2. CASE k \in 1..n
    BY <1>1, <1>3, <2>2
  <2>3. CASE k = n + 1
    BY <1>1, <1>2, <2>3
  <2> QED
    BY <2>1, <2>2, <2>3
<1>5. ASSUME NEW k \in 1..(n + 1), NEW l \in 1..(n + 1), k < l
      PROVE  StartOf(d, k) <= StartOf(d, l)
  <2>1. CASE l = n + 1
    BY <1>2, <1>4, <2>1
  <2>2. CASE l # n + 1
    <3>1. k \in 1..n /\ l \in 1..n
      BY <1>1, <1>5, <2>2
    <3>2. d.sections[k].heading.end < d.sections[l].heading.start
      BY <1>5, <3>1 DEF IsDocument
    <3> QED
      BY <1>3, <3>1, <3>2
  <2> QED
    BY <2>1, <2>2
<1> QED
  BY <1>1, <1>2, <1>4, <1>5

Grafted(d, e, f, i, l) ==
    /\ IsCut(e.source, d.source, StartOf(d, i), StartOf(d, l), f.source)
    /\ Len(e.sections) = Len(d.sections) + (Len(f.sections) - (l - i))
    /\ \A k \in 1..(i - 1) : Synced(d, k, e, k, 0)
    /\ \A k \in 1..Len(f.sections) : Synced(f, k, e, k + (i - 1), StartOf(d, i))
    /\ \A k \in l..Len(d.sections) :
          Synced(d, k, e, k + (Len(f.sections) - (l - i)),
                 Len(f.source) - (StartOf(d, l) - StartOf(d, i)))
    /\ StartOf(f, 1) = 0

LEMMA GraftedStarts ==
    ASSUME NEW d, NEW e, NEW f, IsDocument(d), IsDocument(e), IsDocument(f),
           NEW n \in Nat, Counted(d, n), NEW c \in Nat, Counted(f, c),
           NEW z \in Nat, Long(f, z),
           NEW i \in 1..(n + 1), NEW l \in i..(n + 1), Grafted(d, e, f, i, l),
           NEW a \in Nat, a = StartOf(d, i), NEW b \in Nat, b = StartOf(d, l),
           NEW x \in Int, x = z - (b - a), NEW y \in Int, y = c - (l - i)
    PROVE  /\ Counted(e, n + y)
           /\ \A k \in 1..i : StartOf(e, k) = StartOf(d, k)
           /\ \A k \in 1..(c + 1) : StartOf(e, k + (i - 1)) = StartOf(f, k) + a
           /\ \A k \in l..(n + 1) : StartOf(e, k + y) = StartOf(d, k) + x
<1>1. PICK m \in Nat : Counted(e, m)
  <2>1. Len(e.sections) \in Nat
    BY StartsIn
  <2> QED
    BY <2>1 DEF Counted
<1>2. m = n + y
  BY <1>1 DEF Grafted, Counted
<1>3. PICK w \in Nat : Long(d, w)
  <2>1. Len(d.source) \in Nat
    BY StartsIn
  <2> QED
    BY <2>1 DEF Long
<1>33. /\ StartOf(e, m + 1) = w + x
       /\ StartOf(d, n + 1) = w
       /\ StartOf(f, c + 1) = z
       /\ StartOf(f, 1) = 0
  <2>1. /\ StartOf(e, Len(e.sections) + 1) = Len(e.source)
        /\ StartOf(d, Len(d.sections) + 1) = Len(d.source)
        /\ StartOf(f, Len(f.sections) + 1) = Len(f.source)
    BY StartsIn
  <2>2. Len(e.source) = Len(d.source) + (Len(f.source) - (b - a))
    BY DEF Grafted, IsCut
  <2>3. StartOf(f, 1) = 0
    BY DEF Grafted
  <2> QED
    BY <1>1, <1>3, <2>1, <2>2, <2>3, Zenon DEF Counted, Long
<1>34. /\ 1 <= i /\ i <= l /\ l <= n + 1 /\ i \in Nat /\ l \in Nat
  OBVIOUS
<1>35. /\ \A k \in 1..n : /\ StartOf(d, k) = d.sections[k].heading.start
                          /\ d.sections[k].heading.start \in Nat
       /\ \A k \in 1..c : StartOf(f, k) = f.sections[k].heading.start
       /\ \A k \in 1..m : StartOf(e, k) = e.sections[k].heading.start
  BY <1>1, PartsLie DEF Counted
<1>36. /\ \A k \in 1..(i - 1) : Synced(d, k, e, k, 0)
       /\ \A k \in 1..c : Synced(f, k, e, k + (i - 1), a)
       /\ \A k \in l..n : Synced(d, k, e, k + y, x)
  BY DEF Grafted, Counted, Long
<1>4. ASSUME NEW k \in 1..(i - 1) PROVE StartOf(e, k) = StartOf(d, k)
  <2>1. k \in 1..n /\ k \in 1..m
    BY <1>2, <1>34
  <2>2. Synced(d, k, e, k, 0)
    BY <1>36
  <2> QED
    BY <1>35, <2>1, <2>2 DEF Synced
<1>5. ASSUME NEW k \in 1..c PROVE StartOf(e, k + (i - 1)) = StartOf(f, k) + a
  <2>1. k + (i - 1) \in 1..m
    BY <1>2, <1>34
  <2>2. Synced(f, k, e, k + (i - 1), a)
    BY <1>36
  <2>3. StartOf(e, k + (i - 1)) = e.sections[k + (i - 1)].heading.start
    BY <1>35, <2>1
  <2> QED
    BY <1>35, <2>2, <2>3 DEF Synced
<1>6. ASSUME NEW k \in l..n PROVE StartOf(e, k + y) = StartOf(d, k) + x
  <2>1. k + y \in 1..m /\ k \in 1..n
    BY <1>2, <1>34
  <2>2. Synced(d, k, e, k + y, x)
    BY <1>36
  <2>3. StartOf(e, k + y) = e.sections[k + y].heading.start
    BY <1>35, <2>1
  <2> QED
    BY <1>35, <2>1, <2>2, <2>3 DEF Synced
<1>7. StartOf(e, (n + 1) + y) = StartOf(d, n + 1) + x
  <2>1. (n + 1) + y = m + 1
    BY <1>2
  <2> QED
    BY <1>33, <2>1
<1>8. ASSUME NEW k \in l..(n + 1) PROVE StartOf(e, k + y) = StartOf(d, k) + x
  <2>1. k \in l..n \/ k = n + 1
    BY <1>34
  <2>2. CASE k \in l..n
    BY <1>6, <2>2
  <2>3. CASE k = n + 1
    BY <1>7, <2>3, Zenon
  <2> QED
    BY <2>1, <2>2, <2>3
<1>9. StartOf(e, (c + 1) + (i - 1)) = StartOf(f, c + 1) + a
  <2>1. l \in l..(n + 1) /\ (c + 1) + (i - 1) = l + y
    BY <1>34
  <2>2. StartOf(e, l + y) = b + x
    BY <1>8, <2>1
  <2>3. b + x = z + a
    OBVIOUS
  <2> QED
    BY <1>33, <2>1, <2>2, <2>3
<1>10. ASSUME NEW k \in 1..(c + 1)
       PROVE  StartOf(e, k + (i - 1)) = StartOf(f, k) + a
  <2>1. k \in 1..c \/ k = c + 1
    BY <1>34
  <2>2. CASE k \in 1..c
    BY <1>5, <2>2
  <2>3. CASE k = c + 1
    BY <1>9, <2>3, Zenon
  <2> QED
    BY <2>1, <2>2, <2>3
<1>11. StartOf(e, i) = a
  <2>1. 1 \in 1..(c + 1) /\ 1 + (i - 1) = i
    BY <1>34
  <2>2. StartOf(e, 1 + (i - 1)) = StartOf(f, 1) + a
    BY <1>10, <2>1
  <2> QED
    BY <1>33, <2>1, <2>2
<1>12. ASSUME NEW k \in 1..i PROVE StartOf(e, k) = StartOf(d, k)
  <2>1. k \in 1..(i - 1) \/ k = i
    BY <1>34
  <2> QED
    BY <1>4, <1>11, <2>1
<1> QED
  BY <1>1, <1>2, <1>8, <1>10, <1>12

-----------------------------------------------------------------------------
IsJoin(z, p, q, a, b) ==
    /\ OfLength(z, a + b)
    /\ \A k \in 1..a : z[k] = p[k]
    /\ \A k \in 1..b : z[a + k] = q[k]

LEMMA TwoParts ==
    ASSUME NEW V, NEW p \in Seq(V), NEW q \in Seq(V),
           NEW a \in Nat, OfLength(p, a), NEW b \in Nat, OfLength(q, b)
    PROVE  p \o q \in Seq(V) /\ IsJoin(p \o q, p, q, a, b)
<1> DEFINE z == p \o q
<1>1. /\ z \in Seq(V) /\ Len(z) = Len(p) + Len(q)
      /\ \A k \in 1..Len(p) : z[k] = p[k]
      /\ \A k \in 1..Len(q) : z[Len(p) + k] = q[k]
  BY ConcatIs
<1> HIDE DEF z
<1>2. Len(p) = a /\ Len(q) = b
  BY DEF OfLength
<1>3. /\ z \in Seq(V) /\ Len(z) = a + b
      /\ \A k \in 1..a : z[k] = p[k]
      /\ \A k \in 1..b : z[a + k] = q[k]
  BY <1>1, <1>2
<1> QED
  BY <1>3 DEF z, OfLength, IsJoin

-----------------------------------------------------------------------------
\* x is what s holds behind a up to b.
IsSlice(V, x, s, a, b) ==
    /\ x \in Seq(V) /\ OfLength(x, b - a)
    /\ \A k \in 1..(b - a) : x[k] = s[a + k]

LEMMA SliceIs ==
    ASSUME NEW V, NEW s \in Seq(V), NEW n \in Nat, OfLength(s, n),
           NEW a \in Nat, NEW b \in Nat, a <= b, b <= n,
           NEW x, x = SubSeq(s, a + 1, b)
    PROVE  IsSlice(V, x, s, a, b)
<1>1. b <= Len(s)
  BY DEF OfLength
<1>2. IsPart(V, x, s, a, b)
  BY <1>1, SubSeqIs
<1> QED
  BY <1>2 DEF IsPart, IsSlice, OfLength

-----------------------------------------------------------------------------
(***************************************************************************)
(* Candidates whose headings were found where the operation means them to  *)
(* be, between the sections and behind them.                               *)
(***************************************************************************)
LEMMA SectionSlice ==
    ASSUME NEW d, IsDocument(d), NEW n \in Nat, Counted(d, n),
           NEW a \in Nat, NEW b \in Nat, a <= b, b <= n,
           NEW x, x = SubSeq(d.sections, a + 1, b)
    PROVE  DOMAIN x = 1..(b - a) /\ \A k \in 1..(b - a) : x[k] = d.sections[a + k]
<1> DEFINE V == {d.sections[k] : k \in 1..n}
           s == d.sections
<1>1. s \in Seq(V) /\ OfLength(s, n)
  <2>1. s = [k \in 1..n |-> s[k]]
    BY DEF IsDocument, Counted
  <2>2. \A k \in 1..n : s[k] \in V
    OBVIOUS
  <2> HIDE DEF s, V
  <2>3. [k \in 1..n |-> s[k]] \in Seq(V)
    BY <2>2
  <2>4. s \in Seq(V)
    BY <2>1, <2>3, Zenon
  <2>5. Len(s) = n
    BY DEF Counted, s
  <2> QED
    BY <2>4, <2>5 DEF OfLength
<1> HIDE DEF V
<1>2. x = SubSeq(s, a + 1, b)
  OBVIOUS
<1> HIDE DEF s
<1>3. IsSlice(V, x, s, a, b)
  BY <1>1, <1>2, SliceIs
<1>4. DOMAIN x = 1..(b - a)
  <2>1. x \in Seq(V) /\ Len(x) = b - a
    BY <1>3 DEF IsSlice, OfLength
  <2> QED
    BY <2>1
<1> QED
  BY <1>3, <1>4 DEF IsSlice, s

LEMMA HeadingEnds ==
    ASSUME NEW d, IsDocument(d), NEW k \in 1..Len(d.sections)
    PROVE  d.sections[k].heading.end <= StartOf(d, k + 1)
<1> DEFINE x == d.sections[k].heading.end
           y == d.sections[k].bodyRange.start
           z == d.sections[k].bodyRange.end
<1>1. y = x \/ y = x + 1
  BY PartsLie
<1>2. x \in Nat /\ y \in Nat /\ z \in Nat /\ y <= z /\ z = StartOf(d, k + 1)
  BY PartsLie
<1> HIDE DEF x, y, z
<1>3. x <= z
  BY <1>1, <1>2
<1> QED
  BY <1>2, <1>3 DEF x

-----------------------------------------------------------------------------
(***************************************************************************)
(* Two texts with the same bytes from a to b, x further on in the second:  *)
(* their lines are the same there, and if the parser comes to both in the  *)
(* same state it goes through both alike and finds the same headings.      *)
(***************************************************************************)
LEMMA LineEndOnly ==
    ASSUME NEW s, IsText(s), NEW a \in 0..Len(s), NEW e \in a..Len(s),
           e = Len(s) \/ s[e + 1] = "nl", \A j \in a..(e - 1) : s[j + 1] # "nl"
    PROVE  LineEnd(s, a) = e
<1> DEFINE g == LineEnd(s, a)
<1>1. /\ g \in a..Len(s)
      /\ g = Len(s) \/ s[g + 1] = "nl"
      /\ \A j \in a..(g - 1) : s[j + 1] # "nl"
  BY LineEndIs
<1> DEFINE n == Len(s)
<1>2. /\ n \in Nat /\ g \in a..n /\ e \in a..n /\ a \in 0..n
      /\ g = n \/ s[g + 1] = "nl"
      /\ e = n \/ s[e + 1] = "nl"
  BY <1>1, TextIs
<1> HIDE DEF g, n
<1>3. ~(g < e)
  <2> SUFFICES ASSUME g < e PROVE FALSE
    OBVIOUS
  <2>1. g \in a..(e - 1) /\ g # n
    BY <1>2
  <2> QED
    BY <1>2, <2>1
<1>4. ~(e < g)
  <2> SUFFICES ASSUME e < g PROVE FALSE
    OBVIOUS
  <2>1. e \in a..(g - 1) /\ e # n
    BY <1>2
  <2> QED
    BY <1>1, <1>2, <2>1 DEF g
<1> QED
  BY <1>2, <1>3, <1>4 DEF g

SameText(s, u, a, b, x) == \A j \in (a + 1)..b : u[j + x] = s[j]

Aligned(s, u, a, b, x) ==
    /\ \A j \in a..(b - 1) : StartsLine(u, j + x) <=> StartsLine(s, j)
    /\ \A j \in a..(b - 1) : StartsLine(s, j) => LineEnd(u, j + x) = LineEnd(s, j) + x

\* No line goes on behind i in one of them only.
EndsThere(s, i) == i = Len(s) \/ s[i + 1] = "nl"

LEMMA AlignedIs ==
    ASSUME NEW s, IsText(s), NEW u, IsText(u), NEW a \in Nat, NEW b \in Nat, NEW x \in Int,
           a <= b, NEW n \in Nat, OfLength(s, n), b <= n,
           0 <= a + x, NEW z \in Nat, OfLength(u, z), b + x <= z,
           SameText(s, u, a, b, x), StartsLine(s, a), StartsLine(u, a + x),
           s[b] = "nl" \/ (EndsThere(s, b) /\ EndsThere(u, b + x))
    PROVE  Aligned(s, u, a, b, x)
<1>1. ASSUME NEW j \in a..(b - 1) PROVE StartsLine(u, j + x) <=> StartsLine(s, j)
  <2>1. CASE j = a
    BY <2>1
  <2>2. CASE j # a
    <3>1. j \in (a + 1)..b /\ j # 0 /\ j + x # 0
      BY <2>2
    <3>2. u[j + x] = s[j]
      BY <3>1 DEF SameText
    <3> QED
      BY <3>1, <3>2 DEF StartsLine
  <2> QED
    BY <2>1, <2>2
<1>2. ASSUME NEW j \in a..(b - 1), StartsLine(s, j) PROVE LineEnd(u, j + x) = LineEnd(s, j) + x
  <2> DEFINE e == LineEnd(s, j)
  <2>1. Len(s) = n /\ Len(u) = z
    BY DEF OfLength
  <2>2. j \in 0..Len(s) /\ j + x \in 0..Len(u)
    BY <2>1
  <2>3. /\ e \in j..Len(s)
        /\ e = Len(s) \/ s[e + 1] = "nl"
        /\ \A k \in j..(e - 1) : s[k + 1] # "nl"
    BY <2>2, LineEndIs
  <2>4. e \in j..n /\ (e = n \/ s[e + 1] = "nl")
    BY <2>1, <2>3
  <2> HIDE DEF e
  <2>5. e <= b
    <3> SUFFICES ASSUME e > b PROVE FALSE
      BY <2>4
    <3>1. b \in j..(e - 1) /\ b - 1 \in j..(e - 1) /\ (b - 1) + 1 = b /\ b # n
      BY <2>4
    <3>2. s[b + 1] # "nl" /\ s[b] # "nl"
      BY <2>3, <3>1
    <3>3. EndsThere(s, b)
      BY <3>2
    <3> QED
      BY <2>1, <3>1, <3>2, <3>3 DEF EndsThere
  <2>6. e + x = z \/ u[e + x + 1] = "nl"
    <3>1. CASE e < b
      <4>1. e + 1 \in (a + 1)..b /\ e # n /\ (e + 1) + x = e + x + 1
        BY <2>4, <3>1
      <4>2. u[(e + 1) + x] = s[e + 1]
        BY <4>1 DEF SameText
      <4> QED
        BY <2>4, <4>1, <4>2
    <3>2. CASE e = b
      <4>1. s[b] # "nl"
        <5>1. b - 1 \in j..(e - 1) /\ (b - 1) + 1 = b
          BY <3>2
        <5> QED
          BY <2>3, <5>1
      <4>2. EndsThere(u, b + x)
        BY <4>1
      <4> QED
        BY <2>1, <3>2, <4>2 DEF EndsThere
    <3> QED
      BY <2>4, <2>5, <3>1, <3>2
  <2>7. \A k \in (j + x)..((e + x) - 1) : u[k + 1] # "nl"
    <3> TAKE k \in (j + x)..((e + x) - 1)
    <3> DEFINE g == k - x
    <3>1. g \in j..(e - 1) /\ g + 1 \in (a + 1)..b /\ (g + 1) + x = k + 1
      BY <2>4, <2>5
    <3> HIDE DEF g
    <3>2. u[(g + 1) + x] = s[g + 1] /\ s[g + 1] # "nl"
      BY <2>3, <3>1 DEF SameText
    <3> QED
      BY <3>1, <3>2
  <2> DEFINE f == j + x
             h == e + x
  <2>8. /\ f \in 0..Len(u) /\ h \in f..Len(u) /\ (h = Len(u) \/ u[h + 1] = "nl")
        /\ \A k \in f..(h - 1) : u[k + 1] # "nl"
    <3>1. f \in 0..z /\ h \in f..z
      BY <2>4, <2>5
    <3>2. h = z \/ u[h + 1] = "nl"
      BY <2>6
    <3>3. \A k \in f..(h - 1) : u[k + 1] # "nl"
      BY <2>7
    <3> HIDE DEF f, h
    <3> QED
      BY <2>1, <3>1, <3>2, <3>3
  <2> HIDE DEF f, h
  <2>9. LineEnd(u, f) = h
    BY <2>8, LineEndOnly
  <2> QED
    BY <2>9 DEF f, h, e
<1> QED
  BY <1>1, <1>2 DEF Aligned

-----------------------------------------------------------------------------
IsAppended(z, s, n, h) ==
    /\ OfLength(z, n + 1)
    /\ z[n + 1] = h
    /\ \A k \in 1..n : z[k] = s[k]

Extends(z, s, h) == (\E V : s \in Seq(V) /\ h \in V) /\ z = Append(s, h)

LEMMA AppendedIs ==
    ASSUME NEW s, NEW n \in Nat, OfLength(s, n), NEW h, NEW z, Extends(z, s, h)
    PROVE  IsAppended(z, s, n, h)
<1>1. Len(s) = n
  BY DEF OfLength
<1> PICK V : s \in Seq(V) /\ h \in V /\ z = Append(s, h)
  BY DEF Extends
<1>2. Len(z) = n + 1 /\ z[n + 1] = h
  BY <1>1
<1>3. \A k \in 1..n : z[k] = s[k]
  BY <1>1
<1> QED
  BY <1>2, <1>3 DEF IsAppended, OfLength

HeadMoved(h, x) ==
    [kind |-> h.kind, level |-> h.level, start |-> h.start + x, end |-> h.end + x]

\* The headings of y after its first p are those of v after its first q.
Alike(v, y, x, q, p, c) ==
    /\ OfLength(v.heads, q + c) /\ OfLength(y.heads, p + c)
    /\ \A k \in 1..c : y.heads[p + k] = HeadMoved(v.heads[q + k], x)

\* The parser is in the same state, x further on.
SameState(v, y, x) ==
    /\ y.open = v.open
    /\ v.open = "paragraph" => y.from = v.from + x

LEMMA SimStep ==
    ASSUME NEW s, IsText(s), NEW u, IsText(u), NEW m, IsRun(s, m), NEW w, IsRun(u, w),
           NEW n \in Nat, OfLength(s, n), NEW z \in Nat, OfLength(u, z),
           NEW a \in Nat, NEW b \in Nat, NEW x \in Int, a <= b, b <= n, 0 <= a + x, b + x <= z,
           SameText(s, u, a, b, x), Aligned(s, u, a, b, x),
           NEW j \in a..(b - 1), NEW q \in Nat, NEW p \in Nat, NEW c \in Nat,
           SameState(m[j], w[j + x], x), Alike(m[j], w[j + x], x, q, p, c)
    PROVE  /\ SameState(m[j + 1], w[(j + 1) + x], x)
           /\ Alike(m[j + 1], w[(j + 1) + x], x, q, p, c)
              \/ Alike(m[j + 1], w[(j + 1) + x], x, q, p, c + 1)
<1> DEFINE i == j + x
           v == m[j]
           y == w[i]
<1>0. Len(s) = n /\ Len(u) = z
  BY DEF OfLength
<1>1. j \in 0..(Len(s) - 1) /\ i \in 0..(Len(u) - 1) /\ (j + 1) + x = i + 1
      /\ j \in 0..Len(s) /\ i \in 0..Len(u) /\ j \in Nat /\ i \in Nat
  <2>1. j \in 0..(n - 1) /\ i \in 0..(z - 1) /\ (j + 1) + x = i + 1 /\ j \in 0..n /\ i \in 0..z
    OBVIOUS
  <2> HIDE DEF i
  <2> QED
    BY <1>0, <2>1
<1>2. m[j + 1] = (IF StartsLine(s, j) THEN Read(s, j, v) ELSE v)
  BY <1>1, RunStep
<1>3. w[i + 1] = (IF StartsLine(u, i) THEN Read(u, i, y) ELSE y)
  <2> HIDE DEF i
  <2> QED
    BY <1>1, RunStep DEF y
<1>4. StartsLine(u, i) <=> StartsLine(s, j)
  BY DEF Aligned
<1>5. v \in Reduced /\ y \in Reduced
  <2> HIDE DEF i
  <2> QED
    BY <1>1, RunSound DEF SoundAt, v, y
<1>6. SameState(v, y, x) /\ Alike(v, y, x, q, p, c)
  OBVIOUS
<1>7. CASE ~StartsLine(s, j)
  <2> HIDE DEF v, y, i
  <2> QED
    BY <1>1, <1>2, <1>3, <1>4, <1>6, <1>7
<1>8. CASE StartsLine(s, j)
  <2>1. LineEnd(u, i) = LineEnd(s, j) + x
    BY <1>8 DEF Aligned
  <2>2. u[i + 1] = s[j + 1]
    <3>1. j + 1 \in (a + 1)..b /\ (j + 1) + x = i + 1
      OBVIOUS
    <3>2. u[(j + 1) + x] = s[j + 1]
      BY <3>1 DEF SameText
    <3> QED
      BY <3>1, <3>2
  <2> DEFINE f == s[j + 1]
             e == LineEnd(s, j)
             o == Alone(s, j)
  <2>3. First(s, j) = f /\ First(u, i) = f /\ e \in Nat
    <3>1. First(s, j) = s[j + 1] /\ LineEnd(s, j) \in j..Len(s)
      BY <1>1, LineIs
    <3>2. First(u, i) = u[i + 1]
      <4> HIDE DEF i
      <4> QED
        BY <1>1, LineIs
    <3>3. LineEnd(s, j) \in Nat
      BY <3>1, <1>0
    <3> QED
      BY <2>2, <3>1, <3>2, <3>3
  <2>4. Alone(u, i) = o
    <3>1. Alone(s, j) = (LineEnd(s, j) = j + 1)
      BY DEF Alone, AloneIn, LineAt
    <3>2. Alone(u, i) = (LineEnd(u, i) = i + 1)
      BY DEF Alone, AloneIn, LineAt
    <3>3. (e + x = i + 1) <=> (e = j + 1)
      BY <2>3
    <3> HIDE DEF i
    <3> QED
      BY <2>1, <3>1, <3>2, <3>3
  <2> HIDE DEF f, o, e
  <2>5. LineEnd(s, j) = e /\ LineEnd(u, i) = e + x /\ Alone(s, j) = o
    BY <2>1 DEF e, o
  <2> DEFINE hs == HeadAt(s, j, v)
             hu == HeadAt(u, i, y)
  <2>6. Heads(s, j, v) <=> Heads(u, i, y)
    BY <1>6, <2>3, <2>4, <2>5 DEF Heads, SameState
  <2>7. Then(s, j, v) = Then(u, i, y)
    BY <1>6, <2>3, <2>4, <2>5 DEF Then, SameState
  <2>8. Heads(s, j, v) => hu = HeadMoved(hs, x)
    <3>1. CASE MakesAtx(v.open, f)
      <4>1. hs = [kind |-> "atx", level |-> Level[f], start |-> j, end |-> e]
            /\ hu = [kind |-> "atx", level |-> Level[f], start |-> i, end |-> e + x]
        BY <1>6, <2>3, <2>5, <3>1 DEF HeadAt, SameState
      <4> HIDE DEF hs, hu
      <4> QED
        BY <4>1 DEF HeadMoved
    <3>2. CASE ~MakesAtx(v.open, f)
      <4> SUFFICES ASSUME Heads(s, j, v) PROVE hu = HeadMoved(hs, x)
        OBVIOUS
      <4>1. v.open = "paragraph"
        BY <2>3, <3>2 DEF Heads, Makes, MakesSetext
      <4>2. hs = [kind |-> "setext", level |-> Underline[f], start |-> v.from, end |-> e]
            /\ hu = [kind |-> "setext", level |-> Underline[f], start |-> y.from, end |-> e + x]
        BY <1>6, <2>3, <2>5, <3>2 DEF HeadAt, SameState
      <4>3. y.from = v.from + x
        BY <1>6, <4>1 DEF SameState
      <4> HIDE DEF hs, hu
      <4> QED
        BY <4>2, <4>3 DEF HeadMoved
    <3> QED
      BY <3>1, <3>2
  <2> DEFINE v2 == Read(s, j, v)
             y2 == Read(u, i, y)
  <2>9. /\ v2.open = Then(s, j, v) /\ y2.open = Then(u, i, y)
        /\ v2.heads = IF Heads(s, j, v) THEN Append(v.heads, hs) ELSE v.heads
        /\ y2.heads = IF Heads(u, i, y) THEN Append(y.heads, hu) ELSE y.heads
        /\ v2.open = "paragraph" => v2.from = IF v.open = "paragraph" THEN v.from ELSE j
        /\ y2.open = "paragraph" => y2.from = IF y.open = "paragraph" THEN y.from ELSE i
    BY DEF Read
  <2>10. SameState(v2, y2, x)
    <3>1. i = j + x
      OBVIOUS
    <3> HIDE DEF v2, y2, i, v, y
    <3> QED
      BY <1>6, <2>7, <2>9, <3>1 DEF SameState
  <2>11. Alike(v2, y2, x, q, p, c) \/ Alike(v2, y2, x, q, p, c + 1)
    <3>1. CASE ~Heads(s, j, v)
      <4>1. v2.heads = v.heads /\ y2.heads = y.heads
        BY <2>6, <2>9, <3>1
      <4> HIDE DEF v2, y2, i, v, y
      <4> QED
        BY <1>6, <4>1 DEF Alike
    <3>2. CASE Heads(s, j, v)
      <4>1. v2.heads = Append(v.heads, hs) /\ y2.heads = Append(y.heads, hu) /\ hu = HeadMoved(hs, x)
        BY <2>6, <2>8, <2>9, <3>2
      <4>2. hs \in HeadSet /\ hu \in HeadSet
        <5>1. SoundAt(s, v, j) /\ SoundAt(u, y, i)
          <6> HIDE DEF i
          <6> QED
            BY <1>1, RunSound DEF v, y
        <5>2. hs \in HeadSet
          BY <1>1, <1>8, <3>2, <5>1, HeadAtIs
        <5>3. Heads(u, i, y) /\ StartsLine(u, i)
          BY <1>4, <1>8, <2>6, <3>2
        <5>4. hu \in HeadSet
          <6> HIDE DEF i, y
          <6> QED
            BY <1>1, <5>1, <5>3, HeadAtIs
        <5> QED
          BY <5>2, <5>4
      <4>3. v.heads \in Seq(HeadSet) /\ y.heads \in Seq(HeadSet)
        BY <1>5 DEF Reduced
      <4> HIDE DEF v2, y2, i, v, y, hs, hu
      <4>4. /\ OfLength(v.heads, q + c) /\ OfLength(y.heads, p + c)
            /\ \A k \in 1..c : y.heads[p + k] = HeadMoved(v.heads[q + k], x)
        BY <1>6 DEF Alike
      <4>5. IsAppended(v2.heads, v.heads, q + c, hs)
        <5> DEFINE g == q + c
                   h1 == v.heads
                   h2 == v2.heads
        <5>1. g \in Nat /\ OfLength(h1, g) /\ Extends(h2, h1, hs)
          <6>1. g \in Nat
            OBVIOUS
          <6> HIDE DEF g
          <6>2. OfLength(h1, g)
            BY <4>4 DEF g
          <6> QED
            BY <4>1, <4>2, <4>3, <6>1, <6>2 DEF Extends
        <5> HIDE DEF g, h1, h2
        <5>2. IsAppended(h2, h1, g, hs)
          BY <5>1, AppendedIs
        <5> QED
          BY <5>2 DEF g, h1, h2
      <4>6. IsAppended(y2.heads, y.heads, p + c, hu)
        <5> DEFINE g == p + c
                   h1 == y.heads
                   h2 == y2.heads
        <5>1. g \in Nat /\ OfLength(h1, g) /\ Extends(h2, h1, hu)
          <6>1. g \in Nat
            OBVIOUS
          <6> HIDE DEF g
          <6>2. OfLength(h1, g)
            BY <4>4 DEF g
          <6> QED
            BY <4>1, <4>2, <4>3, <6>1, <6>2 DEF Extends
        <5> HIDE DEF g, h1, h2
        <5>2. IsAppended(h2, h1, g, hu)
          BY <5>1, AppendedIs
        <5> QED
          BY <5>2 DEF g, h1, h2
      <4>7. ASSUME NEW k \in 1..(c + 1)
            PROVE  y2.heads[p + k] = HeadMoved(v2.heads[q + k], x)
        <5>1. CASE k \in 1..c
          <6>1. p + k \in 1..(p + c) /\ q + k \in 1..(q + c)
            BY <5>1
          <6> QED
            BY <4>4, <4>5, <4>6, <5>1, <6>1 DEF IsAppended
        <5>2. CASE k = c + 1
          <6>1. p + k = (p + c) + 1 /\ q + k = (q + c) + 1
            BY <5>2
          <6> QED
            BY <4>1, <4>5, <4>6, <6>1 DEF IsAppended
        <5>3. k \in 1..c \/ k = c + 1
          OBVIOUS
        <5> QED
          BY <5>1, <5>2, <5>3, Zenon
      <4>8. OfLength(v2.heads, q + (c + 1)) /\ OfLength(y2.heads, p + (c + 1))
        <5>1. (q + c) + 1 = q + (c + 1) /\ (p + c) + 1 = p + (c + 1)
          OBVIOUS
        <5> QED
          BY <4>5, <4>6, <5>1 DEF IsAppended
      <4> QED
        BY <4>7, <4>8 DEF Alike
    <3> QED
      BY <3>1, <3>2
  <2>12. m[j + 1] = v2 /\ w[i + 1] = y2
    BY <1>2, <1>3, <1>4, <1>8
  <2> HIDE DEF v2, y2, v, y, i
  <2> QED
    BY <1>1, <2>10, <2>11, <2>12
<1> QED
  BY <1>7, <1>8

LEMMA SimRun ==
    ASSUME NEW s, IsText(s), NEW u, IsText(u), NEW m, IsRun(s, m), NEW w, IsRun(u, w),
           NEW n \in Nat, OfLength(s, n), NEW z \in Nat, OfLength(u, z),
           NEW a \in Nat, NEW b \in Nat, NEW x \in Int, a <= b, b <= n, 0 <= a + x, b + x <= z,
           SameText(s, u, a, b, x), Aligned(s, u, a, b, x),
           SameState(m[a], w[a + x], x),
           NEW q \in Nat, OfLength(m[a].heads, q), NEW p \in Nat, OfLength(w[a + x].heads, p),
           NEW d \in a..b
    PROVE  /\ SameState(m[d], w[d + x], x)
           /\ \E c \in Nat : Alike(m[d], w[d + x], x, q, p, c)
<1> DEFINE Good(j) == /\ SameState(m[j], w[j + x], x)
                      /\ \E c \in Nat : Alike(m[j], w[j + x], x, q, p, c)
           S == {k \in Nat : a + k <= b => Good(a + k)}
<1>1. 0 \in S
  <2>1. Alike(m[a], w[a + x], x, q, p, 0)
    BY DEF Alike
  <2>2. a + 0 = a
    OBVIOUS
  <2>3. Good(a)
    BY <2>1
  <2> HIDE DEF Good
  <2> QED
    BY <2>2, <2>3
<1>2. ASSUME NEW k \in Nat, k \in S PROVE k + 1 \in S
  <2> SUFFICES ASSUME a + (k + 1) <= b PROVE Good(a + (k + 1))
    OBVIOUS
  <2> DEFINE j == a + k
  <2>1. j \in a..(b - 1) /\ j + 1 = a + (k + 1)
    OBVIOUS
  <2>2. Good(j)
    BY <1>2, <2>1
  <2>3. PICK c \in Nat : SameState(m[j], w[j + x], x) /\ Alike(m[j], w[j + x], x, q, p, c)
    BY <2>2
  <2> HIDE DEF j, S
  <2>4. /\ SameState(m[j + 1], w[(j + 1) + x], x)
        /\ Alike(m[j + 1], w[(j + 1) + x], x, q, p, c)
           \/ Alike(m[j + 1], w[(j + 1) + x], x, q, p, c + 1)
    BY <2>1, <2>3, SimStep
  <2>5. c + 1 \in Nat
    OBVIOUS
  <2>6. Good(j + 1)
    BY <2>4, <2>5
  <2> HIDE DEF Good
  <2> QED
    BY <2>1, <2>6
<1>3. Nat \subseteq S
  <2> HIDE DEF S
  <2> QED
    BY <1>1, <1>2, NatSetInduction
<1> DEFINE k == d - a
<1>4. k \in Nat /\ a + k = d
  OBVIOUS
<1> HIDE DEF k
<1>5. k \in S
  BY <1>3, <1>4
<1>6. Good(d)
  <2>1. d <= b
    OBVIOUS
  <2> HIDE DEF Good
  <2> QED
    BY <1>4, <1>5, <2>1
<1> QED
  BY <1>6

-----------------------------------------------------------------------------
(***************************************************************************)
(* How a run goes on: between the starts of lines nothing happens, what    *)
(* was found stays found, every heading was made by a line, which leaves   *)
(* nothing open, and an open paragraph was opened where it begins.         *)
(***************************************************************************)
LEMMA HeadingLines ==
    ASSUME NEW s, NEW i, NEW v, Heads(s, i, v)
    PROVE  Then(s, i, v) = "none"
<1> DEFINE k == v.open
           x == First(s, i)
           o == Alone(s, i)
<1>1. MakesAtx(k, x) \/ MakesSetext(k, x, o)
  BY DEF Heads, Makes
<1>2. Then(s, i, v) = Opens(k, x, o)
  BY DEF Then
<1> HIDE DEF k, x, o
<1>3. Ends(k, x, o)
  BY <1>1 DEF MakesAtx, MakesSetext, Ends
<1> QED
  BY <1>2, <1>3 DEF Opens

LEMMA RunIdle ==
    ASSUME NEW s, IsText(s), NEW m, IsRun(s, m), NEW n \in Nat, OfLength(s, n),
           NEW a \in 0..(n - 1), NEW e, e = LineEnd(s, a),
           NEW p \in (a + 1)..(e + 1), p <= n
    PROVE  m[p] = m[a + 1]
<1>1. Len(s) = n
  BY DEF OfLength
<1>2. a \in 0..Len(s)
  BY <1>1
<1>3. e \in a..Len(s) /\ \A j \in a..(e - 1) : s[j + 1] # "nl"
  BY <1>2, LineEndIs
<1>4. e \in a..n
  BY <1>1, <1>3
<1> DEFINE S == {k \in Nat : (a + 1) + k <= p => m[(a + 1) + k] = m[a + 1]}
<1>5. 0 \in S
  OBVIOUS
<1>6. ASSUME NEW k \in Nat, k \in S PROVE k + 1 \in S
  <2> SUFFICES ASSUME (a + 1) + (k + 1) <= p PROVE m[(a + 1) + (k + 1)] = m[a + 1]
    OBVIOUS
  <2> DEFINE j == (a + 1) + k
  <2>1. j \in 0..(n - 1) /\ j + 1 = (a + 1) + (k + 1) /\ j - 1 \in a..(e - 1) /\ (j - 1) + 1 = j /\ j # 0
    BY <1>4
  <2>2. m[j] = m[a + 1]
    BY <1>6, <2>1
  <2> HIDE DEF j
  <2>3. ~StartsLine(s, j)
    <3>1. s[j] # "nl"
      BY <1>3, <2>1
    <3> QED
      BY <2>1, <3>1 DEF StartsLine
  <2>4. j \in 0..(Len(s) - 1)
    BY <1>1, <2>1
  <2>5. m[j + 1] = m[j]
    BY <2>3, <2>4, RunStep
  <2> QED
    BY <2>1, <2>2, <2>5
<1>7. Nat \subseteq S
  <2> HIDE DEF S
  <2> QED
    BY <1>5, <1>6, NatSetInduction
<1>8. p - (a + 1) \in S /\ (a + 1) + (p - (a + 1)) = p
  <2>1. p - (a + 1) \in Nat /\ (a + 1) + (p - (a + 1)) = p
    BY <1>4
  <2> HIDE DEF S
  <2> QED
    BY <1>7, <2>1
<1> QED
  BY <1>8

\* x is how y begins.
Begun(x, y) ==
    \E p, q \in Nat : /\ OfLength(x, p) /\ OfLength(y, q) /\ p <= q
                      /\ \A k \in 1..p : y[k] = x[k]

LEMMA BegunRefl ==
    ASSUME NEW x, NEW p \in Nat, OfLength(x, p)
    PROVE  Begun(x, x)
BY DEF Begun

LEMMA BegunTrans ==
    ASSUME NEW x, NEW y, NEW z, Begun(x, y), Begun(y, z)
    PROVE  Begun(x, z)
<1>1. PICK p \in Nat, q \in Nat : OfLength(x, p) /\ OfLength(y, q) /\ p <= q
                                   /\ \A k \in 1..p : y[k] = x[k]
  BY DEF Begun
<1>2. PICK q2 \in Nat, r \in Nat : OfLength(y, q2) /\ OfLength(z, r) /\ q2 <= r
                                   /\ \A k \in 1..q2 : z[k] = y[k]
  BY DEF Begun
<1>3. q2 = q
  BY <1>1, <1>2 DEF OfLength
<1>4. p <= r /\ \A k \in 1..p : z[k] = x[k]
  <2>1. \A k \in 1..p : k \in 1..q2
    BY <1>1, <1>3
  <2> QED
    BY <1>1, <1>2, <1>3, <2>1
<1> QED
  BY <1>1, <1>2, <1>4 DEF Begun

LEMMA BegunStep ==
    ASSUME NEW s, IsText(s), NEW m, IsRun(s, m), NEW n \in Nat, OfLength(s, n),
           NEW j \in 0..(n - 1)
    PROVE  /\ Begun(m[j].heads, m[j + 1].heads)
           /\ (StartsLine(s, j) /\ Heads(s, j, m[j])) =>
                \E g \in Nat : OfLength(m[j].heads, g)
                               /\ IsAppended(m[j + 1].heads, m[j].heads, g, HeadAt(s, j, m[j]))
           /\ ~(StartsLine(s, j) /\ Heads(s, j, m[j])) => m[j + 1].heads = m[j].heads
<1>1. Len(s) = n
  BY DEF OfLength
<1>2. j \in 0..(Len(s) - 1) /\ j \in 0..Len(s)
  BY <1>1
<1>3. m[j + 1] = (IF StartsLine(s, j) THEN Read(s, j, m[j]) ELSE m[j])
  BY <1>2, RunStep
<1>4. SoundAt(s, m[j], j)
  BY <1>2, RunSound
<1>5. m[j].heads \in Seq(HeadSet)
  BY <1>4 DEF SoundAt, Reduced
<1>6. PICK g \in Nat : OfLength(m[j].heads, g)
  BY <1>5 DEF OfLength
<1>7. CASE ~(StartsLine(s, j) /\ Heads(s, j, m[j]))
  <2>1. m[j + 1].heads = m[j].heads
    <3>1. ~StartsLine(s, j) => m[j + 1] = m[j]
      BY <1>3
    <3>2. Read(s, j, m[j]).heads = IF Heads(s, j, m[j]) THEN Append(m[j].heads, HeadAt(s, j, m[j]))
                                   ELSE m[j].heads
      BY DEF Read
    <3> QED
      BY <1>3, <1>7, <3>1, <3>2
  <2>2. Begun(m[j].heads, m[j].heads)
    BY <1>6, BegunRefl
  <2> QED
    BY <1>7, <2>1, <2>2
<1>8. CASE StartsLine(s, j) /\ Heads(s, j, m[j])
  <2> DEFINE h == HeadAt(s, j, m[j])
             h1 == m[j].heads
             h2 == m[j + 1].heads
  <2>1. h2 = Append(h1, h)
    <3>2. Read(s, j, m[j]).heads = IF Heads(s, j, m[j]) THEN Append(m[j].heads, HeadAt(s, j, m[j]))
                                   ELSE m[j].heads
      BY DEF Read
    <3> QED
      BY <1>3, <1>8, <3>2
  <2>2. h \in HeadSet
    BY <1>2, <1>4, <1>8, HeadAtIs
  <2>3. Extends(h2, h1, h) /\ OfLength(h1, g)
    BY <1>5, <1>6, <2>1, <2>2 DEF Extends
  <2> HIDE DEF h, h1, h2
  <2>4. IsAppended(h2, h1, g, h)
    BY <2>3, AppendedIs
  <2>5. Begun(h1, h2)
    <3>1. OfLength(h2, g + 1) /\ \A k \in 1..g : h2[k] = h1[k]
      BY <2>4 DEF IsAppended
    <3>2. g + 1 \in Nat /\ g <= g + 1
      OBVIOUS
    <3> QED
      BY <2>3, <3>1, <3>2 DEF Begun
  <2> QED
    BY <1>8, <2>3, <2>4, <2>5 DEF h, h1, h2
<1> QED
  BY <1>7, <1>8

LEMMA HeadsGrow ==
    ASSUME NEW s, IsText(s), NEW m, IsRun(s, m), NEW n \in Nat, OfLength(s, n),
           NEW a \in 0..n, NEW b \in a..n
    PROVE  Begun(m[a].heads, m[b].heads)
<1> DEFINE S == {k \in Nat : a + k <= n => Begun(m[a].heads, m[a + k].heads)}
<1>1. 0 \in S
  <2>1. SoundAt(s, m[a], a)
    <3>1. a \in 0..Len(s)
      BY DEF OfLength
    <3> QED
      BY <3>1, RunSound
  <2>2. m[a].heads \in Seq(HeadSet)
    BY <2>1 DEF SoundAt, Reduced
  <2>3. PICK g \in Nat : OfLength(m[a].heads, g)
    BY <2>2 DEF OfLength
  <2>4. Begun(m[a].heads, m[a].heads) /\ a + 0 = a
    BY <2>3, BegunRefl
  <2> QED
    BY <2>4
<1>2. ASSUME NEW k \in Nat, k \in S PROVE k + 1 \in S
  <2> SUFFICES ASSUME a + (k + 1) <= n PROVE Begun(m[a].heads, m[a + (k + 1)].heads)
    OBVIOUS
  <2> DEFINE j == a + k
  <2>1. j \in 0..(n - 1) /\ j + 1 = a + (k + 1) /\ Begun(m[a].heads, m[j].heads)
    BY <1>2
  <2> HIDE DEF j, S
  <2>2. Begun(m[j].heads, m[j + 1].heads)
    BY <2>1, BegunStep
  <2>3. Begun(m[a].heads, m[j + 1].heads)
    BY <2>1, <2>2, BegunTrans
  <2> QED
    BY <2>1, <2>3
<1>3. Nat \subseteq S
  <2> HIDE DEF S
  <2> QED
    BY <1>1, <1>2, NatSetInduction
<1>4. b - a \in S /\ a + (b - a) = b
  <2>1. b - a \in Nat /\ a + (b - a) = b
    OBVIOUS
  <2> HIDE DEF S
  <2> QED
    BY <1>3, <2>1
<1> QED
  BY <1>4

\* The line at j made heading number k.
MadeAt(s, m, k, h, j) ==
    /\ StartsLine(s, j)
    /\ Heads(s, j, m[j])
    /\ OfLength(m[j].heads, k - 1)
    /\ h = HeadAt(s, j, m[j])

LEMMA HeadMade ==
    ASSUME NEW s, IsText(s), NEW m, IsRun(s, m), NEW n \in Nat, OfLength(s, n),
           NEW b \in 0..n, NEW q \in Nat, OfLength(m[b].heads, q), NEW k \in 1..q
    PROVE  \E j \in 0..(b - 1) : MadeAt(s, m, k, m[b].heads[k], j)
<1> DEFINE Good(i) == \A g \in Nat : OfLength(m[i].heads, g) =>
                        \A l \in 1..g : \E j \in 0..(i - 1) : MadeAt(s, m, l, m[i].heads[l], j)
           S == {i \in Nat : i <= n => Good(i)}
<1>1. 0 \in S
  <2>1. m[0] = Start
    BY DEF IsRun
  <2>2. \A g \in Nat : OfLength(m[0].heads, g) => g = 0
    BY <2>1 DEF OfLength, Start
  <2>3. Good(0)
    BY <2>2
  <2> HIDE DEF Good
  <2> QED
    BY <2>3
<1>2. ASSUME NEW i \in Nat, i \in S PROVE i + 1 \in S
  <2> SUFFICES ASSUME i + 1 <= n PROVE Good(i + 1)
    OBVIOUS
  <2>1. Good(i) /\ i \in 0..(n - 1)
    BY <1>2
  <2> HIDE DEF S
  <2>2. SUFFICES ASSUME NEW g \in Nat, OfLength(m[i + 1].heads, g), NEW l \in 1..g
                 PROVE  \E j \in 0..((i + 1) - 1) : MadeAt(s, m, l, m[i + 1].heads[l], j)
    OBVIOUS
  <2>3. \A j \in 0..(i - 1) : j \in 0..((i + 1) - 1)
    OBVIOUS
  <2>4. i \in 0..((i + 1) - 1)
    OBVIOUS
  <2>5. CASE ~(StartsLine(s, i) /\ Heads(s, i, m[i]))
    <3>1. m[i + 1].heads = m[i].heads
      BY <2>1, <2>5, BegunStep
    <3>2. PICK j \in 0..(i - 1) : MadeAt(s, m, l, m[i].heads[l], j)
      BY <2>1, <2>2, <3>1
    <3> QED
      BY <2>3, <3>1, <3>2
  <2>6. CASE StartsLine(s, i) /\ Heads(s, i, m[i])
    <3>1. PICK f \in Nat : OfLength(m[i].heads, f)
                           /\ IsAppended(m[i + 1].heads, m[i].heads, f, HeadAt(s, i, m[i]))
      BY <2>1, <2>6, BegunStep
    <3>2. g = f + 1
      BY <2>2, <3>1 DEF IsAppended, OfLength
    <3>3. CASE l \in 1..f
      <4>1. m[i + 1].heads[l] = m[i].heads[l]
        BY <3>1, <3>3 DEF IsAppended
      <4>2. PICK j \in 0..(i - 1) : MadeAt(s, m, l, m[i].heads[l], j)
        BY <2>1, <3>1, <3>3
      <4> QED
        BY <2>3, <4>1, <4>2
    <3>4. CASE l = f + 1
      <4>1. m[i + 1].heads[l] = HeadAt(s, i, m[i]) /\ l - 1 = f
        BY <3>1, <3>4 DEF IsAppended
      <4>2. MadeAt(s, m, l, m[i + 1].heads[l], i)
        BY <2>6, <3>1, <4>1 DEF MadeAt
      <4> QED
        BY <2>4, <4>2
    <3>5. l \in 1..f \/ l = f + 1
      BY <3>2
    <3> QED
      BY <3>3, <3>4, <3>5, Zenon
  <2> QED
    BY <2>5, <2>6
<1>3. Nat \subseteq S
  <2> HIDE DEF S
  <2> QED
    BY <1>1, <1>2, NatSetInduction
<1>4. Good(b)
  <2>1. b \in Nat /\ b <= n
    OBVIOUS
  <2> HIDE DEF Good
  <2>2. b \in S
    <3> HIDE DEF S
    <3> QED
      BY <1>3, <2>1
  <2> QED
    BY <2>1, <2>2
<1> QED
  BY <1>4

\* The paragraph that is open was opened at f, and no heading was found since.
BornAt(s, m, p, f) ==
    /\ f < p
    /\ StartsLine(s, f)
    /\ m[f + 1].open = "paragraph"
    /\ m[f + 1].from = f
    /\ m[p].heads = m[f].heads

LEMMA FromBorn ==
    ASSUME NEW s, IsText(s), NEW m, IsRun(s, m), NEW n \in Nat, OfLength(s, n),
           NEW p \in 0..n, m[p].open = "paragraph"
    PROVE  m[p].from \in Nat /\ BornAt(s, m, p, m[p].from)
<1> DEFINE Good(i) == m[i].open = "paragraph" => m[i].from \in Nat /\ BornAt(s, m, i, m[i].from)
           S == {i \in Nat : i <= n => Good(i)}
<1>1. 0 \in S
  <2>1. m[0] = Start
    BY DEF IsRun
  <2>2. Good(0)
    BY <2>1 DEF Start
  <2> HIDE DEF Good
  <2> QED
    BY <2>2
<1>2. ASSUME NEW i \in Nat, i \in S PROVE i + 1 \in S
  <2> SUFFICES ASSUME i + 1 <= n PROVE Good(i + 1)
    OBVIOUS
  <2>1. Good(i) /\ i \in 0..(n - 1)
    BY <1>2
  <2> HIDE DEF S
  <2>2. SUFFICES ASSUME m[i + 1].open = "paragraph"
                 PROVE  m[i + 1].from \in Nat /\ BornAt(s, m, i + 1, m[i + 1].from)
    OBVIOUS
  <2>3. i \in 0..(Len(s) - 1)
    BY <2>1 DEF OfLength
  <2>4. m[i + 1] = (IF StartsLine(s, i) THEN Read(s, i, m[i]) ELSE m[i])
    BY <2>3, RunStep
  <2>5. CASE ~StartsLine(s, i)
    <3>1. m[i + 1] = m[i]
      BY <2>4, <2>5
    <3>2. m[i].from \in Nat /\ BornAt(s, m, i, m[i].from)
      BY <2>1, <2>2, <3>1
    <3> DEFINE f == m[i].from
    <3>3. f \in Nat /\ f < i + 1 /\ m[i + 1].from = f /\ m[i + 1].heads = m[i].heads
      BY <3>1, <3>2 DEF BornAt
    <3> QED
      BY <3>2, <3>3 DEF BornAt
  <2>6. CASE StartsLine(s, i)
    <3>1. m[i + 1] = Read(s, i, m[i])
      BY <2>4, <2>6
    <3>2. Then(s, i, m[i]) = "paragraph" /\ m[i + 1].from = IF m[i].open = "paragraph" THEN m[i].from ELSE i
      BY <2>2, <3>1 DEF Read
    <3>3. ~Heads(s, i, m[i])
      <4>1. "none" # "paragraph"
        OBVIOUS
      <4> QED
        BY <3>2, <4>1, HeadingLines
    <3>4. m[i + 1].heads = m[i].heads
      BY <2>1, <3>3, BegunStep
    <3>5. CASE m[i].open = "paragraph"
      <4>2. m[i].from \in Nat /\ BornAt(s, m, i, m[i].from)
        BY <2>1, <3>5
      <4>3. m[i + 1].from = m[i].from
        BY <3>2, <3>5
      <4> DEFINE f == m[i].from
      <4>4. f < i + 1 /\ f \in Nat
        BY <4>2 DEF BornAt
      <4> QED
        BY <3>4, <4>2, <4>3, <4>4 DEF BornAt
    <3>6. CASE m[i].open # "paragraph"
      <4>1. m[i + 1].from = i /\ i < i + 1
        BY <3>2, <3>6
      <4> QED
        BY <2>2, <2>6, <3>4, <4>1 DEF BornAt
    <3> QED
      BY <3>5, <3>6
  <2> QED
    BY <2>5, <2>6
<1>3. Nat \subseteq S
  <2> HIDE DEF S
  <2> QED
    BY <1>1, <1>2, NatSetInduction
<1>4. Good(p)
  <2>1. p \in Nat /\ p <= n
    OBVIOUS
  <2> HIDE DEF Good
  <2>2. p \in S
    <3> HIDE DEF S
    <3> QED
      BY <1>3, <2>1
  <2> QED
    BY <2>1, <2>2
<1> QED
  BY <1>4

-----------------------------------------------------------------------------
(***************************************************************************)
(* Where a heading begins all those before it have been found; where it    *)
(* ends it has been found too and nothing is open.                         *)
(***************************************************************************)
LEMMA AfterHead ==
    ASSUME NEW s, IsText(s), NEW m, IsRun(s, m), NEW n \in Nat, OfLength(s, n),
           NEW j \in 0..(n - 1), NEW k \in Nat, k # 0, NEW h, MadeAt(s, m, k, h, j)
    PROVE  /\ h.end = LineEnd(s, j)
           /\ h.end \in (j + 1)..n
           /\ h.end = n \/ s[h.end + 1] = "nl"
           /\ ~StartsLine(s, h.end)
           /\ m[h.end].open = "none"
           /\ OfLength(m[h.end].heads, k)
           /\ m[h.end].heads[k] = h
           /\ m[j + 1].heads = m[h.end].heads
<1>1. Len(s) = n /\ j \in 0..(Len(s) - 1) /\ j \in 0..Len(s)
  BY DEF OfLength
<1>2. /\ StartsLine(s, j) /\ Heads(s, j, m[j]) /\ OfLength(m[j].heads, k - 1)
      /\ h = HeadAt(s, j, m[j])
  BY DEF MadeAt
<1>3. SoundAt(s, m[j], j)
  BY <1>1, RunSound
<1>4. LastLine(s, h, j) /\ h \in HeadSet
  BY <1>1, <1>2, <1>3, HeadAtIs
<1> DEFINE e == h.end
<1>5. e = LineEnd(s, j) /\ j < e /\ e \in Nat
  BY <1>4 DEF LastLine, HeadSet
<1>6. /\ LineEnd(s, j) \in j..Len(s)
      /\ LineEnd(s, j) = Len(s) \/ s[LineEnd(s, j) + 1] = "nl"
      /\ \A i \in j..(LineEnd(s, j) - 1) : s[i + 1] # "nl"
  BY <1>1, LineEndIs
<1>7. e \in (j + 1)..n /\ (e = n \/ s[e + 1] = "nl")
  <2>1. e <= n
    BY <1>1, <1>5, <1>6
  <2> QED
    BY <1>1, <1>5, <1>6, <2>1
<1> HIDE DEF e
<1>8. ~StartsLine(s, e)
  <2>1. e - 1 \in j..(e - 1) /\ (e - 1) + 1 = e /\ e # 0
    BY <1>7
  <2>2. s[e] # "nl"
    BY <1>5, <1>6, <2>1
  <2> QED
    BY <2>1, <2>2 DEF StartsLine
<1>9. m[e] = m[j + 1]
  <2>1. e \in (j + 1)..(e + 1) /\ e <= n
    BY <1>7
  <2> QED
    BY <1>5, <2>1, RunIdle
<1>10. m[j + 1] = Read(s, j, m[j])
  BY <1>1, <1>2, RunStep
<1>11. m[j + 1].open = "none"
  <2>1. Then(s, j, m[j]) = "none"
    BY <1>2, HeadingLines
  <2> QED
    BY <1>10, <2>1 DEF Read
<1>12. PICK g \in Nat : OfLength(m[j].heads, g) /\ IsAppended(m[j + 1].heads, m[j].heads, g, h)
  BY <1>2, BegunStep
<1>13. g = k - 1 /\ g + 1 = k
  BY <1>2, <1>12 DEF OfLength
<1>14. OfLength(m[j + 1].heads, k) /\ m[j + 1].heads[k] = h
  BY <1>12, <1>13 DEF IsAppended
<1> QED
  BY <1>5, <1>7, <1>8, <1>9, <1>11, <1>14 DEF e

LEMMA BeforeHead ==
    ASSUME NEW s, IsText(s), NEW m, IsRun(s, m), NEW n \in Nat, OfLength(s, n),
           NEW j \in 0..(n - 1), NEW k \in Nat, k # 0, NEW h, MadeAt(s, m, k, h, j)
    PROVE  /\ h.start \in 0..j
           /\ StartsLine(s, h.start)
           /\ OfLength(m[h.start].heads, k - 1)
           /\ m[h.start].heads = m[j].heads
           /\ h.kind = "atx" => h.start = j /\ m[j].open # "fence" /\ s[j + 1] \in DOMAIN Level
                                /\ h.level = Level[s[j + 1]]
           /\ h.kind = "setext" =>
                 /\ m[j].open = "paragraph" /\ m[j].from = h.start
                 /\ BornAt(s, m, j, h.start)
                 /\ s[j + 1] \in {"=", "-"} /\ Alone(s, j)
                 /\ h.level = Underline[s[j + 1]]
           /\ h.kind \in HeadingKinds
<1>1. Len(s) = n /\ j \in 0..(Len(s) - 1) /\ j \in 0..n
  BY DEF OfLength
<1>2. /\ StartsLine(s, j) /\ Heads(s, j, m[j]) /\ OfLength(m[j].heads, k - 1)
      /\ h = HeadAt(s, j, m[j])
  BY DEF MadeAt
<1> DEFINE f == First(s, j)
           v == m[j]
           o == Alone(s, j)
<1>3. f = s[j + 1]
  BY <1>1, LineIs
<1>4. MakesAtx(v.open, f) \/ MakesSetext(v.open, f, o)
  BY <1>2 DEF Heads, Makes
<1>5. CASE MakesAtx(v.open, f)
  <2>1. h = [kind |-> "atx", level |-> Level[f], start |-> j, end |-> LineEnd(s, j)]
    BY <1>2, <1>5 DEF HeadAt
  <2>2. v.open # "fence" /\ f \in DOMAIN Level
    BY <1>5 DEF MakesAtx
  <2>3. h.kind = "atx" /\ h.start = j /\ h.level = Level[f]
    BY <2>1
  <2> HIDE DEF f, v
  <2>4. m[j].open # "fence" /\ s[j + 1] \in DOMAIN Level /\ h.level = Level[s[j + 1]]
    BY <1>3, <2>2, <2>3 DEF v
  <2> QED
    BY <1>1, <1>2, <2>3, <2>4 DEF HeadingKinds
<1>6. CASE ~MakesAtx(v.open, f)
  <2>1. h = [kind |-> "setext", level |-> Underline[f], start |-> v.from, end |-> LineEnd(s, j)]
    BY <1>2, <1>6 DEF HeadAt
  <2>2. v.open = "paragraph" /\ f \in {"=", "-"} /\ o
    <3>1. MakesSetext(v.open, f, o)
      BY <1>4, <1>6
    <3> HIDE DEF v, f, o
    <3> QED
      BY <3>1, Zenon DEF MakesSetext
  <2>3. h.kind = "setext" /\ h.start = v.from /\ h.level = Underline[f]
    <3> HIDE DEF f, v, o
    <3> QED
      BY <2>1
  <2>4. m[j].from \in Nat /\ BornAt(s, m, j, m[j].from)
    BY <1>1, <2>2, FromBorn
  <2>5. m[j].open = "paragraph" /\ s[j + 1] \in {"=", "-"} /\ Alone(s, j)
        /\ h.level = Underline[s[j + 1]] /\ m[j].from = h.start
    BY <1>3, <2>2, <2>3
  <2> HIDE DEF f, v, o
  <2>6. h.start \in 0..j /\ StartsLine(s, h.start) /\ m[h.start].heads = m[j].heads
    BY <2>4, <2>5 DEF BornAt
  <2> QED
    BY <1>2, <2>3, <2>4, <2>5, <2>6 DEF HeadingKinds
<1> QED
  BY <1>5, <1>6

(***************************************************************************)
(* The sections of a document are the headings of a run.                   *)
(***************************************************************************)
IsHead(d, k, h) ==
    /\ d.sections[k].level = h.level
    /\ d.sections[k].kind = h.kind
    /\ d.sections[k].heading = [start |-> h.start, end |-> h.end]
    /\ h \in HeadSet

HasRun(d, m, z, n) ==
    /\ IsText(d.source) /\ IsRun(d.source, m)
    /\ OfLength(d.source, z)
    /\ Counted(d, n)
    /\ OfLength(m[z].heads, n)
    /\ \A k \in 1..n : IsHead(d, k, m[z].heads[k])

LEMMA DocRun ==
    ASSUME NEW s, IsText(s), NEW d, d = Doc(s)
    PROVE  \E m : \E z, n \in Nat : HasRun(d, m, z, n) /\ d.source = s
<1>1. PICK m : IsRun(s, m) /\ Headings(Blocks(s)) = m[Len(s)].heads
  BY RunExists
<1>2. PICK z \in Nat : z = Len(s)
  BY TextIs
<1>3. HeadsOf(s) = m[z].heads
  BY <1>1, <1>2 DEF HeadsOf
<1>4. HeadsOf(s) \in Seq(HeadSet)
  BY HeadsAre
<1>5. PICK n \in Nat : n = Len(HeadsOf(s)) /\ \A k \in 1..n : HeadsOf(s)[k] \in HeadSet
  <2> DEFINE H == HeadsOf(s)
             V == HeadSet
  <2>1. H \in Seq(V)
    BY <1>4
  <2> HIDE DEF H, V
  <2>2. Len(H) \in Nat /\ \A k \in 1..Len(H) : H[k] \in V
    BY <2>1
  <2> QED
    BY <2>2 DEF H, V
<1>6. /\ d.source = s /\ Len(d.sections) = n
      /\ \A k \in 1..n : IsSection(s, HeadsOf(s), k, d.sections[k])
  BY <1>5, DocIs
<1>7. ASSUME NEW k \in 1..n PROVE IsHead(d, k, m[z].heads[k])
  BY <1>3, <1>5, <1>6 DEF IsHead, IsSection
<1>8. HasRun(d, m, z, n)
  BY <1>1, <1>2, <1>3, <1>5, <1>6, <1>7 DEF HasRun, Counted, OfLength
<1> QED
  BY <1>6, <1>8

(***************************************************************************)
(* Two texts that end alike: behind a place where nothing is open in       *)
(* either they have the same headings, x further on in the second.         *)
(***************************************************************************)
LEMMA SyncAfter ==
    ASSUME NEW s, IsText(s), NEW u, IsText(u), NEW m, IsRun(s, m), NEW w, IsRun(u, w),
           NEW n \in Nat, OfLength(s, n), NEW z \in Nat, OfLength(u, z),
           NEW a \in 0..n, NEW x \in Int, 0 <= a + x, z = n + x,
           SameText(s, u, a, n, x),
           a = n \/ s[a + 1] = "nl", ~StartsLine(s, a), ~StartsLine(u, a + x),
           m[a].open = "none", w[a + x].open = "none",
           NEW q \in Nat, OfLength(m[a].heads, q), NEW p \in Nat, OfLength(w[a + x].heads, p)
    PROVE  \E c \in Nat : Alike(m[n], w[z], x, q, p, c)
<1>1. CASE a = n
  <2>1. Alike(m[a], w[a + x], x, q, p, 0)
    BY DEF Alike
  <2> QED
    BY <1>1, <2>1
<1>2. CASE a # n
  <2> DEFINE b == a + 1
             g == a + x
  <2>1. /\ a \in 0..(n - 1) /\ b \in Nat /\ b <= n /\ g \in 0..(z - 1) /\ b + x = g + 1
        /\ 0 <= b + x /\ n + x <= z /\ n <= n /\ n \in b..n
    BY <1>2
  <2> HIDE DEF b, g
  <2>2. m[b] = m[a] /\ w[b + x] = w[g]
    <3>1. a \in 0..(Len(s) - 1) /\ g \in 0..(Len(u) - 1)
      BY <2>1 DEF OfLength
    <3>2. m[a + 1] = m[a]
      BY <3>1, RunStep
    <3>3. ~StartsLine(u, g)
      BY DEF g
    <3>4. w[g + 1] = w[g]
      BY <3>1, <3>3, RunStep
    <3> QED
      BY <2>1, <3>2, <3>4 DEF b
  <2>3. SameState(m[b], w[b + x], x)
    BY <2>2 DEF SameState, g
  <2>4. OfLength(m[b].heads, q) /\ OfLength(w[b + x].heads, p)
    BY <2>2 DEF g
  <2>5. s[b] = "nl"
    BY <1>2 DEF b
  <2>6. SameText(s, u, b, n, x)
    <3>1. \A j \in (b + 1)..n : j \in (a + 1)..n
      BY DEF b
    <3> QED
      BY <3>1 DEF SameText
  <2>7. StartsLine(s, b) /\ StartsLine(u, b + x)
    <3>1. b \in (a + 1)..n
      BY <2>1 DEF b
    <3>2. u[b + x] = s[b]
      BY <3>1 DEF SameText
    <3> QED
      BY <2>5, <3>2 DEF StartsLine
  <2>8. EndsThere(s, n) /\ EndsThere(u, n + x)
    BY DEF EndsThere, OfLength
  <2>9. Aligned(s, u, b, n, x)
    BY <2>1, <2>6, <2>7, <2>8, AlignedIs
  <2>10. \E c \in Nat : Alike(m[n], w[n + x], x, q, p, c)
    BY <2>1, <2>3, <2>4, <2>6, <2>9, SimRun
  <2> QED
    BY <2>10
<1> QED
  BY <1>1, <1>2

(***************************************************************************)
(* Two texts that begin alike, up to the start of a line.                  *)
(***************************************************************************)
LEMMA SameBefore ==
    ASSUME NEW s, IsText(s), NEW u, IsText(u), NEW m, IsRun(s, m), NEW w, IsRun(u, w),
           NEW n \in Nat, OfLength(s, n), NEW z \in Nat, OfLength(u, z),
           NEW a \in 0..n, a <= z, \A j \in 1..a : u[j] = s[j], StartsLine(s, a)
    PROVE  /\ w[a].open = m[a].open
           /\ w[a].open = "paragraph" => w[a].from = m[a].from
           /\ \E c \in Nat : /\ OfLength(m[a].heads, c) /\ OfLength(w[a].heads, c)
                             /\ \A k \in 1..c : w[a].heads[k] = HeadMoved(m[a].heads[k], 0)
           /\ StartsLine(u, a)
<1> DEFINE o == 0
<1>1. o \in Nat /\ o \in Int /\ o <= a /\ a <= n /\ 0 <= o + o /\ a + o <= z /\ a \in o..a /\ a \in Nat
      /\ a + o = a /\ o + o = o
  OBVIOUS
<1>2. SameText(s, u, o, a, o)
  BY DEF SameText
<1>3. StartsLine(s, o) /\ StartsLine(u, o + o)
  BY DEF StartsLine
<1>4. StartsLine(u, a)
  BY DEF StartsLine
<1>5. m[o] = Start /\ w[o] = Start
  BY DEF IsRun
<1>6. OfLength(m[o].heads, o) /\ OfLength(w[o + o].heads, o) /\ SameState(m[o], w[o + o], o)
  BY <1>5 DEF Start, SameState, OfLength
<1>7. CASE a # o
  <2>1. s[a] = "nl"
    BY <1>7 DEF StartsLine
  <2> HIDE DEF o
  <2>2. Aligned(s, u, o, a, o)
    BY <1>1, <1>2, <1>3, <2>1, AlignedIs
  <2>3. SameState(m[a], w[a + o], o) /\ \E c \in Nat : Alike(m[a], w[a + o], o, o, o, c)
    BY <1>1, <1>2, <1>6, <2>2, SimRun
  <2>4. PICK c \in Nat : Alike(m[a], w[a + o], o, o, o, c)
    BY <2>3
  <2>5. w[a + o] = w[a] /\ o + c = c /\ \A k \in 1..c : o + k = k
    BY <1>1 DEF o
  <2>6. /\ OfLength(m[a].heads, c) /\ OfLength(w[a].heads, c)
        /\ \A k \in 1..c : w[a].heads[k] = HeadMoved(m[a].heads[k], o)
    BY <2>4, <2>5 DEF Alike
  <2>7. SameState(m[a], w[a], o)
    BY <2>3, <2>5
  <2>8. w[a].open = m[a].open /\ (w[a].open = "paragraph" => w[a].from = m[a].from)
    <3>1. w[a].open = m[a].open /\ (m[a].open = "paragraph" => w[a].from = m[a].from + o)
      BY <2>7 DEF SameState
    <3>2. m[a].open = "paragraph" => m[a].from \in Nat
      <4>1. a \in 0..n
        OBVIOUS
      <4> QED
        BY <4>1, FromBorn
    <3> QED
      BY <3>1, <3>2 DEF o
  <2> QED
    BY <1>4, <2>6, <2>8 DEF o
<1>8. CASE a = o
  <2>1. w[a] = Start /\ m[a] = Start
    BY <1>5, <1>8
  <2> HIDE DEF o
  <2>2. OfLength(m[a].heads, o) /\ OfLength(w[a].heads, o)
        /\ \A k \in 1..o : w[a].heads[k] = HeadMoved(m[a].heads[k], 0)
    BY <2>1 DEF Start, OfLength, o
  <2> QED
    BY <1>1, <1>4, <2>1, <2>2
<1> QED
  BY <1>7, <1>8

-----------------------------------------------------------------------------
(***************************************************************************)
(* If every heading but one is where it was, x further on behind that one, *)
(* which begins where it did and ends x further on, then the preamble, the *)
(* other entries of the outline and the body of that section are as they   *)
(* were.                                                                   *)
(***************************************************************************)
\* The heading from a to b is rewritten and becomes x longer.
Rewritten(d, e, i, n, w, x, a, b) ==
    /\ Counted(d, n) /\ Counted(e, n) /\ i \in 1..n
    /\ Long(d, w) /\ Long(e, w + x)
    /\ a = d.sections[i].heading.start /\ b = d.sections[i].heading.end
    /\ \A j \in 1..a : e.source[j] = d.source[j]
    /\ \A j \in (b + 1)..w : e.source[j + x] = d.source[j]
    /\ \A k \in 1..n : k < i => Synced(d, k, e, k, 0)
    /\ \A k \in 1..n : k > i => Synced(d, k, e, k, x)
    /\ e.sections[i].heading.start = a /\ e.sections[i].heading.end = b + x

LEMMA RewrittenStarts ==
    ASSUME NEW d, NEW e, IsDocument(d), IsDocument(e), NEW n \in Nat, NEW i, NEW w \in Nat,
           NEW x \in Int, NEW a, NEW b, Rewritten(d, e, i, n, w, x, a, b),
           NEW k \in 1..(n + 1)
    PROVE  /\ k <= i => StartOf(e, k) = StartOf(d, k)
           /\ k > i => StartOf(e, k) = StartOf(d, k) + x
<1>1. i \in 1..n
  BY DEF Rewritten
<1>2. CASE k \in 1..n
  <2>1. k \in 1..Len(d.sections) /\ k \in 1..Len(e.sections)
    BY <1>2 DEF Rewritten, Counted
  <2>2. StartOf(d, k) = d.sections[k].heading.start
        /\ StartOf(e, k) = e.sections[k].heading.start
        /\ d.sections[k].heading.start \in Nat
    BY <2>1, PartsLie
  <2>3. CASE k < i
    <3>1. Synced(d, k, e, k, 0)
      BY <1>2, <2>3 DEF Rewritten
    <3>2. e.sections[k].heading.start = d.sections[k].heading.start + 0
      BY <3>1 DEF Synced
    <3> QED
      BY <1>1, <2>2, <2>3, <3>2
  <2>4. CASE k > i
    <3>1. Synced(d, k, e, k, x)
      BY <1>2, <2>4 DEF Rewritten
    <3>2. e.sections[k].heading.start = d.sections[k].heading.start + x
      BY <3>1 DEF Synced
    <3> QED
      BY <1>1, <2>2, <2>4, <3>2
  <2>5. CASE k = i
    <3>1. e.sections[k].heading.start = d.sections[k].heading.start
      BY <2>5 DEF Rewritten
    <3> QED
      BY <1>1, <2>2, <2>5, <3>1
  <2>6. k < i \/ k > i \/ k = i
    BY <1>1
  <2> QED
    BY <2>3, <2>4, <2>5, <2>6
<1>3. CASE k = n + 1
  <2>1. StartOf(d, Len(d.sections) + 1) = Len(d.source)
        /\ StartOf(e, Len(e.sections) + 1) = Len(e.source)
    BY StartsIn
  <2>2. Len(d.sections) = n /\ Len(e.sections) = n /\ Len(d.source) = w /\ Len(e.source) = w + x
    BY DEF Rewritten, Counted, Long
  <2>3. StartOf(d, k) = w /\ StartOf(e, k) = w + x
    BY <1>3, <2>1, <2>2
  <2>4. k > i /\ ~(k <= i)
    BY <1>1, <1>3
  <2> QED
    BY <2>3, <2>4
<1>4. k \in 1..n \/ k = n + 1
  OBVIOUS
<1> QED
  BY <1>2, <1>3, <1>4

LEMMA RewrittenLater ==
    ASSUME NEW d, NEW e, IsDocument(d), IsDocument(e), NEW n \in Nat, NEW i, NEW w \in Nat,
           NEW x \in Int, NEW a, NEW b, Rewritten(d, e, i, n, w, x, a, b),
           NEW k \in 1..(n + 1), k > i
    PROVE  StartOf(e, k) = StartOf(d, k) + x
BY RewrittenStarts

LEMMA RewrittenEntry ==
    ASSUME NEW d, NEW e, IsDocument(d), IsDocument(e), NEW n \in Nat, NEW i, NEW w \in Nat,
           NEW x \in Int, NEW a, NEW b, Rewritten(d, e, i, n, w, x, a, b),
           NEW k \in 1..n, k # i
    PROVE  Entry(e, k) = Entry(d, k)
<1>1. /\ i \in 1..n /\ Counted(d, n) /\ Counted(e, n) /\ Long(d, w) /\ Long(e, w + x)
      /\ Len(d.sections) = n /\ Len(d.source) = w
  BY DEF Rewritten, Counted, Long
<1>2. i \in 1..Len(d.sections) /\ k \in 1..Len(d.sections)
  BY <1>1
<1>3. /\ a = StartOf(d, i) /\ a \in Nat /\ b \in Nat /\ b <= StartOf(d, i + 1)
  <2>1. StartOf(d, i) = d.sections[i].heading.start /\ d.sections[i].heading.start \in Nat
        /\ d.sections[i].heading.end \in Nat
    BY <1>2, PartsLie
  <2>2. d.sections[i].heading.end <= StartOf(d, i + 1)
    BY <1>2, HeadingEnds
  <2> QED
    BY <2>1, <2>2 DEF Rewritten
<1>4. k \in 1..(n + 1) /\ k + 1 \in 1..(n + 1) /\ i \in 1..(n + 1) /\ i + 1 \in 1..(n + 1)
  BY <1>1
<1>5. CASE k < i
  <2>1. k + 1 < i \/ k + 1 = i
    BY <1>1, <1>5
  <2>2. StartOf(e, k + 1) = StartOf(d, k + 1)
    <3> DEFINE g == k + 1
    <3>1. g <= i /\ g \in 1..(n + 1)
      BY <1>1, <1>4, <2>1
    <3> HIDE DEF g
    <3>2. StartOf(e, g) = StartOf(d, g)
      BY <3>1, RewrittenStarts
    <3> QED
      BY <3>2 DEF g
  <2>3. StartOf(d, k + 1) \in Nat /\ StartOf(d, k) \in Nat /\ StartOf(d, k + 1) <= a
    BY <1>1, <1>3, <1>4, <2>1, StartsIn
  <2>4. \A j \in (StartOf(d, k) + 1)..StartOf(d, k + 1) : e.source[j + 0] = d.source[j]
    <3> TAKE j \in (StartOf(d, k) + 1)..StartOf(d, k + 1)
    <3>1. j \in 1..a /\ j + 0 = j
      BY <1>3, <2>3
    <3> QED
      BY <3>1 DEF Rewritten
  <2>5. Synced(d, k, e, k, 0) /\ StartOf(e, k + 1) = StartOf(d, k + 1) + 0
    BY <1>5, <2>2, <2>3 DEF Rewritten
  <2>6. Copied(d, k, e, k, 0)
    BY <2>4, <2>5 DEF Copied
  <2> QED
    BY <1>1, <2>6, SameEntry
<1>6. CASE k > i
  <2>1. i + 1 < k \/ i + 1 = k
    BY <1>1, <1>6
  <2>2. StartOf(e, k + 1) = StartOf(d, k + 1) + x
    <3> DEFINE g == k + 1
    <3>1. g > i /\ g \in 1..(n + 1)
      BY <1>1, <1>4, <1>6
    <3> HIDE DEF g
    <3>2. StartOf(e, g) = StartOf(d, g) + x
      BY <3>1, RewrittenLater
    <3> QED
      BY <3>2 DEF g
  <2>3. StartOf(d, k + 1) \in Nat /\ StartOf(d, k) \in Nat /\ b <= StartOf(d, k)
        /\ StartOf(d, k + 1) <= w
    <3>1. StartOf(d, k + 1) \in Nat /\ StartOf(d, k) \in Nat /\ StartOf(d, i + 1) \in Nat
          /\ StartOf(d, i + 1) <= StartOf(d, k) /\ StartOf(d, k + 1) <= w
      BY <1>1, <1>4, <2>1, StartsIn
    <3> QED
      BY <1>3, <3>1
  <2>4. \A j \in (StartOf(d, k) + 1)..StartOf(d, k + 1) : e.source[j + x] = d.source[j]
    <3> TAKE j \in (StartOf(d, k) + 1)..StartOf(d, k + 1)
    <3>1. j \in (b + 1)..w
      BY <1>3, <2>3
    <3> QED
      BY <3>1 DEF Rewritten
  <2>5. Synced(d, k, e, k, x)
    BY <1>6 DEF Rewritten
  <2>6. Copied(d, k, e, k, x)
    BY <2>2, <2>4, <2>5 DEF Copied
  <2> QED
    BY <1>1, <2>6, SameEntry
<1>7. k < i \/ k > i
  BY <1>1
<1> QED
  BY <1>5, <1>6, <1>7

LEMMA RewrittenBody ==
    ASSUME NEW d, NEW e, IsDocument(d), IsDocument(e), NEW n \in Nat, NEW i, NEW w \in Nat,
           NEW x \in Int, NEW a, NEW b, Rewritten(d, e, i, n, w, x, a, b)
    PROVE  Entry(e, i).body = Entry(d, i).body
<1>1. /\ i \in 1..n /\ Len(d.sections) = n /\ Len(d.source) = w
      /\ Len(e.sections) = n /\ Len(e.source) = w + x
  BY DEF Rewritten, Counted, Long
<1>2. i \in 1..Len(d.sections) /\ i \in 1..Len(e.sections) /\ i + 1 \in 1..(n + 1) /\ i + 1 > i
  BY <1>1
<1> DEFINE h == d.sections[i].heading.end
           g == e.sections[i].heading.end
           f == d.sections[i].bodyRange.start
           l == d.sections[i].bodyRange.end
           f2 == e.sections[i].bodyRange.start
           l2 == e.sections[i].bodyRange.end
<1>3. /\ f = (IF h = w THEN h ELSE h + 1) /\ f \in Nat /\ l \in Nat /\ f <= l /\ l <= w
      /\ l = StartOf(d, i + 1) /\ h \in Nat
  BY <1>1, <1>2, PartsLie
<1>4. f2 = (IF g = w + x THEN g ELSE g + 1) /\ l2 = StartOf(e, i + 1) /\ f2 \in Nat
      /\ l2 <= w + x
  BY <1>1, <1>2, PartsLie
<1>5. g = b + x /\ h = b
  BY DEF Rewritten
<1>6. StartOf(e, i + 1) = StartOf(d, i + 1) + x
  <2> DEFINE k == i + 1
  <2>1. k > i /\ k \in 1..(n + 1)
    BY <1>2
  <2> HIDE DEF k
  <2>2. StartOf(e, k) = StartOf(d, k) + x
    BY <2>1, RewrittenStarts
  <2> QED
    BY <2>2 DEF k
<1>7. Entry(e, i).body = SubSeq(e.source, f2 + 1, l2) /\ Entry(d, i).body = SubSeq(d.source, f + 1, l)
  BY DEF Entry
<1> HIDE DEF h, g, f, l, f2, l2
<1>8. f2 = f + x /\ l2 = l + x /\ b <= f /\ 0 <= f + x
  BY <1>3, <1>4, <1>5, <1>6
<1>9. \A j \in (f + 1)..l : e.source[j + x] = d.source[j]
  <2> TAKE j \in (f + 1)..l
  <2>1. j \in (b + 1)..w
    BY <1>3, <1>5, <1>8
  <2> QED
    BY <2>1 DEF Rewritten
<1>10. IsText(d.source) /\ IsText(e.source) /\ l <= Len(d.source) /\ l + x <= Len(e.source)
  BY <1>1, <1>3, <1>4, <1>8 DEF IsDocument
<1>11. SubSeq(e.source, f + x + 1, l + x) = SubSeq(d.source, f + 1, l)
  <2> DEFINE s == d.source
             u == e.source
  <2>1. /\ IsText(s) /\ IsText(u) /\ f \in Nat /\ l \in Nat /\ f <= l /\ l <= Len(s)
        /\ 0 <= f + x /\ l + x <= Len(u) /\ \A j \in (f + 1)..l : u[j + x] = s[j]
    BY <1>3, <1>8, <1>9, <1>10
  <2> HIDE DEF s, u
  <2>2. SubSeq(u, f + x + 1, l + x) = SubSeq(s, f + 1, l)
    BY ONLY <2>1, x \in Int, SameBytes
  <2> QED
    BY <2>2 DEF s, u
<1> QED
  BY <1>7, <1>8, <1>11

-----------------------------------------------------------------------------
(***************************************************************************)
(* A heading for a heading: when the texts agree before the one and behind *)
(* the other, all the other headings stay.                                 *)
(***************************************************************************)
\* What a heading of m is is a section of d.
LEMMA SectionIs ==
    ASSUME NEW d, NEW k, NEW h, IsHead(d, k, h)
    PROVE  /\ d.sections[k].level = h.level
           /\ d.sections[k].kind = h.kind
           /\ d.sections[k].heading.start = h.start
           /\ d.sections[k].heading.end = h.end
           /\ h.start \in Nat /\ h.end \in Nat
BY DEF IsHead, HeadSet

LEMMA RunHead ==
    ASSUME NEW d, NEW m, NEW w \in Nat, NEW n \in Nat, HasRun(d, m, w, n), NEW k \in 1..n
    PROVE  /\ d.sections[k].heading.start = m[w].heads[k].start
           /\ d.sections[k].heading.end = m[w].heads[k].end
           /\ d.sections[k].kind = m[w].heads[k].kind
           /\ d.sections[k].level = m[w].heads[k].level
BY SectionIs DEF HasRun

LEMMA HeadsSame ==
    ASSUME NEW d, NEW e, NEW k, NEW h, NEW f, NEW x \in Int, IsHead(d, k, h), IsHead(e, k, f),
           f = HeadMoved(h, x)
    PROVE  Synced(d, k, e, k, x)
<1>1. f.level = h.level /\ f.start = h.start + x /\ f.end = h.end + x
  BY DEF HeadMoved
<1> QED
  BY <1>1, SectionIs DEF Synced

\* Lists of the same headings.
SameHeads(x, y) ==
    \E c \in Nat : /\ OfLength(x, c) /\ OfLength(y, c)
                  /\ \A k \in 1..c : y[k] = HeadMoved(x[k], 0)

LEMMA SameHeadsBefore ==
    ASSUME NEW s, IsText(s), NEW u, IsText(u), NEW m, IsRun(s, m), NEW w, IsRun(u, w),
           NEW n \in Nat, OfLength(s, n), NEW z \in Nat, OfLength(u, z),
           NEW a \in 0..n, a <= z, \A j \in 1..a : u[j] = s[j], StartsLine(s, a)
    PROVE  SameHeads(m[a].heads, w[a].heads)
<1>1. \E c \in Nat : /\ OfLength(m[a].heads, c) /\ OfLength(w[a].heads, c)
                     /\ \A k \in 1..c : w[a].heads[k] = HeadMoved(m[a].heads[k], 0)
  BY SameBefore
<1> QED
  BY <1>1 DEF SameHeads

\* Heading i, now made by the line at j, is [a, b).
NowAt(u, v, i, j, a, b) ==
    \E h : MadeAt(u, v, i, h, j) /\ h.start = a /\ h.end = b

\* A line makes heading i, which is [a, c).
IsNow(u, v, y, i, a, c) == \E r \in 0..(y - 1) : NowAt(u, v, i, r, a, c)

\* The other headings of d are headings of e, at the places they were at or, behind
\* heading i, further behind by x.
Restored(d, e, n, i, a, b, x) ==
    /\ Counted(e, n)
    /\ \A k \in 1..n : k < i => Synced(d, k, e, k, 0)
    /\ \A k \in 1..n : k > i => Synced(d, k, e, k, x)
    /\ e.sections[i].heading.start = a /\ e.sections[i].heading.end = b + x

AgreeTo(d, e, a) == \A q \in 1..a : e.source[q] = d.source[q]

(***************************************************************************)
(* A heading whose content is replaced by t begins and ends where it is    *)
(* expected.                                                               *)
(***************************************************************************)
\* The content [f, g) of heading i.
IsContent(d, i, a, b, f, g) ==
    /\ d.sections[i].kind = "atx" => f = a + 1 /\ g = b
    /\ d.sections[i].kind # "atx" => f = a /\ g = b - 2

\* Heading k of d begins at a.
BeginsAt(d, k, a) == d.sections[k].heading.start = a

\* The heading that starts at the place of heading i is heading i.
LEMMA SameIndex ==
    ASSUME NEW d, NEW m, NEW w \in Nat, NEW n \in Nat, HasRun(d, m, w, n),
           NEW e, NEW v, NEW y \in Nat, NEW g \in Nat, HasRun(e, v, y, g),
           NEW i \in 1..n, NEW k \in 1..g,
           NEW a \in 0..w, BeginsAt(d, i, a), BeginsAt(e, k, a),
           a <= y, \A j \in 1..a : e.source[j] = d.source[j]
    PROVE  k = i
<1> DEFINE s == d.source
           u == e.source
           old == m[w].heads[i]
           new == v[y].heads[k]
<1>1. /\ IsText(s) /\ IsRun(s, m) /\ OfLength(s, w) /\ OfLength(m[w].heads, n)
      /\ IsHead(d, i, old)
  BY DEF HasRun
<1>2. /\ IsText(u) /\ IsRun(u, v) /\ OfLength(u, y) /\ OfLength(v[y].heads, g)
      /\ IsHead(e, k, new)
  BY DEF HasRun
<1>3. \A j \in 1..a : u[j] = s[j]
  OBVIOUS
<1>4. old.start = a /\ new.start = a
  <2>1. d.sections[i].heading.start = m[w].heads[i].start
    BY RunHead
  <2>2. e.sections[k].heading.start = v[y].heads[k].start
    BY RunHead
  <2> QED
    BY <2>1, <2>2 DEF BeginsAt
<1>5. i \in Nat /\ i # 0 /\ w \in 0..w /\ y \in 0..y /\ k \in Nat /\ k # 0
  OBVIOUS
<1>6. PICK l \in 0..(w - 1) : MadeAt(s, m, i, old, l)
  BY <1>1, <1>5, HeadMade
<1>7. PICK j \in 0..(y - 1) : MadeAt(u, v, k, new, j)
  BY <1>2, <1>5, HeadMade
<1> HIDE DEF s, u, old, new
<1>8. StartsLine(s, old.start) /\ OfLength(m[old.start].heads, i - 1)
  BY <1>1, <1>5, <1>6, BeforeHead
<1>9. OfLength(v[new.start].heads, k - 1)
  BY <1>2, <1>5, <1>7, BeforeHead
<1>10. SameHeads(m[a].heads, v[a].heads)
  BY <1>1, <1>2, <1>3, <1>4, <1>8, SameHeadsBefore
<1>11. i - 1 = k - 1
  BY <1>4, <1>8, <1>9, <1>10 DEF SameHeads, OfLength
<1> QED
  BY <1>5, <1>11

-----------------------------------------------------------------------------
\* u is s with t, which is z long, for what lies between f and g.
Swapped(u, s, f, g, t, z, w, x) ==
    /\ OfLength(u, w + x)
    /\ \A q \in 1..f : u[q] = s[q]
    /\ \A q \in 1..z : u[f + q] = t[q]
    /\ \A q \in (g + 1)..w : u[q + x] = s[q]

LEMMA SwappedIs ==
    ASSUME NEW s, NEW u, NEW f, NEW g, NEW t, NEW z, OfLength(t, z), NEW w, OfLength(s, w),
           NEW x, x = z - (g - f), IsCut(u, s, f, g, t)
    PROVE  Swapped(u, s, f, g, t, z, w, x)
BY DEF Swapped, IsCut, OfLength

\* A line of u that ends at e.
LEMMA LineEndAt ==
    ASSUME NEW u, IsText(u), NEW y \in Nat, OfLength(u, y), NEW a \in Nat, NEW e \in Nat,
           a <= e, e <= y, e = y \/ u[e + 1] = "nl", \A j \in a..(e - 1) : u[j + 1] # "nl"
    PROVE  LineEnd(u, a) = e
<1>1. Len(u) = y
  BY DEF OfLength
<1>2. a \in 0..y /\ e \in a..y
  OBVIOUS
<1> QED
  BY <1>1, <1>2, LineEndOnly

\* The bytes of t are of one line.
OneLine(t, z) == \A q \in 1..z : t[q] # "nl"

\* A line of s, which is w long, ends at b.
StopsAt(s, b, w) == b = w \/ s[b + 1] = "nl"

\* The heading h is of a kind and begins at a; it ends at b.
HeadFrom(h, a, kind) == h.start = a /\ h.kind = kind

HeadTo(h, b, kind)   == h.end = b /\ h.kind = kind

LEMMA AtxEnds ==
    ASSUME NEW s, NEW u, IsText(u), NEW v, IsRun(u, v), NEW w \in Nat, NEW x \in Int,
           NEW y \in Nat, y = w + x, NEW a \in Nat, NEW b \in Nat, a < b, b <= w,
           StopsAt(s, b, w), NEW t, NEW z \in Nat, NEW f, f = a + 1, x = z - (b - f),
           Swapped(u, s, f, b, t, z, w, x), OneLine(t, z),
           NEW i \in Nat, i # 0, NEW h, NEW j \in 0..(y - 1), MadeAt(u, v, i, h, j),
           OfLength(u, y), HeadFrom(h, a, "atx")
    PROVE  h.end = b + x
<1>1. OfLength(u, y)
  BY DEF Swapped
<1>9. h.start = a /\ h.kind = "atx"
  BY DEF HeadFrom
<1>2. h.start = j /\ u[j + 1] \in DOMAIN Level
  BY <1>1, <1>9, BeforeHead
<1>3. h.end = LineEnd(u, j)
  BY <1>1, AfterHead
<1>4. j = a /\ u[a + 1] # "nl"
  <2>1. j = a
    BY <1>2, <1>9
  <2>2. u[a + 1] \in DOMAIN Level
    BY <1>2, <2>1
  <2> QED
    BY <2>1, <2>2, TokenAssumption
<1> DEFINE e == b + x
<1>5. e = (a + 1) + z /\ e \in Nat /\ a <= e /\ e <= y
  OBVIOUS
<1>6. e = y \/ u[e + 1] = "nl"
  <2>1. CASE b = w
    BY <2>1
  <2>2. CASE b # w
    <3>1. b + 1 \in (b + 1)..w /\ (b + 1) + x = e + 1
      BY <2>2
    <3>2. u[(b + 1) + x] = s[b + 1]
      BY <3>1 DEF Swapped
    <3>3. s[b + 1] = "nl"
      BY <2>2 DEF StopsAt
    <3> QED
      BY <3>1, <3>2, <3>3
  <2> QED
    BY <2>1, <2>2
<1> HIDE DEF e
<1>7. ASSUME NEW q \in a..(e - 1) PROVE u[q + 1] # "nl"
  <2>1. CASE q = a
    BY <1>4, <2>1
  <2>2. CASE q # a
    <3> DEFINE r == q - a
    <3>1. r \in 1..z /\ (a + 1) + r = q + 1
      BY <1>5, <2>2
    <3> HIDE DEF r
    <3>2. u[(a + 1) + r] = t[r]
      BY <3>1 DEF Swapped
    <3> QED
      BY <3>1, <3>2 DEF OneLine
  <2> QED
    BY <2>1, <2>2
<1>8. LineEnd(u, a) = e
  BY <1>1, <1>5, <1>6, <1>7, LineEndAt
<1> QED
  BY <1>3, <1>4, <1>8 DEF e

\* The underline of a Setext heading is the last line of it.
LEMMA UnderlineLast ==
    ASSUME NEW s, IsText(s), NEW m, IsRun(s, m), NEW n \in Nat, OfLength(s, n),
           NEW j \in 0..(n - 1), NEW k \in Nat, k # 0, NEW h, MadeAt(s, m, k, h, j),
           h.kind = "setext"
    PROVE  h.end = j + 1 /\ s[j + 1] \in {"=", "-"} /\ StartsLine(s, j)
<1>1. s[j + 1] \in {"=", "-"} /\ Alone(s, j)
  BY BeforeHead
<1>2. h.end = LineEnd(s, j)
  <2>1. /\ h.end = LineEnd(s, j)
        /\ h.end \in (j + 1)..n
    BY AfterHead
  <2> QED
    BY <2>1
<1>3. Len(s) = n
  BY DEF OfLength
<1>4. LineAt(s, j).start = j /\ LineAt(s, j).end = LineEnd(s, j)
  BY <1>3, LineIs
<1>5. LineEnd(s, j) = j + 1
  BY <1>1, <1>4 DEF Alone, AloneIn
<1> QED
  BY <1>1, <1>2, <1>5 DEF MadeAt

\* A text line that is a paragraph's first, the rest of it none, and an
\* underline behind it.
LEMMA UnderlinedNow ==
    ASSUME NEW u, IsText(u), NEW v, IsRun(u, v), NEW y \in Nat, OfLength(u, y),
           NEW a \in Nat, NEW r \in Nat, a < r, r < y, StartsLine(u, a),
           LineEnd(u, a) = r - 1, u[r] = "nl", u[r + 1] \in {"=", "-"},
           r + 1 = y \/ u[(r + 1) + 1] = "nl",
           v[a + 1].open = "paragraph", v[a + 1].from = a,
           NEW c \in Nat, OfLength(v[a].heads, c), NEW i \in Nat, c = i - 1
    PROVE  NowAt(u, v, i, r, a, r + 1)
<1>1. Len(u) = y /\ a \in 0..(y - 1) /\ r \in 0..(y - 1) /\ r \in 0..(Len(u) - 1) /\ a \in 0..(Len(u) - 1)
  BY DEF OfLength
<1>2. v[r] = v[a + 1]
  <2>1. r \in (a + 1)..((r - 1) + 1) /\ r <= y
    OBVIOUS
  <2> QED
    BY <1>1, <2>1, RunIdle
<1>3. v[a + 1].heads = v[a].heads
  <2>1. CASE Heads(u, a, v[a])
    <3>1. Then(u, a, v[a]) = "none"
      BY <2>1, HeadingLines
    <3>2. v[a + 1] = Read(u, a, v[a])
      BY <1>1, RunStep
    <3>3. v[a + 1].open = "none"
      BY <3>1, <3>2 DEF Read
    <3> QED
      BY <3>3
  <2>2. CASE ~Heads(u, a, v[a])
    BY <1>1, <2>2, BegunStep
  <2> QED
    BY <2>1, <2>2
<1>4. OfLength(v[r].heads, i - 1) /\ v[r].open = "paragraph" /\ v[r].from = a
  BY <1>2, <1>3
<1>5. StartsLine(u, r)
  BY DEF StartsLine
<1>6. LineEnd(u, r) = r + 1
  <2> DEFINE e == r + 1
  <2>1. e \in Nat /\ r <= e /\ e <= y
    OBVIOUS
  <2>2. e = y \/ u[e + 1] = "nl"
    OBVIOUS
  <2>3. \A q \in r..(e - 1) : u[q + 1] # "nl"
    <3> TAKE q \in r..(e - 1)
    <3>1. q = r
      OBVIOUS
    <3> QED
      BY <3>1
  <2> HIDE DEF e
  <2>4. LineEnd(u, r) = e
    BY <2>1, <2>2, <2>3, LineEndAt
  <2> QED
    BY <2>4 DEF e
<1> DEFINE first == First(u, r)
           alone == Alone(u, r)
<1>7. first = u[r + 1] /\ LineAt(u, r).start = r /\ LineAt(u, r).end = LineEnd(u, r)
  BY <1>1, LineIs
<1>8. alone
  BY <1>6, <1>7 DEF Alone, AloneIn
<1>9. first \in {"=", "-"} /\ first \notin DOMAIN Level
  <2>1. first \in {"=", "-"}
    BY <1>7
  <2> HIDE DEF first
  <2> QED
    BY <2>1, TokenAssumption
<1>10. ~MakesAtx(v[r].open, first) /\ MakesSetext(v[r].open, first, alone)
  <2> HIDE DEF first, alone
  <2>1. ~MakesAtx(v[r].open, first)
    BY <1>9 DEF MakesAtx
  <2>2. MakesSetext(v[r].open, first, alone)
    BY <1>4, <1>8, <1>9, Zenon DEF MakesSetext
  <2> QED
    BY <2>1, <2>2
<1>11. Heads(u, r, v[r])
  BY <1>10, Zenon DEF Heads, Makes
<1>12. HeadAt(u, r, v[r]).start = a /\ HeadAt(u, r, v[r]).end = r + 1
  <2>1. HeadAt(u, r, v[r]) = [kind |-> "setext", level |-> Underline[first],
                              start |-> v[r].from, end |-> LineEnd(u, r)]
    BY <1>10 DEF HeadAt
  <2> HIDE DEF first, alone
  <2> QED
    BY <1>4, <1>6, <2>1
<1> QED
  BY <1>4, <1>5, <1>11, <1>12 DEF NowAt, MadeAt

LEMMA SetextNow ==
    ASSUME NEW s, IsText(s), NEW m, IsRun(s, m), NEW w \in Nat, OfLength(s, w),
           NEW u, IsText(u), NEW v, IsRun(u, v), NEW x \in Int, NEW y \in Nat, y = w + x,
           NEW a \in Nat, NEW b \in Nat, a + 3 <= b, b <= w, StopsAt(s, b, w),
           NEW t, NEW z \in Nat, z # 0, NEW f, f = b - 2, x = z - (f - a),
           Swapped(u, s, a, f, t, z, w, x), OneLine(t, z),
           NEW i \in Nat, i # 0,
           NEW o, NEW l \in 0..(w - 1), MadeAt(s, m, i, o, l), HeadTo(o, b, "setext"),
           NEW h, NEW j \in 0..(y - 1), MadeAt(u, v, i, h, j),
           OfLength(u, y), HeadFrom(h, a, "setext")
    PROVE  IsNow(u, v, y, i, a, b + x)
<1>1. OfLength(u, y)
  BY DEF Swapped
<1>2. o.end = l + 1 /\ s[l + 1] \in {"=", "-"} /\ StartsLine(s, l)
  <2>1. o.kind = "setext"
    BY DEF HeadTo
  <2> QED
    BY <2>1, UnderlineLast
<1>3. l = b - 1 /\ s[b] \in {"=", "-"} /\ s[b - 1] = "nl"
  <2>1. l = b - 1 /\ l + 1 = b /\ l # 0
    BY <1>2 DEF HeadTo
  <2> QED
    BY <1>2, <2>1 DEF StartsLine
<1>4. /\ StartsLine(u, a) /\ OfLength(v[a].heads, i - 1) /\ BornAt(u, v, j, a)
  <2>1. h.start = a /\ h.kind = "setext"
    BY DEF HeadFrom
  <2> QED
    BY <1>1, <2>1, BeforeHead
<1>5. a < j /\ v[a + 1].open = "paragraph" /\ v[a + 1].from = a
  BY <1>4 DEF BornAt
<1> DEFINE r == (b - 1) + x
           e == a + z
           c == i - 1
<1>6. r \in Nat /\ e \in Nat /\ r - 1 = e /\ a < r /\ r < y /\ a <= e /\ e <= y /\ e + 1 = r
      /\ r + 1 = b + x /\ c \in Nat /\ r \in 0..(y - 1)
  OBVIOUS
<1>7. u[r] = "nl" /\ u[r + 1] \in {"=", "-"}
  <2>1. b - 1 \in ((b - 2) + 1)..w /\ b \in ((b - 2) + 1)..w
    OBVIOUS
  <2>2. u[(b - 1) + x] = s[b - 1] /\ u[b + x] = s[b]
    BY <2>1 DEF Swapped
  <2> QED
    BY <1>3, <1>6, <2>2
<1>8. r + 1 = y \/ u[(r + 1) + 1] = "nl"
  <2>1. CASE b = w
    BY <2>1
  <2>2. CASE b # w
    <3>1. b + 1 \in ((b - 2) + 1)..w /\ (b + 1) + x = (r + 1) + 1
      BY <2>2
    <3>2. u[(b + 1) + x] = s[b + 1]
      BY <3>1 DEF Swapped
    <3>3. s[b + 1] = "nl"
      BY <2>2 DEF StopsAt
    <3> QED
      BY <3>1, <3>2, <3>3
  <2> QED
    BY <2>1, <2>2
<1> HIDE DEF r, e, c
<1>9. LineEnd(u, a) = e
  <2>1. ASSUME NEW q \in a..(e - 1) PROVE u[q + 1] # "nl"
    <3> DEFINE g == (q - a) + 1
    <3>1. g \in 1..z /\ a + g = q + 1
      BY DEF e
    <3> HIDE DEF g
    <3>2. u[a + g] = t[g]
      BY <3>1 DEF Swapped
    <3> QED
      BY <3>1, <3>2 DEF OneLine
  <2>2. e = y \/ u[e + 1] = "nl"
    BY <1>6, <1>7
  <2> QED
    BY <1>1, <1>6, <2>1, <2>2, LineEndAt
<1>10. LineEnd(u, a) = r - 1 /\ OfLength(v[a].heads, c) /\ c = i - 1
  BY <1>4, <1>6, <1>9 DEF c
<1>11. NowAt(u, v, i, r, a, r + 1)
  BY <1>1, <1>4, <1>5, <1>6, <1>7, <1>8, <1>10, UnderlinedNow
<1> QED
  BY <1>6, <1>11 DEF IsNow

-----------------------------------------------------------------------------
(***************************************************************************)
(* Appending a definition: lines that are no heading behind the text, none *)
(* of which joins its last line.                                           *)
(***************************************************************************)
IsTail(u, w, z, label) == \A j \in (w + 1)..z : u[j] = "nl" \/ u[j] = label

LEMMA QuietStep ==
    ASSUME NEW u, IsText(u), NEW v, IsRun(u, v), NEW z \in Nat, OfLength(u, z),
           NEW label \in Definitions, NEW j \in 0..(z - 1), u[j + 1] = "nl" \/ u[j + 1] = label
    PROVE  v[j + 1].heads = v[j].heads
<1>1. First(u, j) = u[j + 1]
  <2>1. j \in 0..(Len(u) - 1)
    BY DEF OfLength
  <2> QED
    BY <2>1, LineIs
<1>2. u[j + 1] \notin DOMAIN Level /\ u[j + 1] \notin {"=", "-"}
  BY TokenAssumption
<1>3. ~Heads(u, j, v[j])
  <2> HIDE DEF First
  <2> QED
    BY <1>1, <1>2 DEF Heads, Makes, MakesAtx, MakesSetext
<1> QED
  BY <1>3, BegunStep

LEMMA QuietTail ==
    ASSUME NEW u, IsText(u), NEW v, IsRun(u, v), NEW z \in Nat, OfLength(u, z),
           NEW label \in Definitions, NEW w \in 0..z, IsTail(u, w, z, label)
    PROVE  v[z].heads = v[w].heads
<1> DEFINE S == {k \in Nat : w + k <= z => v[w + k].heads = v[w].heads}
<1>1. 0 \in S
  OBVIOUS
<1>2. ASSUME NEW k \in Nat, k \in S PROVE k + 1 \in S
  <2> SUFFICES ASSUME w + (k + 1) <= z PROVE v[w + (k + 1)].heads = v[w].heads
    OBVIOUS
  <2> DEFINE j == w + k
  <2>1. j \in 0..(z - 1) /\ j + 1 = w + (k + 1) /\ v[j].heads = v[w].heads
        /\ j + 1 \in (w + 1)..z
    BY <1>2
  <2> HIDE DEF j, S
  <2>2. u[j + 1] = "nl" \/ u[j + 1] = label
    BY <2>1 DEF IsTail
  <2>3. v[j + 1].heads = v[j].heads
    BY <2>1, <2>2, QuietStep
  <2> QED
    BY <2>1, <2>3
<1>3. Nat \subseteq S
  <2> HIDE DEF S
  <2> QED
    BY <1>1, <1>2, NatSetInduction
<1> DEFINE k == z - w
<1>4. k \in Nat /\ w + k = z
  OBVIOUS
<1> HIDE DEF k
<1>5. k \in S
  BY <1>3, <1>4
<1> QED
  BY <1>4, <1>5

\* u is s with lines behind it that say nothing, none of which joins its last.
Lengthened(s, u, w, z, label) ==
    /\ OfLength(s, w) /\ OfLength(u, z) /\ w <= z
    /\ \A j \in 1..w : u[j] = s[j]
    /\ IsTail(u, w, z, label)
    /\ w = 0 \/ s[w] = "nl" \/ (w < z /\ u[w + 1] = "nl")

LEMMA LengthenedHeads ==
    ASSUME NEW s, IsText(s), NEW u, IsText(u), NEW m, IsRun(s, m), NEW v, IsRun(u, v),
           NEW w \in Nat, NEW z \in Nat, NEW label \in Definitions,
           Lengthened(s, u, w, z, label)
    PROVE  SameHeads(m[w].heads, v[z].heads)
<1> DEFINE o == 0
<1>1. OfLength(s, w) /\ OfLength(u, z) /\ w <= z /\ IsTail(u, w, z, label) /\ w \in 0..z
  BY DEF Lengthened
<1>2. /\ o \in Nat /\ o \in Int /\ o <= w /\ w <= w /\ 0 <= o + o /\ w + o <= z /\ w \in o..w
      /\ w + o = w /\ o + o = o
  BY <1>1
<1>3. SameText(s, u, o, w, o)
  BY DEF SameText, Lengthened
<1>4. m[o] = Start /\ v[o] = Start
  BY DEF IsRun
<1>5. OfLength(m[o].heads, o) /\ OfLength(v[o + o].heads, o) /\ SameState(m[o], v[o + o], o)
  BY <1>4 DEF Start, SameState, OfLength
<1>6. StartsLine(s, o) /\ StartsLine(u, o + o)
  BY DEF StartsLine
<1>7. v[z].heads = v[w].heads
  BY <1>1, QuietTail
<1>8. CASE w # o
  <2>1. s[w] = "nl" \/ (EndsThere(s, w) /\ EndsThere(u, w + o))
    BY <1>1, <1>2, <1>8 DEF Lengthened, EndsThere, OfLength
  <2> HIDE DEF o
  <2>2. Aligned(s, u, o, w, o)
    BY <1>1, <1>2, <1>3, <1>6, <2>1, AlignedIs
  <2>3. \E c \in Nat : Alike(m[w], v[w + o], o, o, o, c)
    BY <1>1, <1>2, <1>3, <1>5, <2>2, SimRun
  <2>4. PICK c \in Nat : Alike(m[w], v[w + o], o, o, o, c)
    BY <2>3
  <2>5. o + c = c /\ \A k \in 1..c : o + k = k
    BY DEF o
  <2>6. /\ OfLength(m[w].heads, c) /\ OfLength(v[w].heads, c)
        /\ \A k \in 1..c : v[w].heads[k] = HeadMoved(m[w].heads[k], o)
    BY <1>2, <2>4, <2>5 DEF Alike
  <2> QED
    BY <1>7, <2>6 DEF SameHeads, o
<1>9. CASE w = o
  <2>1. v[w] = Start /\ m[w] = Start
    BY <1>4, <1>9
  <2>2. OfLength(m[w].heads, o) /\ OfLength(v[w].heads, o)
        /\ \A k \in 1..o : v[w].heads[k] = HeadMoved(m[w].heads[k], 0)
    BY <2>1 DEF Start, OfLength
  <2>3. o \in Nat
    OBVIOUS
  <2> HIDE DEF o
  <2> QED
    BY <1>7, <2>2, <2>3 DEF SameHeads
<1> QED
  BY <1>8, <1>9

-----------------------------------------------------------------------------
LEMMA SlicesJoin ==
    ASSUME NEW s, IsText(s), NEW n \in Nat, OfLength(s, n), NEW a \in Nat, NEW b \in Nat,
           NEW c \in Nat, a <= b, b <= c, c <= n
    PROVE  SubSeq(s, a + 1, b) \o SubSeq(s, b + 1, c) = SubSeq(s, a + 1, c)
<1> DEFINE x == SubSeq(s, a + 1, b)
           y == SubSeq(s, b + 1, c)
           z == SubSeq(s, a + 1, c)
<1>1. PICK V : s \in Seq(V)
  BY DEF IsText
<1>2. b <= n /\ a <= c /\ b - a \in Nat /\ c - b \in Nat /\ c - a \in Nat
      /\ (b - a) + (c - b) = c - a
  OBVIOUS
<1>3. IsSlice(V, x, s, a, b) /\ IsSlice(V, y, s, b, c) /\ IsSlice(V, z, s, a, c)
  <2>1. IsSlice(V, x, s, a, b)
    BY <1>1, <1>2, SliceIs
  <2>2. IsSlice(V, y, s, b, c)
    BY <1>1, <1>2, SliceIs
  <2>3. IsSlice(V, z, s, a, c)
    BY <1>1, <1>2, SliceIs
  <2> QED
    BY <2>1, <2>2, <2>3
<1> HIDE DEF x, y, z
<1>4. x \o y \in Seq(V) /\ IsJoin(x \o y, x, y, b - a, c - b)
  <2>1. x \in Seq(V) /\ OfLength(x, b - a) /\ y \in Seq(V) /\ OfLength(y, c - b)
    BY <1>3 DEF IsSlice
  <2> QED
    BY <1>2, <2>1, TwoParts
<1> DEFINE j == x \o y
<1>5. j \in Seq(V) /\ z \in Seq(V) /\ OfLength(j, c - a) /\ OfLength(z, c - a)
  BY <1>2, <1>3, <1>4 DEF IsJoin, IsSlice
<1>6. ASSUME NEW k \in 1..(c - a) PROVE j[k] = z[k]
  <2>1. z[k] = s[a + k]
    BY <1>3 DEF IsSlice
  <2>2. CASE k \in 1..(b - a)
    BY <1>3, <1>4, <2>1, <2>2 DEF IsJoin, IsSlice
  <2>3. CASE ~(k \in 1..(b - a))
    <3> DEFINE h == k - (b - a)
    <3>1. h \in 1..(c - b) /\ (b - a) + h = k /\ b + h = a + k
      BY <2>3
    <3> HIDE DEF h
    <3>2. j[(b - a) + h] = y[h] /\ y[h] = s[b + h]
      BY <1>3, <1>4, <3>1 DEF IsJoin, IsSlice
    <3> QED
      BY <2>1, <3>1, <3>2
  <2> QED
    BY <2>2, <2>3
<1> HIDE DEF j
<1>7. Len(j) = Len(z) /\ \A k \in 1..Len(j) : j[k] = z[k]
  BY <1>5, <1>6 DEF OfLength
<1>8. j = z
  BY <1>5, <1>7, SameSequences
<1> QED
  BY <1>8 DEF j, x, y, z

LEMMA WholeEntry ==
    ASSUME NEW d, IsDocument(d), NEW n \in Nat, Counted(d, n), NEW w \in Nat, Long(d, w),
           n # 0
    PROVE  Entry(d, n).heading \o Entry(d, n).body = SubSeq(d.source, StartOf(d, n) + 1, w)
<1>1. n \in 1..Len(d.sections) /\ IsText(d.source)
  BY DEF Counted, IsDocument
<1> DEFINE a == d.sections[n].range.start
           b == d.sections[n].bodyRange.start
           c == d.sections[n].bodyRange.end
<1>2. c = w /\ a = StartOf(d, n) /\ a \in Nat /\ b \in Nat /\ a <= b /\ b <= c
  <2>1. StartOf(d, n + 1) = w
    BY DEF Counted, Long, StartOf
  <2>2. StartOf(d, n) = d.sections[n].heading.start
    BY DEF Counted, StartOf
  <2>3. /\ a = d.sections[n].heading.start /\ c = StartOf(d, n + 1)
        /\ a \in Nat /\ b \in Nat /\ b <= c
        /\ d.sections[n].heading.end \in Nat /\ a < d.sections[n].heading.end
        /\ b = d.sections[n].heading.end \/ b = d.sections[n].heading.end + 1
    BY <1>1, PartsLie
  <2> HIDE DEF a, b, c
  <2> QED
    BY <2>1, <2>2, <2>3
<1>3. Entry(d, n).heading = SubSeq(d.source, a + 1, b)
      /\ Entry(d, n).body = SubSeq(d.source, b + 1, c)
  BY DEF Entry
<1> HIDE DEF a, b, c
<1>4. SubSeq(d.source, a + 1, b) \o SubSeq(d.source, b + 1, c) = SubSeq(d.source, a + 1, c)
  <2>1. OfLength(d.source, w) /\ c <= w /\ c \in Nat
    <3>1. OfLength(d.source, w)
      BY DEF Long, OfLength
    <3> QED
      BY <1>2, <3>1
  <2> DEFINE s == d.source
  <2>2. IsText(s) /\ OfLength(s, w)
    BY <1>1, <2>1
  <2> HIDE DEF s
  <2>3. SubSeq(s, a + 1, b) \o SubSeq(s, b + 1, c) = SubSeq(s, a + 1, c)
    <3>1. a \in Nat /\ b \in Nat /\ c \in Nat /\ a <= b /\ b <= c /\ c <= w
      BY <1>2, <2>1
    <3> QED
      BY <2>2, <3>1, SlicesJoin
  <2> QED
    BY <2>3 DEF s
<1> QED
  BY <1>2, <1>3, <1>4

-----------------------------------------------------------------------------
\* A text that grows quietly has the same headings where they were.
LEMMA LengthenedSynced ==
    ASSUME NEW d, NEW m, NEW w \in Nat, NEW n \in Nat, HasRun(d, m, w, n),
           NEW e, NEW v, NEW z \in Nat, NEW g \in Nat, HasRun(e, v, z, g),
           NEW label \in Definitions, Lengthened(d.source, e.source, w, z, label)
    PROVE  g = n /\ \A k \in 1..n : Synced(d, k, e, k, 0)
<1>1. /\ IsText(d.source) /\ IsRun(d.source, m) /\ OfLength(m[w].heads, n)
      /\ \A k \in 1..n : IsHead(d, k, m[w].heads[k])
  BY DEF HasRun
<1>2. /\ IsText(e.source) /\ IsRun(e.source, v) /\ OfLength(v[z].heads, g)
      /\ \A k \in 1..g : IsHead(e, k, v[z].heads[k])
  BY DEF HasRun
<1>3. SameHeads(m[w].heads, v[z].heads)
  <2> DEFINE s == d.source
             u == e.source
  <2>1. IsText(s) /\ IsText(u) /\ IsRun(s, m) /\ IsRun(u, v) /\ Lengthened(s, u, w, z, label)
    BY <1>1, <1>2
  <2> HIDE DEF s, u
  <2> QED
    BY <2>1, LengthenedHeads
<1> DEFINE x == m[w].heads
           y == v[z].heads
<1>4. OfLength(x, n) /\ OfLength(y, g) /\ SameHeads(x, y)
  BY <1>1, <1>2, <1>3
<1>5. /\ \A k \in 1..n : IsHead(d, k, x[k])
      /\ \A k \in 1..g : IsHead(e, k, y[k])
  BY <1>1, <1>2
<1> HIDE DEF x, y
<1>6. g = n /\ \A k \in 1..n : y[k] = HeadMoved(x[k], 0)
  BY <1>4 DEF SameHeads, OfLength
<1>7. ASSUME NEW k \in 1..n PROVE Synced(d, k, e, k, 0)
  <2> DEFINE h == x[k]
             f == y[k]
             o == 0
  <2>1. IsHead(d, k, h) /\ IsHead(e, k, f) /\ f = HeadMoved(h, o) /\ o \in Int
    BY <1>5, <1>6
  <2> HIDE DEF h, f, o
  <2>2. Synced(d, k, e, k, o)
    BY <2>1, HeadsSame
  <2> QED
    BY <2>2 DEF o
<1> QED
  BY <1>6, <1>7

\* e has d's sections, where they were, and d's text, and then more.
Grown(d, e, n, w, z) ==
    /\ Counted(d, n) /\ Counted(e, n) /\ Long(d, w) /\ Long(e, z) /\ w <= z
    /\ \A j \in 1..w : e.source[j] = d.source[j]
    /\ \A k \in 1..n : Synced(d, k, e, k, 0)

LEMMA GrownStarts ==
    ASSUME NEW d, NEW e, IsDocument(d), IsDocument(e), NEW n \in Nat, NEW w \in Nat, NEW z \in Nat,
           Grown(d, e, n, w, z)
    PROVE  /\ \A k \in 1..n : StartOf(e, k) = StartOf(d, k)
           /\ StartOf(d, n + 1) = w /\ StartOf(e, n + 1) = z
           /\ \A k \in 1..n : StartOf(d, k) \in Nat /\ StartOf(d, k) <= w
<1>1. Len(d.sections) = n /\ Len(e.sections) = n /\ Len(d.source) = w /\ Len(e.source) = z
  BY DEF Grown, Counted, Long
<1>2. StartOf(d, n + 1) = w /\ StartOf(e, n + 1) = z
  BY <1>1 DEF StartOf
<1>3. ASSUME NEW k \in 1..n PROVE StartOf(e, k) = StartOf(d, k)
  <2>1. k \in 1..Len(d.sections) /\ k \in 1..Len(e.sections)
    BY <1>1
  <2>2. StartOf(d, k) = d.sections[k].heading.start /\ d.sections[k].heading.start \in Nat
    BY <2>1, PartsLie
  <2>3. StartOf(e, k) = e.sections[k].heading.start
    BY <2>1, PartsLie
  <2>4. e.sections[k].heading.start = d.sections[k].heading.start + 0
    BY DEF Grown, Synced
  <2> QED
    BY <2>2, <2>3, <2>4
<1>4. ASSUME NEW k \in 1..n PROVE StartOf(d, k) \in Nat /\ StartOf(d, k) <= w
  <2>1. k \in 1..(Len(d.sections) + 1)
    BY <1>1
  <2> QED
    BY <1>1, <2>1, StartsIn
<1> QED
  BY <1>2, <1>3, <1>4

\* What stands in front of the last section stands there still.
LEMMA GrownEntry ==
    ASSUME NEW d, NEW e, IsDocument(d), IsDocument(e), NEW n \in Nat, NEW w \in Nat, NEW z \in Nat,
           Grown(d, e, n, w, z), NEW k \in 1..n, k # n
    PROVE  Entry(e, k) = Entry(d, k)
<1>1. k + 1 \in 1..n
  OBVIOUS
<1>2. StartOf(e, k + 1) = StartOf(d, k + 1) /\ StartOf(d, k + 1) \in Nat /\ StartOf(d, k + 1) <= w
      /\ StartOf(d, k) \in Nat
  BY <1>1, GrownStarts
<1>3. /\ Counted(d, n) /\ Counted(e, n)
      /\ \A j \in 1..w : e.source[j] = d.source[j]
      /\ \A q \in 1..n : Synced(d, q, e, q, 0)
  BY DEF Grown
<1> DEFINE o == 0
<1>4. Copied(d, k, e, k, o)
  <2>1. Synced(d, k, e, k, o) /\ StartOf(e, k + 1) = StartOf(d, k + 1) + o
    BY <1>2, <1>3
  <2>2. \A i \in (StartOf(d, k) + 1)..StartOf(d, k + 1) : e.source[i + o] = d.source[i]
    BY <1>2, <1>3
  <2> QED
    BY <2>1, <2>2 DEF Copied
<1>5. o \in Int
  OBVIOUS
<1> HIDE DEF o
<1> QED
  BY <1>3, <1>4, <1>5, SameEntry

-----------------------------------------------------------------------------
\* The runs of two texts that have the same lines between a and b, in u x further.
Twin(s, u, m, v, n, z, a, b, x) ==
    /\ IsText(s) /\ IsText(u) /\ IsRun(s, m) /\ IsRun(u, v)
    /\ n \in Nat /\ OfLength(s, n) /\ z \in Nat /\ OfLength(u, z)
    /\ a \in Nat /\ b \in Nat /\ x \in Int
    /\ a <= b /\ b <= n /\ 0 <= a + x /\ b + x <= z
    /\ SameText(s, u, a, b, x) /\ Aligned(s, u, a, b, x)

SameLine(s, u, j, i) ==
    /\ First(s, j) = s[j + 1]
    /\ First(u, i) = First(s, j)
    /\ Alone(u, i) = Alone(s, j)
    /\ StartsLine(u, i)

LEMMA TwinLine ==
    ASSUME NEW s, NEW u, NEW m, NEW v, NEW n, NEW z, NEW a, NEW b, NEW x,
           Twin(s, u, m, v, n, z, a, b, x), NEW j \in a..(b - 1)
    PROVE  /\ j + x \in 0..(z - 1) /\ j \in 0..(n - 1)
           /\ StartsLine(s, j) => SameLine(s, u, j, j + x)
           /\ m[j + 1] = (IF StartsLine(s, j) THEN Read(s, j, m[j]) ELSE m[j])
           /\ v[(j + x) + 1] = (IF StartsLine(s, j) THEN Read(u, j + x, v[j + x]) ELSE v[j + x])
<1> DEFINE i == j + x
<1>0. /\ IsText(s) /\ IsText(u) /\ IsRun(s, m) /\ IsRun(u, v)
      /\ n \in Nat /\ OfLength(s, n) /\ z \in Nat /\ OfLength(u, z)
      /\ a \in Nat /\ b \in Nat /\ x \in Int
      /\ a <= b /\ b <= n /\ 0 <= a + x /\ b + x <= z
      /\ SameText(s, u, a, b, x) /\ Aligned(s, u, a, b, x)
  BY DEF Twin
<1>1. /\ j \in 0..(n - 1) /\ i \in 0..(z - 1) /\ j \in Nat /\ i \in Nat
      /\ j + 1 \in (a + 1)..b /\ (j + 1) + x = i + 1
  BY <1>0
<1>2. Len(s) = n /\ Len(u) = z
  BY <1>0 DEF OfLength
<1>3. m[j + 1] = (IF StartsLine(s, j) THEN Read(s, j, m[j]) ELSE m[j])
  BY <1>0, <1>1, <1>2, RunStep
<1>4. v[i + 1] = (IF StartsLine(u, i) THEN Read(u, i, v[i]) ELSE v[i])
  <2> HIDE DEF i
  <2> QED
    BY <1>0, <1>1, <1>2, RunStep
<1>5. StartsLine(u, i) <=> StartsLine(s, j)
  BY <1>0 DEF Aligned
<1>6. ASSUME StartsLine(s, j) PROVE SameLine(s, u, j, i)
  <2>1. LineEnd(u, i) = LineEnd(s, j) + x
    BY <1>0, <1>6 DEF Aligned
  <2>2. u[i + 1] = s[j + 1]
    <3>1. u[(j + 1) + x] = s[j + 1]
      BY <1>0, <1>1 DEF SameText
    <3> QED
      BY <1>1, <3>1
  <2> HIDE DEF i
  <2>3. First(s, j) = s[j + 1] /\ LineEnd(s, j) \in j..Len(s)
    BY <1>0, <1>1, <1>2, LineIs
  <2>4. First(u, i) = u[i + 1]
    BY <1>0, <1>1, <1>2, LineIs
  <2>5. LineEnd(s, j) \in Nat
    BY <1>1, <1>2, <2>3, <1>0
  <2> DEFINE e == LineEnd(s, j)
  <2>6. Alone(s, j) = (e = j + 1)
    BY DEF Alone, AloneIn, LineAt
  <2>7. Alone(u, i) = (LineEnd(u, i) = i + 1)
    BY DEF Alone, AloneIn, LineAt
  <2>8. (e + x = i + 1) <=> (e = j + 1)
    <3> HIDE DEF e
    <3>1. e \in Nat /\ i + 1 = (j + 1) + x
      BY <1>1, <2>5 DEF e
    <3> QED
      BY <1>0, <1>1, <3>1
  <2>9. Alone(u, i) = Alone(s, j)
    <3> HIDE DEF e
    <3>1. LineEnd(u, i) = e + x
      BY <2>1 DEF e
    <3> QED
      BY <2>6, <2>7, <2>8, <3>1
  <2> QED
    BY <1>5, <1>6, <2>2, <2>3, <2>4, <2>9 DEF SameLine
<1> HIDE DEF i
<1>7. i = j + x
  BY DEF i
<1> QED
  BY <1>1, <1>3, <1>4, <1>5, <1>6, <1>7

\* A paragraph has been open since the line it began in.
LEMMA ParagraphSince ==
    ASSUME NEW s, IsText(s), NEW m, IsRun(s, m), NEW n \in Nat, OfLength(s, n),
           NEW j \in 0..n, NEW f \in Nat, f < j, m[j].open = "paragraph", m[j].from = f
    PROVE  \A i \in (f + 1)..j : m[i].open = "paragraph" /\ m[i].from = f
<1> DEFINE Good(i) == m[i].open = "paragraph" /\ m[i].from = f
           S == {t \in Nat : t <= j - (f + 1) => Good(j - t)}
<1>1. 0 \in S
  <2>1. j - 0 = j
    OBVIOUS
  <2> QED
    BY <2>1
<1>2. ASSUME NEW t \in Nat, t \in S PROVE t + 1 \in S
  <2> SUFFICES ASSUME t + 1 <= j - (f + 1) PROVE Good(j - (t + 1))
    OBVIOUS
  <2> DEFINE i == j - (t + 1)
  <2>1. t <= j - (f + 1) /\ i \in (f + 1)..(j - 1) /\ i + 1 = j - t /\ i \in 0..(n - 1) /\ f # i
    OBVIOUS
  <2>2. Good(i + 1)
    BY <1>2, <2>1
  <2> HIDE DEF i, S
  <2>3. m[i + 1].open = "paragraph" /\ m[i + 1].from = f
    BY <2>2
  <2>4. m[i + 1] = (IF StartsLine(s, i) THEN Read(s, i, m[i]) ELSE m[i])
    <3>1. i \in 0..(Len(s) - 1)
      BY <2>1 DEF OfLength
    <3> QED
      BY <3>1, RunStep
  <2>5. CASE ~StartsLine(s, i)
    BY <2>3, <2>4, <2>5 DEF i
  <2>6. CASE StartsLine(s, i)
    <3>1. m[i + 1] = Read(s, i, m[i])
      BY <2>4, <2>6
    <3>2. Then(s, i, m[i]) = "paragraph" /\ f = IF m[i].open = "paragraph" THEN m[i].from ELSE i
      BY <2>3, <3>1 DEF Read
    <3>3. m[i].open = "paragraph" /\ m[i].from = f
      BY <2>1, <3>2
    <3> QED
      BY <3>3 DEF i
  <2> QED
    BY <2>5, <2>6
<1>3. Nat \subseteq S
  <2> HIDE DEF S
  <2> QED
    BY <1>1, <1>2, NatSetInduction
<1>4. ASSUME NEW i \in (f + 1)..j PROVE Good(i)
  <2> DEFINE t == j - i
  <2>1. t \in Nat /\ t <= j - (f + 1) /\ j - t = i
    OBVIOUS
  <2> HIDE DEF t
  <2>2. t \in S
    BY <1>3, <2>1
  <2>3. Good(j - t)
    BY <2>1, <2>2
  <2> QED
    BY <2>1, <2>3
<1> QED
  BY <1>4

-----------------------------------------------------------------------------
\* The state t is y: the lines since went on with the block that was open.
IsStill(t, y) ==
    /\ t.open = y.open /\ t.heads = y.heads
    /\ y.open = "paragraph" => t.from = y.from

LEMMA GoesOn ==
    ASSUME NEW k, NEW x, NEW alone \in BOOLEAN, Opens(k, x, alone) = "paragraph",
           k = "paragraph" \/ (k = "none" /\ ~(x = "=" /\ alone)),
           NEW o \in {"paragraph", "item"}
    PROVE  ~Makes(o, x, alone) /\ Opens(o, x, alone) = o
<1>1. ~Ends(k, x, alone) /\ x # "F" /\ x \notin ToSet(Bullets)
  BY DEF Opens
<1>2. x # "nl" /\ x \notin DOMAIN Level /\ ~(x = "-" /\ alone) /\ ~(x = "=" /\ alone)
  <2>1. CASE k = "paragraph"
    BY <1>1, <2>1 DEF Ends
  <2>2. CASE k = "none" /\ ~(x = "=" /\ alone)
    BY <1>1, <2>2 DEF Ends
  <2> QED
    BY <2>1, <2>2
<1>3. ~Ends(o, x, alone)
  BY <1>2 DEF Ends
<1>4. Opens(o, x, alone) = o
  BY <1>1, <1>3 DEF Opens
<1>5. ~Makes(o, x, alone)
  BY <1>2 DEF Makes, MakesAtx, MakesSetext
<1> QED
  BY <1>4, <1>5

LEMMA StayStep ==
    ASSUME NEW s, NEW u, NEW m, NEW v, NEW n, NEW z, NEW a, NEW b, NEW x,
           Twin(s, u, m, v, n, z, a, b, x), NEW j \in a..(b - 1),
           m[j + 1].open = "paragraph",
           m[j].open = "paragraph" \/ (m[j].open = "none" /\ ~(s[j + 1] = "=" /\ Alone(s, j))),
           NEW y, y.open \in {"paragraph", "item"}, IsStill(v[j + x], y)
    PROVE  IsStill(v[(j + x) + 1], y)
<1>1. /\ StartsLine(s, j) => SameLine(s, u, j, j + x)
      /\ m[j + 1] = (IF StartsLine(s, j) THEN Read(s, j, m[j]) ELSE m[j])
      /\ v[(j + x) + 1] = (IF StartsLine(s, j) THEN Read(u, j + x, v[j + x]) ELSE v[j + x])
  BY TwinLine
<1> DEFINE i == j + x
           t == m[j]
           r == v[i]
<1> HIDE DEF i
<1>2. CASE ~StartsLine(s, j)
  BY <1>1, <1>2 DEF i
<1>3. CASE StartsLine(s, j)
  <2>1. m[j + 1] = Read(s, j, t) /\ v[i + 1] = Read(u, i, r)
    BY <1>1, <1>3 DEF i
  <2>2. First(s, j) = s[j + 1] /\ First(u, i) = First(s, j) /\ Alone(u, i) = Alone(s, j)
    BY <1>1, <1>3 DEF SameLine, i
  <2> DEFINE f == First(s, j)
             o == Alone(s, j)
             k == t.open
             q == y.open
  <2>3. o \in BOOLEAN
    BY DEF Alone, AloneIn
  <2>4. Opens(k, f, o) = "paragraph"
    BY <2>1 DEF Read, Then
  <2>5. k = "paragraph" \/ (k = "none" /\ ~(f = "=" /\ o))
    BY <2>2
  <2>6. q \in {"paragraph", "item"}
    OBVIOUS
  <2> HIDE DEF f, o, k, q
  <2>7. ~Makes(q, f, o) /\ Opens(q, f, o) = q
    BY <2>3, <2>4, <2>5, <2>6, GoesOn
  <2>8. r.open = q /\ r.heads = y.heads /\ (q = "paragraph" => r.from = y.from)
    BY DEF IsStill, q, r, i
  <2> HIDE DEF r
  <2>9. ~Heads(u, i, r) /\ Then(u, i, r) = q
    BY <2>2, <2>7, <2>8 DEF Heads, Then, f, o
  <2>10. Read(u, i, r).open = q /\ Read(u, i, r).heads = y.heads
         /\ (q = "paragraph" => Read(u, i, r).from = y.from)
    BY <2>8, <2>9 DEF Read
  <2> QED
    BY <2>1, <2>10 DEF IsStill, i, q
<1> QED
  BY <1>2, <1>3

LEMMA StayRun ==
    ASSUME NEW s, NEW u, NEW m, NEW v, NEW n, NEW z, NEW a, NEW b, NEW x,
           Twin(s, u, m, v, n, z, a, b, x),
           m[a].open = "none", \A i \in (a + 1)..b : m[i].open = "paragraph",
           ~(s[a + 1] = "=" /\ Alone(s, a)),
           NEW y, y = v[a + x], y.open \in {"paragraph", "item"}
    PROVE  IsStill(v[b + x], y)
<1>0. a \in Nat /\ b \in Nat /\ a <= b /\ x \in Int
  BY DEF Twin
<1> DEFINE S == {t \in Nat : a + t <= b => IsStill(v[(a + t) + x], y)}
<1>1. 0 \in S
  <2>1. (a + 0) + x = a + x
    BY <1>0
  <2> QED
    BY <2>1 DEF IsStill
<1>2. ASSUME NEW t \in Nat, t \in S PROVE t + 1 \in S
  <2> SUFFICES ASSUME a + (t + 1) <= b PROVE IsStill(v[(a + (t + 1)) + x], y)
    OBVIOUS
  <2> DEFINE j == a + t
  <2>1. j \in a..(b - 1) /\ (a + (t + 1)) + x = (j + x) + 1 /\ a + t <= b
        /\ j + 1 \in (a + 1)..b /\ (j = a \/ j \in (a + 1)..b)
    BY <1>0
  <2>2. IsStill(v[j + x], y)
    BY <1>2, <2>1
  <2> HIDE DEF j, S
  <2>3. m[j + 1].open = "paragraph"
    BY <2>1
  <2>4. m[j].open = "paragraph" \/ (m[j].open = "none" /\ ~(s[j + 1] = "=" /\ Alone(s, j)))
    BY <2>1
  <2>5. IsStill(v[(j + x) + 1], y)
    BY <2>1, <2>2, <2>3, <2>4, StayStep
  <2> QED
    BY <2>1, <2>5
<1>3. Nat \subseteq S
  <2> HIDE DEF S
  <2> QED
    BY <1>1, <1>2, NatSetInduction
<1> DEFINE t == b - a
<1>4. t \in Nat /\ a + t = b
  BY <1>0
<1> HIDE DEF t
<1>5. t \in S /\ a + t <= b
  BY <1>0, <1>3, <1>4
<1> QED
  BY <1>4, <1>5

-----------------------------------------------------------------------------
\* The run in the state y is where t is, or takes for an item's what t reads afresh.
Lags(t, y) ==
    \/ y.open = t.open
    \/ y.open = "item" /\ t.open \in {"none", "paragraph"}

LEMMA LagsOn ==
    ASSUME NEW k, NEW o, NEW x, NEW alone \in BOOLEAN,
           o = k \/ (o = "item" /\ k \in {"none", "paragraph"}),
           NEW c, c = Opens(k, x, alone), NEW e, e = Opens(o, x, alone)
    PROVE  /\ e = c \/ (e = "item" /\ c \in {"none", "paragraph"})
           /\ Makes(o, x, alone) => Makes(k, x, alone)
<1>1. CASE o = k
  BY <1>1
<1>2. CASE o = "item" /\ k \in {"none", "paragraph"}
  <2>1. Makes(o, x, alone) => Makes(k, x, alone)
    BY <1>2 DEF Makes, MakesAtx, MakesSetext
  <2>2. Ends(o, x, alone) => Ends(k, x, alone)
    BY <1>2 DEF Ends
  <2>3. Ends(k, x, alone) /\ ~Ends(o, x, alone) =>
          x # "F" /\ x \notin ToSet(Bullets)
    BY <1>2, TokenAssumption DEF Ends
  <2>4. e = (IF Ends(o, x, alone) THEN "none" ELSE IF x = "F" THEN "fence" ELSE "item")
    BY <1>2 DEF Opens
  <2>5. c = (IF Ends(k, x, alone) THEN "none" ELSE IF x = "F" THEN "fence"
             ELSE IF x \in ToSet(Bullets) THEN "item" ELSE "paragraph")
    BY <1>2 DEF Opens
  <2>6. x = "F" => x \notin ToSet(Bullets)
    BY TokenAssumption
  <2>7. e = c \/ (e = "item" /\ c \in {"none", "paragraph"})
    BY <2>2, <2>3, <2>4, <2>5, <2>6
  <2> QED
    BY <2>1, <2>7
<1> QED
  BY <1>1, <1>2

\* Since they had q and p headings, the run in the state y made no more than the one in t.
Fewer(t, y, q, p) ==
    \E c, e \in Nat : OfLength(t.heads, q + c) /\ OfLength(y.heads, p + e) /\ e <= c

LEMMA FewerSame ==
    ASSUME NEW t, NEW y, NEW q \in Nat, NEW p \in Nat, OfLength(t.heads, q), OfLength(y.heads, p)
    PROVE  Fewer(t, y, q, p)
<1>1. q + 0 = q /\ p + 0 = p /\ 0 \in Nat /\ 0 <= 0
  OBVIOUS
<1> QED
  BY <1>1 DEF Fewer

\* What one line adds to the headings.
Added(s, j, t, r) ==
    /\ Heads(s, j, t) => \A c \in Nat : OfLength(t.heads, c) => OfLength(r.heads, c + 1)
    /\ ~Heads(s, j, t) => r.heads = t.heads

LEMMA LineAdds ==
    ASSUME NEW s, IsText(s), NEW m, IsRun(s, m), NEW n \in Nat, OfLength(s, n),
           NEW j \in 0..(n - 1), StartsLine(s, j)
    PROVE  Added(s, j, m[j], m[j + 1])
<1>1. ASSUME Heads(s, j, m[j]), NEW c \in Nat, OfLength(m[j].heads, c)
      PROVE  OfLength(m[j + 1].heads, c + 1)
  <2>1. PICK g \in Nat : OfLength(m[j].heads, g)
                         /\ IsAppended(m[j + 1].heads, m[j].heads, g, HeadAt(s, j, m[j]))
    BY <1>1, BegunStep
  <2>2. g = c
    BY <1>1, <2>1 DEF OfLength
  <2> QED
    BY <2>1, <2>2 DEF IsAppended
<1>2. ASSUME ~Heads(s, j, m[j]) PROVE m[j + 1].heads = m[j].heads
  BY <1>2, BegunStep
<1> QED
  BY <1>1, <1>2 DEF Added

LEMMA LagStep ==
    ASSUME NEW s, NEW u, NEW m, NEW v, NEW n, NEW z, NEW a, NEW b, NEW x,
           Twin(s, u, m, v, n, z, a, b, x), NEW j \in a..(b - 1),
           Lags(m[j], v[j + x]),
           NEW q \in Nat, NEW p \in Nat, Fewer(m[j], v[j + x], q, p)
    PROVE  Lags(m[j + 1], v[(j + x) + 1]) /\ Fewer(m[j + 1], v[(j + x) + 1], q, p)
<1>1. /\ j + x \in 0..(z - 1) /\ j \in 0..(n - 1)
      /\ StartsLine(s, j) => SameLine(s, u, j, j + x)
      /\ m[j + 1] = (IF StartsLine(s, j) THEN Read(s, j, m[j]) ELSE m[j])
      /\ v[(j + x) + 1] = (IF StartsLine(s, j) THEN Read(u, j + x, v[j + x]) ELSE v[j + x])
  BY TwinLine
<1>0. /\ IsText(s) /\ IsText(u) /\ IsRun(s, m) /\ IsRun(u, v)
      /\ n \in Nat /\ OfLength(s, n) /\ z \in Nat /\ OfLength(u, z)
  BY DEF Twin
<1> DEFINE i == j + x
           t == m[j]
           r == v[i]
           t2 == m[j + 1]
           r2 == v[i + 1]
<1> HIDE DEF i
<1>2. Lags(t, r) /\ Fewer(t, r, q, p) /\ i \in 0..(z - 1)
  BY <1>1 DEF i
<1>3. CASE ~StartsLine(s, j)
  BY <1>1, <1>3 DEF i
<1>4. CASE StartsLine(s, j)
  <2>1. t2 = Read(s, j, t) /\ r2 = Read(u, i, r) /\ StartsLine(u, i)
        /\ First(u, i) = First(s, j) /\ Alone(u, i) = Alone(s, j)
    BY <1>1, <1>4 DEF SameLine, i
  <2> DEFINE f == First(s, j)
             o == Alone(s, j)
  <2>2. o \in BOOLEAN
    BY DEF Alone, AloneIn
  <2>3. Added(s, j, t, t2)
    BY <1>0, <1>1, <1>4, LineAdds
  <2>4. Added(u, i, r, r2)
    BY <1>0, <1>2, <2>1, LineAdds
  <2> HIDE DEF f, o
  <2>5. r.open = t.open \/ (r.open = "item" /\ t.open \in {"none", "paragraph"})
    BY <1>2 DEF Lags
  <2>6. t2.open = Opens(t.open, f, o) /\ r2.open = Opens(r.open, f, o)
        /\ (Heads(s, j, t) <=> Makes(t.open, f, o)) /\ (Heads(u, i, r) <=> Makes(r.open, f, o))
    BY <2>1 DEF Read, Then, Heads, f, o
  <2> DEFINE k == t.open
             l == r.open
             k2 == t2.open
             l2 == r2.open
  <2>7. l = k \/ (l = "item" /\ k \in {"none", "paragraph"})
    BY <2>5
  <2>8. k2 = Opens(k, f, o) /\ l2 = Opens(l, f, o)
    BY <2>6
  <2>9. Makes(l, f, o) => Makes(k, f, o)
    <3> HIDE DEF k, l, k2, l2
    <3> QED
      BY <2>2, <2>7, <2>8, LagsOn
  <2>10. l2 = k2 \/ (l2 = "item" /\ k2 \in {"none", "paragraph"})
    <3> HIDE DEF k, l, k2, l2
    <3> QED
      BY <2>2, <2>7, <2>8, LagsOn
  <2>11. Lags(t2, r2)
    BY <2>10 DEF Lags
  <2>12. Heads(u, i, r) => Heads(s, j, t)
    BY <2>6, <2>9
  <2>13. Fewer(t2, r2, q, p)
    <3> HIDE DEF t, r, t2, r2
    <3>1. PICK c, e \in Nat : OfLength(t.heads, q + c) /\ OfLength(r.heads, p + e) /\ e <= c
      BY <1>2 DEF Fewer
    <3>2. q + c \in Nat /\ p + e \in Nat /\ (q + c) + 1 = q + (c + 1) /\ (p + e) + 1 = p + (e + 1)
          /\ c + 1 \in Nat /\ e + 1 \in Nat /\ e + 1 <= c + 1 /\ e <= c + 1
      BY <3>1
    <3>3. CASE Heads(s, j, t) /\ Heads(u, i, r)
      <4>1. OfLength(t2.heads, (q + c) + 1) /\ OfLength(r2.heads, (p + e) + 1)
        BY <2>3, <2>4, <3>1, <3>2, <3>3 DEF Added
      <4>2. OfLength(t2.heads, q + (c + 1)) /\ OfLength(r2.heads, p + (e + 1))
        BY <3>2, <4>1
      <4> QED
        BY <3>2, <4>2 DEF Fewer
    <3>4. CASE Heads(s, j, t) /\ ~Heads(u, i, r)
      <4>1. OfLength(t2.heads, (q + c) + 1) /\ r2.heads = r.heads
        BY <2>3, <2>4, <3>1, <3>2, <3>4 DEF Added
      <4>2. OfLength(t2.heads, q + (c + 1)) /\ OfLength(r2.heads, p + e)
        BY <3>1, <3>2, <4>1
      <4> QED
        BY <3>1, <3>2, <4>2 DEF Fewer
    <3>5. CASE ~Heads(s, j, t)
      <4>1. t2.heads = t.heads /\ r2.heads = r.heads
        BY <2>3, <2>4, <2>12, <3>5 DEF Added
      <4>2. OfLength(t2.heads, q + c) /\ OfLength(r2.heads, p + e)
        BY <3>1, <4>1
      <4> QED
        BY <3>1, <4>2 DEF Fewer
    <3> QED
      BY <3>3, <3>4, <3>5
  <2> QED
    BY <2>11, <2>13 DEF i
<1> QED
  BY <1>3, <1>4

LEMMA LagRun ==
    ASSUME NEW s, NEW u, NEW m, NEW v, NEW n, NEW z, NEW a, NEW b, NEW x,
           Twin(s, u, m, v, n, z, a, b, x), Lags(m[a], v[a + x]),
           NEW q \in Nat, OfLength(m[a].heads, q), NEW p \in Nat, OfLength(v[a + x].heads, p)
    PROVE  Fewer(m[b], v[b + x], q, p)
<1>0. a \in Nat /\ b \in Nat /\ a <= b /\ x \in Int
  BY DEF Twin
<1> DEFINE Good(j) == Lags(m[j], v[j + x]) /\ Fewer(m[j], v[j + x], q, p)
           S == {t \in Nat : a + t <= b => Good(a + t)}
<1>1. 0 \in S
  <2>1. Fewer(m[a], v[a + x], q, p)
    <3> DEFINE t == m[a]
               y == v[a + x]
    <3>1. OfLength(t.heads, q) /\ OfLength(y.heads, p)
      OBVIOUS
    <3> HIDE DEF t, y
    <3>2. Fewer(t, y, q, p)
      BY <3>1, FewerSame
    <3> QED
      BY <3>2 DEF t, y
  <2>2. a + 0 = a
    BY <1>0
  <2>3. Good(a + 0)
    BY <2>1, <2>2
  <2> HIDE DEF Good
  <2> QED
    BY <2>3
<1>2. ASSUME NEW t \in Nat, t \in S PROVE t + 1 \in S
  <2> SUFFICES ASSUME a + (t + 1) <= b PROVE Good(a + (t + 1))
    OBVIOUS
  <2> DEFINE j == a + t
  <2>1. j \in a..(b - 1) /\ a + (t + 1) = j + 1 /\ (j + 1) + x = (j + x) + 1 /\ a + t <= b
    BY <1>0
  <2>2. Good(j)
    BY <1>2, <2>1
  <2> HIDE DEF j, S
  <2>3. Lags(m[j + 1], v[(j + x) + 1]) /\ Fewer(m[j + 1], v[(j + x) + 1], q, p)
    BY <2>1, <2>2, LagStep
  <2> QED
    BY <2>1, <2>3
<1>3. Nat \subseteq S
  <2> HIDE DEF S
  <2> QED
    BY <1>1, <1>2, NatSetInduction
<1> DEFINE t == b - a
<1>4. t \in Nat /\ a + t = b
  BY <1>0
<1> HIDE DEF t
<1>5. t \in S /\ a + t <= b
  BY <1>0, <1>3, <1>4
<1>6. Good(b)
  BY <1>4, <1>5
<1> QED
  BY <1>6

-----------------------------------------------------------------------------
\* As Twin, of texts whose lines need not yet be the same.
Parallel(s, u, m, v, n, z, a, b, x) ==
    /\ IsText(s) /\ IsText(u) /\ IsRun(s, m) /\ IsRun(u, v)
    /\ n \in Nat /\ OfLength(s, n) /\ z \in Nat /\ OfLength(u, z)
    /\ a \in Nat /\ b \in Nat /\ x \in Int
    /\ a <= b /\ b <= n /\ 0 <= a + x /\ b + x <= z
    /\ SameText(s, u, a, b, x)

\* Where nothing of a line is left in either text.
SameEnd(s, u, b, x) == s[b] = "nl" \/ (EndsThere(s, b) /\ EndsThere(u, b + x))

LEMMA TwinOf ==
    ASSUME NEW s, NEW u, NEW m, NEW v, NEW n, NEW z, NEW a, NEW b, NEW x,
           Parallel(s, u, m, v, n, z, a, b, x), SameEnd(s, u, b, x),
           StartsLine(s, a), StartsLine(u, a + x)
    PROVE  Twin(s, u, m, v, n, z, a, b, x)
<1>1. /\ IsText(s) /\ IsText(u) /\ a \in Nat /\ b \in Nat /\ x \in Int
      /\ a <= b /\ n \in Nat /\ OfLength(s, n) /\ b <= n
      /\ 0 <= a + x /\ z \in Nat /\ OfLength(u, z) /\ b + x <= z
      /\ SameText(s, u, a, b, x)
      /\ s[b] = "nl" \/ (EndsThere(s, b) /\ EndsThere(u, b + x))
  BY DEF Parallel, SameEnd
<1>2. Aligned(s, u, a, b, x)
  BY <1>1, AlignedIs
<1> QED
  BY <1>2 DEF Parallel, Twin

\* Twins from any point between on.
LEMMA TwinWithin ==
    ASSUME NEW s, NEW u, NEW m, NEW v, NEW n, NEW z, NEW a, NEW b, NEW x,
           Twin(s, u, m, v, n, z, a, b, x), NEW c \in Nat, NEW e \in Nat,
           a <= c, c <= e, e <= b
    PROVE  Twin(s, u, m, v, n, z, c, e, x)
<1>1. /\ a \in Nat /\ b \in Nat /\ x \in Int /\ n \in Nat /\ z \in Nat
      /\ b <= n /\ 0 <= a + x /\ b + x <= z
      /\ SameText(s, u, a, b, x) /\ Aligned(s, u, a, b, x)
  BY DEF Twin
<1>2. e <= n /\ 0 <= c + x /\ e + x <= z
  BY <1>1
<1>3. SameText(s, u, c, e, x)
  <2>1. \A j \in (c + 1)..e : j \in (a + 1)..b
    BY <1>1
  <2> QED
    BY <1>1, <2>1 DEF SameText
<1>4. Aligned(s, u, c, e, x)
  <2>1. \A j \in c..(e - 1) : j \in a..(b - 1)
    BY <1>1
  <2> QED
    BY <1>1, <2>1 DEF Aligned
<1> QED
  BY <1>2, <1>3, <1>4 DEF Twin

(***************************************************************************)
(* Behind a heading, where nothing is open in either text: the same        *)
(* headings up to any point where both lines have ended.                   *)
(***************************************************************************)
LEMMA SyncUpto ==
    ASSUME NEW s, NEW u, NEW m, NEW v, NEW n, NEW z, NEW a, NEW b, NEW x,
           Parallel(s, u, m, v, n, z, a, b, x), SameEnd(s, u, b, x),
           a = b \/ s[a + 1] = "nl", ~StartsLine(s, a), ~StartsLine(u, a + x),
           m[a].open = "none", v[a + x].open = "none",
           NEW q \in Nat, OfLength(m[a].heads, q), NEW p \in Nat, OfLength(v[a + x].heads, p)
    PROVE  /\ SameState(m[b], v[b + x], x)
           /\ \E c \in Nat : Alike(m[b], v[b + x], x, q, p, c)
<1>0. /\ IsText(s) /\ IsText(u) /\ IsRun(s, m) /\ IsRun(u, v)
      /\ n \in Nat /\ OfLength(s, n) /\ z \in Nat /\ OfLength(u, z)
      /\ a \in Nat /\ b \in Nat /\ x \in Int
      /\ a <= b /\ b <= n /\ 0 <= a + x /\ b + x <= z
      /\ SameText(s, u, a, b, x)
  BY DEF Parallel
<1>1. CASE a = b
  <2>1. Alike(m[a], v[a + x], x, q, p, 0)
    BY DEF Alike
  <2>2. SameState(m[a], v[a + x], x)
    BY DEF SameState
  <2> QED
    BY <1>1, <2>1, <2>2
<1>2. CASE a # b
  <2> DEFINE f == a + 1
             g == a + x
  <2>1. /\ a \in 0..(n - 1) /\ f \in Nat /\ f <= b /\ g \in 0..(z - 1) /\ f + x = g + 1
        /\ 0 <= f + x /\ b \in f..b
    BY <1>0, <1>2
  <2> HIDE DEF f, g
  <2>2. m[f] = m[a] /\ v[f + x] = v[g]
    <3>1. a \in 0..(Len(s) - 1) /\ g \in 0..(Len(u) - 1)
      BY <1>0, <2>1 DEF OfLength
    <3>2. m[a + 1] = m[a]
      BY <1>0, <3>1, RunStep
    <3>3. ~StartsLine(u, g)
      BY DEF g
    <3>4. v[g + 1] = v[g]
      BY <1>0, <3>1, <3>3, RunStep
    <3> QED
      BY <2>1, <3>2, <3>4 DEF f
  <2>3. SameState(m[f], v[f + x], x)
    BY <2>2 DEF SameState, g
  <2>4. OfLength(m[f].heads, q) /\ OfLength(v[f + x].heads, p)
    BY <2>2 DEF g
  <2>5. s[f] = "nl"
    BY <1>2 DEF f
  <2>6. SameText(s, u, f, b, x)
    <3>1. \A j \in (f + 1)..b : j \in (a + 1)..b
      BY <1>0 DEF f
    <3> QED
      BY <1>0, <3>1 DEF SameText
  <2>7. StartsLine(s, f) /\ StartsLine(u, f + x)
    <3>1. f \in (a + 1)..b
      BY <1>0, <2>1 DEF f
    <3>2. u[f + x] = s[f]
      BY <1>0, <3>1 DEF SameText
    <3> QED
      BY <2>5, <3>2 DEF StartsLine
  <2>8. Parallel(s, u, m, v, n, z, f, b, x)
    BY <1>0, <2>1, <2>6 DEF Parallel
  <2>9. Twin(s, u, m, v, n, z, f, b, x)
    BY <2>7, <2>8, TwinOf
  <2>10. Aligned(s, u, f, b, x)
    BY <2>9 DEF Twin
  <2>11. /\ SameState(m[b], v[b + x], x)
         /\ \E c \in Nat : Alike(m[b], v[b + x], x, q, p, c)
    BY <1>0, <2>1, <2>3, <2>4, <2>6, <2>10, SimRun
  <2> QED
    BY <2>11
<1> QED
  BY <1>1, <1>2

-----------------------------------------------------------------------------
(***************************************************************************)
(* The headings of a document and its run: where each was made, and how    *)
(* many there are where a section begins.                                  *)
(***************************************************************************)
LEMMA HeadBorn ==
    ASSUME NEW d, NEW m, NEW w \in Nat, NEW n \in Nat, HasRun(d, m, w, n), NEW k \in 1..n
    PROVE  \E j \in 0..(w - 1) : MadeAt(d.source, m, k, m[w].heads[k], j)
<1>1. IsText(d.source) /\ IsRun(d.source, m) /\ OfLength(d.source, w) /\ OfLength(m[w].heads, n)
  BY DEF HasRun
<1>2. w \in 0..w
  OBVIOUS
<1> QED
  BY <1>1, <1>2, HeadMade

\* What has been found up to some point is found for good.
LEMMA FoundStays ==
    ASSUME NEW d, NEW m, NEW w \in Nat, NEW n \in Nat, HasRun(d, m, w, n),
           NEW q \in 0..w, NEW c \in Nat, OfLength(m[q].heads, c)
    PROVE  c <= n /\ \A i \in 1..c : m[w].heads[i] = m[q].heads[i]
<1>1. IsText(d.source) /\ IsRun(d.source, m) /\ OfLength(d.source, w) /\ OfLength(m[w].heads, n)
  BY DEF HasRun
<1>2. w \in q..w
  OBVIOUS
<1>3. Begun(m[q].heads, m[w].heads)
  BY <1>1, <1>2, HeadsGrow
<1>4. PICK f, g \in Nat : /\ OfLength(m[q].heads, f) /\ OfLength(m[w].heads, g) /\ f <= g
                          /\ \A i \in 1..f : m[w].heads[i] = m[q].heads[i]
  BY <1>3 DEF Begun
<1>5. f = c /\ g = n
  BY <1>1, <1>4 DEF OfLength
<1> QED
  BY <1>4, <1>5

\* How many headings there are where section l begins.
Counts(h, l) == \E c \in Nat : c = l - 1 /\ OfLength(h, c)

StartIs(d, l, q) == q = StartOf(d, l)

LEMMA CountUpto ==
    ASSUME NEW d, NEW m, NEW w \in Nat, NEW n \in Nat, HasRun(d, m, w, n),
           NEW l \in 1..(n + 1), NEW q, StartIs(d, l, q)
    PROVE  /\ q \in 0..w
           /\ Counts(m[q].heads, l)
           /\ l <= n => StartsLine(d.source, q) /\ m[q].open # "fence"
<1>1. /\ IsText(d.source) /\ IsRun(d.source, m) /\ OfLength(d.source, w) /\ OfLength(m[w].heads, n)
      /\ n = Len(d.sections) /\ q = StartOf(d, l) /\ l \in Nat
  BY DEF HasRun, Counted, StartIs
<1>2. CASE l = n + 1
  <2>1. q = w
    BY <1>1, <1>2 DEF StartOf, OfLength
  <2>2. n = l - 1
    BY <1>2
  <2> QED
    BY <1>1, <1>2, <2>1, <2>2 DEF Counts
<1>3. CASE l # n + 1
  <2>1. l \in 1..n /\ l # 0 /\ l <= n
    BY <1>3
  <2>2. PICK j \in 0..(w - 1) : MadeAt(d.source, m, l, m[w].heads[l], j)
    BY <2>1, HeadBorn
  <2> DEFINE h == m[w].heads[l]
  <2>3. q = h.start
    <3>1. q = d.sections[l].heading.start
      BY <1>1, <2>1 DEF StartOf
    <3> QED
      BY <2>1, <3>1, RunHead
  <2> HIDE DEF h
  <2>4. MadeAt(d.source, m, l, h, j)
    BY <2>2 DEF h
  <2>5. /\ h.start \in 0..j
        /\ StartsLine(d.source, h.start)
        /\ OfLength(m[h.start].heads, l - 1)
        /\ h.kind = "atx" => h.start = j /\ m[j].open # "fence"
        /\ h.kind = "setext" => BornAt(d.source, m, j, h.start)
        /\ h.kind \in HeadingKinds
    BY <1>1, <2>1, <2>4, BeforeHead
  <2>6. m[q].open # "fence"
    <3>1. CASE h.kind = "atx"
      BY <2>3, <2>5, <3>1
    <3>2. CASE h.kind = "setext"
      <4>1. h.start < j /\ StartsLine(d.source, h.start) /\ m[h.start + 1].open = "paragraph"
        BY <2>5, <3>2 DEF BornAt
      <4>2. h.start \in 0..(w - 1)
        BY <2>5, <4>1
      <4>3. m[h.start + 1] = Read(d.source, h.start, m[h.start])
        BY <1>1, <4>1, <4>2, RunStep DEF OfLength
      <4>4. Then(d.source, h.start, m[h.start]) = "paragraph"
        BY <4>1, <4>3 DEF Read
      <4>5. m[h.start].open # "fence"
        BY <4>4, Zenon DEF Then, Opens
      <4> QED
        BY <2>3, <4>5
    <3> QED
      BY <2>5, <3>1, <3>2 DEF HeadingKinds
  <2>7. q \in 0..w /\ l - 1 \in Nat
    BY <2>1, <2>3, <2>5
  <2> QED
    BY <2>3, <2>5, <2>6, <2>7 DEF Counts
<1> QED
  BY <1>2, <1>3

(***************************************************************************)
(* Sections k to l - 1 of d are in e, t further on and their text x.       *)
(***************************************************************************)
Region(d, e, k, l, t, x) == \A i \in k..(l - 1) : Synced(d, i, e, i + t, x)

SameShape(d, e, k, y) ==
    /\ e.sections[y].level = d.sections[k].level
    /\ e.sections[y].kind = d.sections[k].kind
    /\ e.sections[y].heading.end - e.sections[y].heading.start
          = d.sections[k].heading.end - d.sections[k].heading.start

\* The text of the region is in both, and so are whole lines at its end.
Carried(d, e, w, z, p, q, x) ==
    /\ p \in Nat /\ q \in Nat /\ p <= q /\ q <= w
    /\ 0 <= p + x /\ q + x <= z
    /\ SameText(d.source, e.source, p, q, x)
    /\ d.source[q] = "nl" \/ (q = w /\ q + x = z)

LEMMA CarriedParallel ==
    ASSUME NEW d, NEW m, NEW w \in Nat, NEW n \in Nat, HasRun(d, m, w, n),
           NEW e, NEW v, NEW z \in Nat, NEW g \in Nat, HasRun(e, v, z, g),
           NEW p, NEW q, NEW x \in Int, Carried(d, e, w, z, p, q, x),
           NEW a \in Nat, p <= a, a <= q
    PROVE  /\ Parallel(d.source, e.source, m, v, w, z, a, q, x)
           /\ SameEnd(d.source, e.source, q, x)
<1>1. /\ p \in Nat /\ q \in Nat /\ q <= w /\ 0 <= p + x /\ q + x <= z
      /\ SameText(d.source, e.source, p, q, x)
      /\ d.source[q] = "nl" \/ (q = w /\ q + x = z)
  BY DEF Carried
<1>2. /\ IsText(d.source) /\ IsRun(d.source, m) /\ OfLength(d.source, w)
      /\ IsText(e.source) /\ IsRun(e.source, v) /\ OfLength(e.source, z)
  BY DEF HasRun
<1>3. SameText(d.source, e.source, a, q, x)
  <2>1. \A j \in (a + 1)..q : j \in (p + 1)..q
    BY <1>1
  <2> QED
    BY <1>1, <2>1 DEF SameText
<1>4. 0 <= a + x
  BY <1>1
<1>5. Parallel(d.source, e.source, m, v, w, z, a, q, x)
  BY <1>1, <1>2, <1>3, <1>4 DEF Parallel
<1>6. SameEnd(d.source, e.source, q, x)
  BY <1>1, <1>2 DEF SameEnd, EndsThere, OfLength
<1> QED
  BY <1>5, <1>6

\* Lists of which the second has the first's elements k + 1 to l - 1, moved.
LEMMA AlikeRegion ==
    ASSUME NEW d, NEW m, NEW w \in Nat, NEW n \in Nat, HasRun(d, m, w, n),
           NEW e, NEW v, NEW z \in Nat, NEW g \in Nat, HasRun(e, v, z, g),
           NEW q \in 0..w, NEW r \in 0..z, NEW x \in Int,
           NEW k \in Nat, NEW y \in Nat, NEW t \in Int, y = k + t,
           NEW c \in Nat, Alike(m[q], v[r], x, k, y, c)
    PROVE  /\ k + c <= n /\ y + c <= g
           /\ \A i \in (k + 1)..(k + c) : Synced(d, i, e, i + t, x)
<1>1. /\ OfLength(m[q].heads, k + c) /\ OfLength(v[r].heads, y + c)
      /\ \A i \in 1..c : v[r].heads[y + i] = HeadMoved(m[q].heads[k + i], x)
  BY DEF Alike
<1> DEFINE a == k + c
           b == y + c
<1>2. a \in Nat /\ b \in Nat /\ OfLength(m[q].heads, a) /\ OfLength(v[r].heads, b)
  BY <1>1
<1> HIDE DEF a, b
<1>3. a <= n /\ \A i \in 1..a : m[w].heads[i] = m[q].heads[i]
  BY <1>2, FoundStays
<1>4. b <= g /\ \A i \in 1..b : v[z].heads[i] = v[r].heads[i]
  BY <1>2, FoundStays
<1>5. ASSUME NEW i \in (k + 1)..(k + c) PROVE Synced(d, i, e, i + t, x)
  <2> DEFINE j == i - k
             f == i + t
  <2>1. j \in 1..c /\ k + j = i /\ y + j = f /\ i \in 1..a /\ f \in 1..b
    BY DEF a, b
  <2>2. v[r].heads[y + j] = HeadMoved(m[q].heads[k + j], x)
    BY <1>1, <2>1
  <2>3. i \in 1..n /\ f \in 1..g
    BY <1>2, <1>3, <1>4, <2>1
  <2> HIDE DEF j, f
  <2>4. v[z].heads[f] = HeadMoved(m[w].heads[i], x)
    BY <1>3, <1>4, <2>1, <2>2
  <2> DEFINE h == m[w].heads[i]
             o == v[z].heads[f]
  <2>5. IsHead(d, i, h) /\ IsHead(e, f, o)
    BY <2>3 DEF HasRun
  <2>6. o = HeadMoved(h, x)
    BY <2>4
  <2> HIDE DEF h, o
  <2>7. o.level = h.level /\ o.start = h.start + x /\ o.end = h.end + x
    BY <2>6 DEF HeadMoved
  <2>8. Synced(d, i, e, f, x)
    BY <2>5, <2>7, SectionIs DEF Synced
  <2> QED
    BY <2>8 DEF f
<1> QED
  BY <1>3, <1>4, <1>5 DEF a, b

-----------------------------------------------------------------------------
\* Where a heading ends, as the run and the document have it.
Ending(d, s, m, k, a) ==
    /\ d.sections[k].heading.end = a
    /\ a = Len(s) \/ s[a + 1] = "nl"
    /\ ~StartsLine(s, a)
    /\ m[a].open = "none"
    /\ OfLength(m[a].heads, k)

LEMMA EndingOf ==
    ASSUME NEW d, NEW m, NEW w \in Nat, NEW n \in Nat, HasRun(d, m, w, n), NEW k \in 1..n
    PROVE  \E a \in 1..w : Ending(d, d.source, m, k, a)
<1>1. /\ IsText(d.source) /\ IsRun(d.source, m) /\ OfLength(d.source, w) /\ k # 0 /\ k \in Nat
  BY DEF HasRun
<1>2. PICK j \in 0..(w - 1) : MadeAt(d.source, m, k, m[w].heads[k], j)
  BY HeadBorn
<1> DEFINE h == m[w].heads[k]
<1>3. MadeAt(d.source, m, k, h, j)
  BY <1>2
<1>4. d.sections[k].heading.end = h.end
  BY RunHead
<1> HIDE DEF h
<1>5. /\ h.end \in (j + 1)..w
      /\ h.end = w \/ d.source[h.end + 1] = "nl"
      /\ ~StartsLine(d.source, h.end)
      /\ m[h.end].open = "none"
      /\ OfLength(m[h.end].heads, k)
  BY <1>1, <1>3, AfterHead
<1>6. h.end \in 1..w
  BY <1>5
<1>7. Ending(d, d.source, m, k, h.end)
  BY <1>1, <1>4, <1>5 DEF Ending, OfLength
<1> QED
  BY <1>6, <1>7

(***************************************************************************)
(* A region whose first heading begins where the region's text is has all  *)
(* its headings there, and leaves the parser as the original left it.      *)
(***************************************************************************)
IsRegion(d, m, e, v, k, l, t, x, q) ==
    /\ Region(d, e, k, l, t, x)
    /\ SameState(m[q], v[q + x], x)
    /\ \E c \in Nat : c = (l + t) - 1 /\ OfLength(v[q + x].heads, c)

LEMMA HeadBeforeStart ==
    ASSUME NEW d, IsDocument(d), NEW n \in Nat, Counted(d, n), NEW w, OfLength(d.source, w),
           NEW k \in 1..n, NEW l \in (k + 1)..(n + 1)
    PROVE  /\ d.sections[k].heading.end <= StartOf(d, l)
           /\ StartOf(d, k) = d.sections[k].heading.start
           /\ d.sections[k].heading.start < d.sections[k].heading.end
           /\ d.sections[k].heading.start \in Nat /\ d.sections[k].heading.end \in Nat
<1>1. n = Len(d.sections)
  BY DEF Counted
<1>2. SectionLies(d, k)
  BY <1>1 DEF IsDocument
<1>3. /\ d.sections[k].heading.end <= Len(d.source)
      /\ d.sections[k].heading.start < d.sections[k].heading.end
      /\ d.sections[k].heading.start \in Nat /\ d.sections[k].heading.end \in Nat
  BY <1>2 DEF SectionLies
<1>4. StartOf(d, k) = d.sections[k].heading.start
  BY <1>1 DEF StartOf
<1>5. CASE l = n + 1
  <2>1. StartOf(d, l) = Len(d.source)
    BY <1>1, <1>5 DEF StartOf
  <2> QED
    BY <1>3, <1>4, <2>1
<1>6. CASE l # n + 1
  <2>1. k \in 1..Len(d.sections) /\ l \in 1..Len(d.sections) /\ k < l
    BY <1>1, <1>6
  <2>2. StartOf(d, l) = d.sections[l].heading.start
    BY <2>1 DEF StartOf
  <2>3. d.sections[k].heading.end < d.sections[l].heading.start
    BY <2>1 DEF IsDocument
  <2>4. SectionLies(d, l)
    BY <2>1 DEF IsDocument
  <2>5. d.sections[l].heading.start \in Nat
    BY <2>4 DEF SectionLies
  <2> QED
    BY <1>3, <1>4, <2>2, <2>3, <2>5
<1> QED
  BY <1>5, <1>6

LEMMA PinnedRegion ==
    ASSUME NEW d, IsDocument(d),
           NEW m, NEW w \in Nat, NEW n \in Nat, HasRun(d, m, w, n),
           NEW e, NEW v, NEW z \in Nat, NEW g \in Nat, HasRun(e, v, z, g),
           NEW k \in 1..n, NEW l \in (k + 1)..(n + 1), NEW y \in 1..g,
           NEW t \in Int, y = k + t,
           NEW p, p = StartOf(d, k), NEW q, q = StartOf(d, l),
           NEW x \in Int, Carried(d, e, w, z, p, q, x),
           NEW f, f = p + x, BeginsAt(e, y, f), SameShape(d, e, k, y)
    PROVE  IsRegion(d, m, e, v, k, l, t, x, q)
<1>0. Counted(d, n) /\ OfLength(d.source, w) /\ OfLength(e.source, z)
  BY DEF HasRun
<1>1. PICK a \in 1..w : Ending(d, d.source, m, k, a)
  BY EndingOf
<1>2. PICK b \in 1..z : Ending(e, e.source, v, y, b)
  BY EndingOf
<1>3. a <= q /\ p < a /\ p \in Nat
  BY <1>0, <1>1, HeadBeforeStart DEF Ending
<1>4. b = a + x
  <2>1. d.sections[k].heading.end = a /\ e.sections[y].heading.end = b
    BY <1>1, <1>2 DEF Ending
  <2>2. d.sections[k].heading.start = p
    BY <1>0, HeadBeforeStart
  <2>3. e.sections[y].heading.start = f
    BY DEF BeginsAt
  <2>4. b - f = a - p
    BY <2>1, <2>2, <2>3 DEF SameShape
  <2> QED
    BY <1>3, <2>4
<1>5. /\ Parallel(d.source, e.source, m, v, w, z, a, q, x)
      /\ SameEnd(d.source, e.source, q, x)
  BY <1>3, CarriedParallel
<1>6. /\ a = q \/ d.source[a + 1] = "nl"
      /\ ~StartsLine(d.source, a) /\ ~StartsLine(e.source, a + x)
      /\ m[a].open = "none" /\ v[a + x].open = "none"
      /\ OfLength(m[a].heads, k) /\ OfLength(v[a + x].heads, y)
  <2>1. a = w => a = q
    BY <1>3 DEF Carried
  <2>2. a = Len(d.source) \/ d.source[a + 1] = "nl"
    BY <1>1 DEF Ending
  <2>3. Len(d.source) = w
    BY <1>0 DEF OfLength
  <2>4. a = q \/ d.source[a + 1] = "nl"
    BY <2>1, <2>2, <2>3
  <2> QED
    BY <1>1, <1>2, <1>4, <2>4 DEF Ending
<1>7. k \in Nat /\ y \in Nat
  OBVIOUS
<1>8. /\ SameState(m[q], v[q + x], x)
      /\ \E c \in Nat : Alike(m[q], v[q + x], x, k, y, c)
  BY <1>5, <1>6, <1>7, SyncUpto
<1>9. PICK c \in Nat : Alike(m[q], v[q + x], x, k, y, c)
  BY <1>8
<1>10. q \in 0..w /\ q + x \in 0..z
  BY <1>3 DEF Carried
<1> DEFINE r == q + x
<1>11. r \in 0..z /\ Alike(m[q], v[r], x, k, y, c)
  BY <1>9, <1>10
<1> HIDE DEF r
<1>12. \A i \in (k + 1)..(k + c) : Synced(d, i, e, i + t, x)
  BY <1>7, <1>10, <1>11, AlikeRegion
<1>13. k + c = l - 1
  <2>1. StartIs(d, l, q) /\ l \in 1..(n + 1)
    BY DEF StartIs
  <2>2. Counts(m[q].heads, l)
    BY <2>1, CountUpto
  <2>4. PICK i \in Nat : i = l - 1 /\ OfLength(m[q].heads, i)
    BY <2>2 DEF Counts
  <2>3. OfLength(m[q].heads, k + c)
    BY <1>9 DEF Alike
  <2> QED
    BY <2>3, <2>4 DEF OfLength
<1>14. Synced(d, k, e, k + t, x)
  <2>1. d.sections[k].heading.end = a /\ e.sections[y].heading.end = b
    BY <1>1, <1>2 DEF Ending
  <2>2. d.sections[k].heading.start = p
    BY <1>0, HeadBeforeStart
  <2>3. e.sections[y].heading.start = f
    BY DEF BeginsAt
  <2> QED
    BY <1>4, <2>1, <2>2, <2>3 DEF SameShape, Synced
<1>15. Region(d, e, k, l, t, x)
  <2>1. \A i \in k..(l - 1) : i = k \/ i \in (k + 1)..(k + c)
    BY <1>13
  <2> QED
    BY <1>12, <1>14, <2>1 DEF Region
<1>16. \E i \in Nat : i = (l + t) - 1 /\ OfLength(v[q + x].heads, i)
  <2>1. OfLength(v[q + x].heads, y + c)
    BY <1>9 DEF Alike
  <2>2. y + c = (l + t) - 1 /\ y + c \in Nat
    BY <1>7, <1>13
  <2> QED
    BY <2>1, <2>2
<1> QED
  BY <1>8, <1>15, <1>16 DEF IsRegion

-----------------------------------------------------------------------------
\* An ATX heading is one wherever its line starts outside of a fence.
LEMMA AtxBegins ==
    ASSUME NEW u, IsText(u), NEW v, IsRun(u, v), NEW z \in Nat, OfLength(u, z),
           NEW f \in 0..(z - 1), StartsLine(u, f), u[f + 1] \in DOMAIN Level,
           v[f].open # "fence", NEW c \in Nat, OfLength(v[f].heads, c)
    PROVE  OfLength(v[f + 1].heads, c + 1) /\ v[f + 1].heads[c + 1].start = f
<1>1. f \in 0..(Len(u) - 1)
  BY DEF OfLength
<1>2. First(u, f) = u[f + 1]
  BY <1>1, LineIs
<1>3. MakesAtx(v[f].open, First(u, f))
  BY <1>2 DEF MakesAtx
<1>4. Heads(u, f, v[f])
  BY <1>3, Zenon DEF Heads, Makes
<1>5. HeadAt(u, f, v[f]).start = f
  BY <1>3 DEF HeadAt
<1>6. PICK g \in Nat : /\ OfLength(v[f].heads, g)
                       /\ IsAppended(v[f + 1].heads, v[f].heads, g, HeadAt(u, f, v[f]))
  BY <1>4, BegunStep
<1>7. g = c
  BY <1>6 DEF OfLength
<1>8. OfLength(v[f + 1].heads, g + 1) /\ v[f + 1].heads[g + 1] = HeadAt(u, f, v[f])
  BY <1>6 DEF IsAppended
<1> QED
  BY <1>5, <1>7, <1>8

(***************************************************************************)
(* A Setext heading: the lines of its title from p on, each a paragraph's, *)
(* and its underline at j.                                                 *)
(***************************************************************************)
Titled(s, m, w, p, j, c) ==
    /\ p \in Nat /\ j \in Nat /\ p < j /\ j < w
    /\ StartsLine(s, p) /\ StartsLine(s, j)
    /\ m[p].open = "none"
    /\ \A i \in (p + 1)..j : m[i].open = "paragraph"
    /\ ~(s[p + 1] = "=" /\ Alone(s, p))
    /\ s[j + 1] \in {"=", "-"} /\ Alone(s, j)
    /\ OfLength(m[p].heads, c) /\ OfLength(m[j].heads, c)

LEMMA OpenedHere ==
    ASSUME NEW s, IsText(s), NEW m, IsRun(s, m), NEW n \in Nat, OfLength(s, n),
           NEW p \in 0..(n - 1), StartsLine(s, p),
           m[p + 1].open = "paragraph", m[p + 1].from = p
    PROVE  m[p].open = "none"
<1>1. p \in 0..(Len(s) - 1) /\ p \in 0..Len(s)
  BY DEF OfLength
<1>2. m[p + 1] = Read(s, p, m[p])
  BY <1>1, RunStep
<1>3. /\ Then(s, p, m[p]) = "paragraph"
      /\ p = IF m[p].open = "paragraph" THEN m[p].from ELSE p
  BY <1>2 DEF Read
<1>4. m[p].open # "paragraph"
  <2> SUFFICES ASSUME m[p].open = "paragraph" PROVE FALSE
    OBVIOUS
  <2>1. SoundAt(s, m[p], p)
    BY <1>1, RunSound
  <2>2. m[p].from < p
    BY <2>1 DEF SoundAt, FromHolds
  <2> QED
    BY <1>1, <1>3, <2>2
<1> QED
  BY <1>3, <1>4, Zenon DEF Then, Opens

LEMMA UnderlineNotFirst ==
    ASSUME NEW s, IsText(s), NEW n \in Nat, OfLength(s, n), NEW p \in Nat, NEW j \in Nat,
           p < j, j < n, ~(s[p + 1] = "=" /\ s[(p + 1) + 1] = "nl")
    PROVE  ~(s[p + 1] = "=" /\ Alone(s, p))
<1> SUFFICES ASSUME s[p + 1] = "=", Alone(s, p) PROVE FALSE
  OBVIOUS
<1>1. p \in 0..(Len(s) - 1) /\ p \in 0..Len(s)
  BY DEF OfLength
<1>2. LineAt(s, p).start = p /\ LineAt(s, p).end = LineEnd(s, p)
  BY <1>1, LineIs
<1>3. LineEnd(s, p) = p + 1
  BY <1>2 DEF Alone, AloneIn
<1>4. LineEnd(s, p) = Len(s) \/ s[LineEnd(s, p) + 1] = "nl"
  BY <1>1, LineEndIs
<1>5. p + 1 # n
  OBVIOUS
<1> QED
  BY <1>3, <1>4, <1>5 DEF OfLength

-----------------------------------------------------------------------------
NextTo(y, b) == y \in Nat /\ y = b + 1

Stays(m, w, n, q, c) == c <= n /\ \A i \in 1..c : m[w].heads[i] = m[q].heads[i]

LEMMA FoundKept ==
    ASSUME NEW d, NEW m, NEW w \in Nat, NEW n \in Nat, HasRun(d, m, w, n),
           NEW q, q \in 0..w, NEW c, c \in Nat, OfLength(m[q].heads, c)
    PROVE  Stays(m, w, n, q, c)
<1>1. c <= n /\ \A i \in 1..c : m[w].heads[i] = m[q].heads[i]
  BY FoundStays
<1> QED
  BY <1>1 DEF Stays

\* A line that makes a heading: the section it becomes.
HeadLies(e, y, a, b) ==
    e.sections[y].heading.start = a /\ e.sections[y].heading.end = b

LEMMA HeadHere ==
    ASSUME NEW e, NEW v, NEW z \in Nat, NEW g \in Nat, HasRun(e, v, z, g),
           NEW r \in 0..(z - 1), StartsLine(e.source, r), Heads(e.source, r, v[r]),
           NEW b \in Nat, OfLength(v[r].heads, b), NEW y, NextTo(y, b)
    PROVE  HeadLies(e, y, HeadAt(e.source, r, v[r]).start, HeadAt(e.source, r, v[r]).end)
<1>1. IsText(e.source) /\ IsRun(e.source, v) /\ OfLength(e.source, z)
  BY DEF HasRun
<1>2. PICK c \in Nat : /\ OfLength(v[r].heads, c)
                       /\ IsAppended(v[r + 1].heads, v[r].heads, c, HeadAt(e.source, r, v[r]))
  BY <1>1, BegunStep
<1>3. c = b
  BY <1>2 DEF OfLength
<1> DEFINE o == r + 1
<1>4. /\ o \in 0..z /\ y \in Nat /\ 1 <= y
      /\ OfLength(v[o].heads, y) /\ v[o].heads[y] = HeadAt(e.source, r, v[r])
  BY <1>2, <1>3 DEF IsAppended, NextTo
<1> HIDE DEF o
<1>5. y <= g /\ \A j \in 1..y : v[z].heads[j] = v[o].heads[j]
  <2>1. o \in 0..z /\ y \in Nat /\ OfLength(v[o].heads, y)
    BY <1>4
  <2> QED
    <3>1. HasRun(e, v, z, g)
      OBVIOUS
    <3>2. Stays(v, z, g, o, y)
      BY <2>1, <3>1, FoundKept
    <3> QED
      BY <3>2 DEF Stays
<1>6. y \in 1..y /\ y \in 1..g
  BY <1>4, <1>5
<1>7. v[z].heads[y] = HeadAt(e.source, r, v[r])
  BY <1>4, <1>5, <1>6
<1>8. /\ e.sections[y].heading.start = v[z].heads[y].start
      /\ e.sections[y].heading.end = v[z].heads[y].end
  BY <1>6, RunHead
<1> QED
  BY <1>7, <1>8 DEF HeadLies

\* An underline under a paragraph.
LEMMA UnderlineMakes ==
    ASSUME NEW u, NEW i, NEW t, First(u, i) \in {"=", "-"}, Alone(u, i), t.open = "paragraph"
    PROVE  Heads(u, i, t) /\ HeadAt(u, i, t).start = t.from /\ HeadAt(u, i, t).end = LineEnd(u, i)
<1>1. First(u, i) \notin DOMAIN Level
  BY TokenAssumption
<1>2. ~MakesAtx(t.open, First(u, i)) /\ MakesSetext(t.open, First(u, i), Alone(u, i))
  BY <1>1 DEF MakesAtx, MakesSetext
<1> QED
  BY <1>2 DEF Heads, Makes, HeadAt

\* An underline behind a list item.
LEMMA UnderlineMakesNot ==
    ASSUME NEW u, NEW i, NEW t, First(u, i) \in {"=", "-"}, Alone(u, i), t.open = "item"
    PROVE  ~Heads(u, i, t) /\ Then(u, i, t) \in {"none", "item"}
<1>1. First(u, i) \notin DOMAIN Level /\ First(u, i) # "F" /\ First(u, i) \notin ToSet(Bullets)
  BY TokenAssumption
<1>2. ~MakesAtx(t.open, First(u, i)) /\ ~MakesSetext(t.open, First(u, i), Alone(u, i))
  BY <1>1 DEF MakesAtx, MakesSetext
<1>3. ~Heads(u, i, t)
  BY <1>2 DEF Heads, Makes
<1>4. Then(u, i, t) \in {"none", "item"}
  BY <1>1 DEF Then, Opens
<1> QED
  BY <1>3, <1>4

(***************************************************************************)
(* The first heading of a region, where the text in front of it is         *)
(* another: an ATX heading is one there too.                               *)
(***************************************************************************)
LEMMA SeamAtx ==
    ASSUME NEW d, NEW m, NEW w \in Nat, NEW n \in Nat, HasRun(d, m, w, n),
           NEW e, NEW v, NEW z \in Nat, NEW g \in Nat, HasRun(e, v, z, g),
           NEW k \in 1..n, d.sections[k].kind = "atx",
           NEW p, StartIs(d, k, p), NEW f \in 0..(z - 1), e.source[f + 1] = d.source[p + 1],
           StartsLine(e.source, f), v[f].open # "fence",
           NEW b \in Nat, OfLength(v[f].heads, b), NEW y, NextTo(y, b)
    PROVE  BeginsAt(e, y, f)
<1>0. /\ IsText(d.source) /\ IsRun(d.source, m) /\ OfLength(d.source, w)
      /\ IsText(e.source) /\ OfLength(e.source, z) /\ k \in Nat /\ k # 0 /\ n = Len(d.sections)
  BY DEF HasRun, Counted
<1>1. PICK j \in 0..(w - 1) : MadeAt(d.source, m, k, m[w].heads[k], j)
  BY HeadBorn
<1> DEFINE h == m[w].heads[k]
<1>2. MadeAt(d.source, m, k, h, j)
  BY <1>1
<1>3. d.sections[k].heading.start = h.start /\ h.kind = "atx"
  BY RunHead
<1>4. p = h.start
  BY <1>0, <1>3 DEF StartIs, StartOf
<1> HIDE DEF h
<1>5. p = j /\ d.source[j + 1] \in DOMAIN Level
  BY <1>0, <1>2, <1>3, <1>4, BeforeHead
<1>6. f \in 0..(Len(e.source) - 1)
  BY <1>0 DEF OfLength
<1>7. First(e.source, f) = e.source[f + 1]
  BY <1>0, <1>6, LineIs
<1>8. MakesAtx(v[f].open, First(e.source, f))
  BY <1>5, <1>7 DEF MakesAtx
<1>9. Heads(e.source, f, v[f])
  BY <1>8, Zenon DEF Heads, Makes
<1>10. HeadAt(e.source, f, v[f]).start = f
  BY <1>8 DEF HeadAt
<1>11. HeadLies(e, y, HeadAt(e.source, f, v[f]).start, HeadAt(e.source, f, v[f]).end)
  BY <1>9, HeadHere
<1> QED
  BY <1>10, <1>11 DEF HeadLies, BeginsAt

\* A Setext heading, behind a paragraph that is open: it would be longer.
LEMMA SeamParagraph ==
    ASSUME NEW s, NEW m, NEW w, NEW q, NEW x, NEW p, NEW j, NEW c, Titled(s, m, w, p, j, c),
           NEW e, NEW v, NEW z \in Nat, NEW g \in Nat, HasRun(e, v, z, g),
           Twin(s, e.source, m, v, w, z, p, q, x), j < q,
           NEW f, f = p + x, v[f].open = "paragraph",
           NEW b \in Nat, OfLength(v[f].heads, b), NEW y, NextTo(y, b)
    PROVE  \E a \in Nat : a < f /\ HeadLies(e, y, a, (j + 1) + x)
<1> DEFINE u == e.source
           r == j + x
<1>0. /\ IsText(u) /\ IsRun(u, v) /\ OfLength(u, z)
      /\ p \in Nat /\ j \in Nat /\ q \in Nat /\ x \in Int /\ p < j /\ 0 <= f /\ q + x <= z
      /\ OfLength(s, w) /\ w \in Nat /\ IsText(s) /\ j < w
  BY DEF Twin, Titled
<1>1. j \in p..(q - 1)
  BY <1>0
<1>2. /\ r \in 0..(z - 1)
      /\ StartsLine(s, j) => SameLine(s, u, j, r)
  BY <1>1, TwinLine
<1>3. SameLine(s, u, j, r) /\ s[j + 1] \in {"=", "-"} /\ Alone(s, j)
  BY <1>2 DEF Titled
<1>4. First(u, r) \in {"=", "-"} /\ Alone(u, r) /\ StartsLine(u, r)
  BY <1>3 DEF SameLine
<1>5. Twin(s, u, m, v, w, z, p, j, x)
  <2>1. p <= p /\ p <= j /\ j <= q
    BY <1>0, <1>1
  <2> QED
    BY <1>0, <2>1, TwinWithin
<1>6. IsStill(v[r], v[f])
  <2>1. /\ m[p].open = "none" /\ \A i \in (p + 1)..j : m[i].open = "paragraph"
        /\ ~(s[p + 1] = "=" /\ Alone(s, p))
    BY DEF Titled
  <2> DEFINE o == v[p + x]
  <2>2. o = v[p + x] /\ o.open \in {"paragraph", "item"} /\ o = v[f]
    OBVIOUS
  <2> HIDE DEF o, u, r
  <2>3. IsStill(v[j + x], o)
    BY <1>5, <2>1, <2>2, StayRun
  <2> QED
    BY <2>2, <2>3 DEF r
<1>7. v[r].open = "paragraph" /\ v[r].from = v[f].from /\ OfLength(v[r].heads, b)
  BY <1>6 DEF IsStill
<1> HIDE DEF u, r
<1>8. /\ Heads(u, r, v[r]) /\ HeadAt(u, r, v[r]).start = v[f].from
      /\ HeadAt(u, r, v[r]).end = LineEnd(u, r)
  BY <1>4, <1>7, UnderlineMakes
<1>9. HeadLies(e, y, HeadAt(u, r, v[r]).start, HeadAt(u, r, v[r]).end)
  BY <1>2, <1>4, <1>7, <1>8, HeadHere DEF u
<1>10. LineEnd(u, r) = (j + 1) + x
  <2>1. r \in 0..(Len(u) - 1)
    BY <1>0, <1>2 DEF OfLength
  <2>2. LineAt(u, r).start = r /\ LineAt(u, r).end = LineEnd(u, r)
    BY <1>0, <2>1, LineIs
  <2>3. LineEnd(u, r) = r + 1
    BY <1>4, <2>2 DEF Alone, AloneIn
  <2> QED
    BY <1>0, <2>3 DEF r
<1>11. v[f].from < f /\ v[f].from \in Nat
  <2>1. f \in 0..Len(u)
    BY <1>0, <1>1 DEF OfLength
  <2>2. SoundAt(u, v[f], f)
    BY <1>0, <2>1, RunSound
  <2> QED
    BY <2>2 DEF SoundAt, FromHolds, Reduced
<1> QED
  BY <1>8, <1>9, <1>10, <1>11

\* Behind a list item, which takes its title: there would be one heading less.
LEMMA SeamItem ==
    ASSUME NEW s, NEW m, NEW w, NEW q, NEW x, NEW p, NEW j, NEW c \in Nat, Titled(s, m, w, p, j, c),
           IsRun(s, m),
           NEW u, NEW v, NEW z, IsRun(u, v), Twin(s, u, m, v, w, z, p, q, x), j < q,
           NEW f, f = p + x, v[f].open = "item", NEW b \in Nat, OfLength(v[f].heads, b)
    PROVE  \E a \in Nat : a = c + 1 /\ Fewer(m[q], v[q + x], a, b)
<1> DEFINE r == j + x
           i == j + 1
           a == c + 1
<1>0. /\ IsText(s) /\ OfLength(s, w) /\ w \in Nat /\ j < w
      /\ IsText(u) /\ OfLength(u, z) /\ z \in Nat
      /\ p \in Nat /\ j \in Nat /\ q \in Nat /\ x \in Int /\ p < j
  BY DEF Twin, Titled
<1>1. j \in p..(q - 1) /\ i \in Nat /\ q \in Nat /\ p <= i /\ i <= q /\ q <= q /\ i + x = r + 1
      /\ a \in Nat
  BY <1>0
<1>2. /\ r \in 0..(z - 1) /\ j \in 0..(w - 1)
      /\ StartsLine(s, j) => SameLine(s, u, j, r)
      /\ m[j + 1] = (IF StartsLine(s, j) THEN Read(s, j, m[j]) ELSE m[j])
      /\ v[r + 1] = (IF StartsLine(s, j) THEN Read(u, r, v[r]) ELSE v[r])
  BY <1>1, TwinLine
<1>3. /\ SameLine(s, u, j, r) /\ s[j + 1] \in {"=", "-"} /\ Alone(s, j) /\ StartsLine(s, j)
      /\ m[j].open = "paragraph" /\ OfLength(m[j].heads, c)
  <2>1. j \in (p + 1)..j
    BY <1>0
  <2> QED
    BY <1>2, <2>1 DEF Titled
<1>4. First(u, r) \in {"=", "-"} /\ Alone(u, r) /\ StartsLine(u, r)
      /\ First(s, j) \in {"=", "-"}
  BY <1>3 DEF SameLine
<1>5. Twin(s, u, m, v, w, z, p, j, x)
  <2>1. p <= p /\ p <= j /\ j <= q
    BY <1>0, <1>1
  <2> QED
    BY <1>0, <2>1, TwinWithin
<1>6. IsStill(v[r], v[f])
  <2>1. /\ m[p].open = "none" /\ \A h \in (p + 1)..j : m[h].open = "paragraph"
        /\ ~(s[p + 1] = "=" /\ Alone(s, p))
    BY DEF Titled
  <2> DEFINE o == v[p + x]
  <2>2. o = v[p + x] /\ o.open \in {"paragraph", "item"} /\ o = v[f]
    OBVIOUS
  <2> HIDE DEF o, r
  <2>3. IsStill(v[j + x], o)
    BY <1>5, <2>1, <2>2, StayRun
  <2> QED
    BY <2>2, <2>3 DEF r
<1>7. v[r].open = "item" /\ OfLength(v[r].heads, b)
  BY <1>6 DEF IsStill
<1> HIDE DEF r
<1>8. ~Heads(u, r, v[r]) /\ Then(u, r, v[r]) \in {"none", "item"}
  BY <1>4, <1>7, UnderlineMakesNot
<1>9. v[r + 1].open \in {"none", "item"} /\ OfLength(v[r + 1].heads, b)
  BY <1>2, <1>3, <1>7, <1>8 DEF Read
<1>10. Heads(s, j, m[j])
  BY <1>3, <1>4, UnderlineMakes
<1>11. m[i].open = "none"
  <2>1. Then(s, j, m[j]) = "none"
    BY <1>10, HeadingLines
  <2> QED
    BY <1>2, <1>3, <2>1 DEF Read
<1>12. OfLength(m[i].heads, a)
  <2>1. Added(s, j, m[j], m[j + 1])
    BY <1>0, <1>2, <1>3, LineAdds
  <2> QED
    BY <1>3, <1>10, <2>1 DEF Added
<1> HIDE DEF i, a
<1>13. Twin(s, u, m, v, w, z, i, q, x)
  BY <1>1, TwinWithin
<1>14. Lags(m[i], v[i + x]) /\ OfLength(v[i + x].heads, b)
  BY <1>1, <1>9, <1>11 DEF Lags
<1>15. Fewer(m[q], v[q + x], a, b)
  BY <1>1, <1>12, <1>13, <1>14, LagRun
<1> QED
  BY <1>1, <1>15 DEF a
=============================================================================
