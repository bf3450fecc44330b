---------------------------- MODULE Definitions -----------------------------
(***************************************************************************)
(* The reference definitions of a document and what its links lead to:     *)
(* internal/parser/native/references.go finds [label]: destination "title" *)
(* over one or more lines, internal/source/links.go says which definitions *)
(* and links can be edited in place.                                       *)
(*                                                                         *)
(* Besides definitions a document has paragraphs and fenced code, the      *)
(* blocks that decide where a definition may start and what swallows it.   *)
(***************************************************************************)
EXTENDS Integers, Sequences, FiniteSets
LOCAL INSTANCE SequencesExt
LOCAL INSTANCE FiniteSetsExt

(***************************************************************************)
(* The links and images of one paragraph, as internal/parser/native finds  *)
(* them: where the text has a bracket pair that a destination follows, or  *)
(* whose label a definition has; which of those count; and the references  *)
(* that no definition answers.                                             *)
(*                                                                         *)
(* A text is a sequence of tokens: the punctuation of links, spaces, "nl", *)
(* words (the word "A" is "a" in another case), "\]" for an escaped        *)
(* bracket and "F" for a code fence.  Offsets count tokens from 0.         *)
(* Left out: emphasis, code spans, autolinks and HTML beside the links.    *)
(***************************************************************************)
\* F of v, where TLC evaluates v once.
Once(v, F(_)) == CHOOSE r \in {F(x) : x \in {v}} : TRUE

Span(a, b) == [start |-> a, end |-> b]
At(t, p)   == t[p + 1]
Part(t, r) == SubSeq(t, r.start + 1, r.end)
Has(p, r)  == r.start <= p /\ p < r.end

Space == {" ", "nl"}

\* The first offset in [from, end) that holds one of S, or none of it.
FirstOf(t, from, end, S)    == Min({end} \cup {p \in from..(end - 1) : At(t, p) \in S})
FirstNotOf(t, from, end, S) == Min({end} \cup {p \in from..(end - 1) : At(t, p) \notin S})

LineEnd(t, p) == FirstOf(t, p, Len(t), {"nl"})

\* How many of a pair's openers of [from, p) are not closed yet.
Depth(t, from, p, open, close) ==
    Cardinality({q \in from..(p - 1) : At(t, q) = open})
      - Cardinality({q \in from..(p - 1) : At(t, q) = close})

\* ReferenceLabelKey: case folded, spaces collapsed, none at the ends.
Fold(c) == IF c = "A" THEN "a" ELSE c

Key(label) ==
    LET kept == SelectSeq([i \in DOMAIN label |-> i], LAMBDA i :
                    \/ label[i] \notin Space
                    \/ /\ i > 1 /\ label[i - 1] \notin Space
                       /\ \E j \in i..Len(label) : label[j] \notin Space)
    IN [k \in DOMAIN kept |->
           IF label[kept[k]] \in Space THEN " " ELSE Fold(label[kept[k]])]

-----------------------------------------------------------------------------
(***************************************************************************)
(* What follows the label of a direct link: (destination "title").  The    *)
(* tail says where its parts are; a title is a sequence of at most one.    *)
(***************************************************************************)
NoTitle == << >>
None    == [ok |-> FALSE]

Openers   == {"\"", "'", "("}
Closer(c) == IF c = "(" THEN ")" ELSE c

Found(r, angle) == [ok |-> TRUE, range |-> r, angle |-> angle,
                    next |-> IF angle THEN r.end + 1 ELSE r.end]

Destination(t, p, end) ==
    LET angle == At(t, p) = "<"
        q == IF angle THEN FirstOf(t, p + 1, end, {">", "<", "nl"})
             ELSE Min({end} \cup
                      {r \in p..(end - 1) : \/ At(t, r) \in Space \cup {"<"}
                                            \/ At(t, r) = ")" /\ Depth(t, p, r, "(", ")") = 0})
    IN IF angle
       THEN IF q < end /\ At(t, q) = ">" THEN Found(Span(p + 1, q), TRUE) ELSE None
       ELSE IF q > p THEN Found(Span(p, q), FALSE) ELSE None

Tail_(end, dest, angle, title) ==
    [ok |-> TRUE, end |-> end, dest |-> dest, angle |-> angle, title |-> title]

TitleTail(t, p, end, d) ==
    LET q == FirstOf(t, p + 1, end, {Closer(At(t, p))})
        c == FirstNotOf(t, q + 1, end, Space)
    IN IF At(t, p) \in Openers /\ c < end /\ At(t, c) = ")"
       THEN Tail_(c + 1, d.range, d.angle, <<Span(p + 1, q)>>) ELSE None

DestinationTail(t, p, end) ==
    Once(Destination(t, p, end), LAMBDA d :
        IF ~d.ok THEN None
        ELSE LET b == FirstNotOf(t, d.next, end, Space)
             IN IF b = end THEN None
                ELSE IF At(t, b) = ")" THEN Tail_(b + 1, d.range, d.angle, NoTitle)
                ELSE IF b = d.next THEN None
                ELSE TitleTail(t, b, end, d))

InlineTail(t, p, end) ==
    LET a == FirstNotOf(t, p + 1, end, Space)
    IN IF p >= end \/ a >= end THEN None
       ELSE IF At(t, p) # "(" THEN None
       ELSE IF At(t, a) = ")" THEN Tail_(a + 1, Span(a, a), FALSE, NoTitle)
       ELSE DestinationTail(t, a, end)

-----------------------------------------------------------------------------
(***************************************************************************)
(* Composites: a label in brackets with a direct tail, or with a label     *)
(* that a definition has behind it, or in it.  par is the paragraph, defs  *)
(* gives each key its definition.                                          *)
(***************************************************************************)
IsImage(t, p)   == At(t, p) = "!"
LabelFrom(t, p) == IF IsImage(t, p) THEN p + 2 ELSE p + 1

\* nextCompositeOpening.
Openings(t, par) ==
    {p \in par.start..(par.end - 1) :
        \/ At(t, p) = "!" /\ p + 1 < par.end /\ At(t, p + 1) = "["
        \/ At(t, p) = "[" /\ ~(p > par.start /\ At(t, p - 1) = "!")}

\* scanInlineLabelEnd.
LabelEnd(t, from, end) ==
    Min({end} \cup {q \in from..(end - 1) :
                       At(t, q) = "]" /\ Depth(t, from, q, "[", "]") = 0})

\* tail is where a direct link has its parts, d what it leads to.
Composite(t, p, close, end, form, ref, tail, d) ==
    [image |-> IsImage(t, p), start |-> p, end |-> end,
     label |-> Span(LabelFrom(t, p), close), tail |-> tail,
     form |-> form, ref |-> ref, dest |-> d.dest, title |-> d.title]

TitlesOf(t, ranges) == [k \in DOMAIN ranges |-> Part(t, ranges[k])]

NoComposite == [form |-> "none"]

\* scanDirectComposite: the label ends on its line, the tail may cross lines.
Direct(t, par, p) ==
    LET line  == Min({par.end, LineEnd(t, p)})
        close == LabelEnd(t, LabelFrom(t, p), line)
    IN Once(InlineTail(t, close + 1, par.end), LAMBDA tail :
          IF close < line /\ tail.ok
          THEN Composite(t, p, close, tail.end, "direct", << >>, tail,
                         [dest |-> Part(t, tail.dest), title |-> TitlesOf(t, tail.title)])
          ELSE NoComposite)

\* scanReferenceComposite.
Reference(t, par, p, defs) ==
    LET close  == LabelEnd(t, LabelFrom(t, p), par.end)
        label  == Part(t, Span(LabelFrom(t, p), close))
        second == FirstOf(t, close + 2, par.end, {"[", "]"})
        tailed == /\ close + 1 < par.end /\ At(t, close + 1) = "["
                  /\ second < par.end /\ At(t, second) = "]"
        form   == IF ~tailed THEN "shortcut"
                  ELSE IF second = close + 2 THEN "collapsed" ELSE "full"
        ref    == IF form = "full" THEN Part(t, Span(close + 2, second)) ELSE label
    IN IF close < par.end /\ Key(ref) \in DOMAIN defs
       THEN Composite(t, p, close, IF tailed THEN second + 1 ELSE close + 1,
                      form, ref, None, defs[Key(ref)])
       ELSE NoComposite

Composites(t, par, defs) ==
    LET direct == {Direct(t, par, p) : p \in Openings(t, par)} \ {NoComposite}
        other  == Openings(t, par) \ {c.start : c \in direct}
    IN direct \cup ({Reference(t, par, p, defs) : p \in other} \ {NoComposite})

\* activateCompositeInlines: a link holds no other link, an image may hold
\* anything, and the tail of a reference that counts holds nothing.
Explicit == {"full", "collapsed"}

Active(cs) ==
    LET links == {c.start : c \in {x \in cs : ~x.image}}
        counts[c \in cs] ==
            /\ c.image \/ \A s \in links : ~Has(s, c.label)
            /\ ~\E p \in cs : /\ p.form \in Explicit
                              /\ Has(c.start, Span(p.label.end + 1, p.end))
                              /\ counts[p]
    IN {c \in cs : counts[c]}

Usage(c) == [image |-> c.image, form |-> c.form, at |-> c.start,
             ref |-> c.ref, dest |-> c.dest, title |-> c.title]

-----------------------------------------------------------------------------
(***************************************************************************)
(* References without a definition: [label][label] or [label][] outside    *)
(* every composite, on one line, with labels of plain text.                *)
(***************************************************************************)
\* scanPlainReferenceUsageLabel, at its opening bracket.
PlainLabel(t, open, limit) ==
    LET q == FirstOf(t, open + 1, limit, {"nl", "[", "]", "\\]"})
        value == Part(t, Span(open + 1, q))
    IN IF /\ open < limit /\ At(t, open) = "["
          /\ q < limit /\ At(t, q) = "]"
          /\ value = << >> \/ \E i \in DOMAIN value : value[i] # " "
       THEN [ok |-> TRUE, value |-> value, end |-> q + 1]
       ELSE None

\* scanUnresolvedReferenceUsage.
Unanswered(t, p, limit, defs) ==
    LET open == LabelFrom(t, p) - 1 IN
    Once(PlainLabel(t, open, limit), LAMBDA first :
        IF ~first.ok THEN None
        ELSE Once(PlainLabel(t, first.end, limit), LAMBDA second :
            IF ~second.ok THEN None
            ELSE LET ref == IF second.value = << >> THEN first.value ELSE second.value
                 IN IF ref = << >> \/ Key(ref) \in DOMAIN defs THEN None
                    ELSE [ok |-> TRUE, image |-> IsImage(t, p), start |-> p,
                          end |-> second.end, label |-> Span(open + 1, first.end - 1),
                          form |-> IF second.value = << >> THEN "collapsed" ELSE "full",
                          ref |-> ref]))

\* unresolvedReferenceUsages.
Unresolved(t, par, cs, defs) ==
    LET covered(p) == \E c \in cs : Has(p, Span(c.start, c.end))
        limit(p) == Min({par.end, LineEnd(t, p)}
                        \cup {c.start : c \in {x \in cs : x.start > p}})
        from[p \in par.start..par.end] ==
            IF p = par.end THEN << >>
            ELSE IF covered(p) \/ At(t, p) \notin {"[", "!"} THEN from[p + 1]
            ELSE Once(Unanswered(t, p, limit(p), defs), LAMBDA u :
                     IF u.ok THEN <<u>> \o from[u.end] ELSE from[p + 1])
    IN from[par.start]

-----------------------------------------------------------------------------
(***************************************************************************)
(* The paragraph to a reader: words, and links around words.  A direct     *)
(* link has a destination of its own, a reference names the key under      *)
(* which the definitions are to be searched.                               *)
(***************************************************************************)
Word(c) == [kind |-> "word", word |-> c]

LinkNode(c, label) ==
    [kind  |-> IF c.image THEN "image" ELSE "link", label |-> label,
     key   |-> IF c.form = "direct" THEN << >> ELSE Key(c.ref),
     dest  |-> IF c.form = "direct" THEN c.dest ELSE << >>,
     title |-> IF c.form = "direct" THEN c.title ELSE NoTitle]

RECURSIVE Reading(_, _, _, _)
Reading(t, cs, p, end) ==
    IF p >= end THEN << >>
    ELSE LET here == {c \in cs : c.start = p} IN
         IF here = {} THEN <<Word(At(t, p))>> \o Reading(t, cs, p + 1, end)
         ELSE LET c == CHOOSE x \in here : TRUE
              IN <<LinkNode(c, Reading(t, cs, c.label.start, c.label.end))>>
                 \o Reading(t, cs, c.end, end)

-----------------------------------------------------------------------------
Lines(t) ==
    LET starts == SelectSeq([p \in 1..Len(t) |-> p - 1],
                            LAMBDA p : p = 0 \/ At(t, p - 1) = "nl")
    IN [k \in DOMAIN starts |-> Span(starts[k], LineEnd(t, starts[k]))]

LineAt(lines, p) == SelectInSeq(lines, LAMBDA l : p <= l.end)

Outset(t, l)    == FirstNotOf(t, l.start, l.end, {" "})
Blank(t, l)    == Outset(t, l) = l.end
Ordinary(t, l) == Outset(t, l) - l.start <= 3
Fence(t, l)    == ~Blank(t, l) /\ Ordinary(t, l) /\ At(t, Outset(t, l)) = "F"
Closes(t, l)   == Fence(t, l) /\ FirstNotOf(t, Outset(t, l) + 1, l.end, {" "}) = l.end

\* referenceParagraphContinuationLine.
Continues(t, l) == ~Blank(t, l) /\ ~Fence(t, l)

\* There is a line j, and a paragraph can go on there.
GoesOn(t, lines, j) == j \in DOMAIN lines /\ Continues(t, lines[j])

-----------------------------------------------------------------------------
(***************************************************************************)
(* Scanning one definition, from the line i.                               *)
(***************************************************************************)
\* scanReferenceLabel, behind the opening bracket: the first bracket closes
\* it, and a colon follows at once.
DefinitionLabel(t, lines, i, p) ==
    LET q    == FirstOf(t, p, Len(t), {"[", "]"})
        line == LineAt(lines, q)
    IN IF q + 1 >= Len(t) THEN None
       ELSE IF /\ At(t, q) = "]" /\ At(t, q + 1) = ":"
               /\ \A j \in (i + 1)..line : GoesOn(t, lines, j)
               /\ FirstNotOf(t, p, q, Space) < q
       THEN [ok |-> TRUE, range |-> Span(p, q), line |-> line]
       ELSE None

\* referenceDestinationLine: behind the colon, or on the line below.
DestinationPlace(t, lines, i, p) ==
    LET b == FirstNotOf(t, p, lines[i].end, {" "})
    IN IF b < lines[i].end THEN [ok |-> TRUE, line |-> i, at |-> b]
       ELSE IF GoesOn(t, lines, i + 1)
       THEN [ok |-> TRUE, line |-> i + 1, at |-> Outset(t, lines[i + 1])]
       ELSE None

\* scanReferenceDestination.
DefinitionDestination(t, p, end) ==
    LET angle == At(t, p) = "<"
        q == IF angle THEN FirstOf(t, p + 1, end, {">", "<"}) ELSE FirstOf(t, p, end, {" "})
    IN IF angle
       THEN IF q < end /\ At(t, q) = ">" THEN Found(Span(p + 1, q), TRUE) ELSE None
       ELSE IF \A r \in p..(q - 1) : Depth(t, p, r + 1, "(", ")") >= 0
            THEN Found(Span(p, q), FALSE) ELSE None

\* scanReferenceTitle, at p on the line i: it may cross lines, blank ones not.
DefinitionTitle(t, lines, i, p) ==
    LET limit == Min({Len(t)} \cup {lines[j].start : j \in {k \in i..Len(lines) : Blank(t, lines[k])}})
        close == Closer(At(t, p))
        q     == FirstOf(t, p + 1, limit, {close} \cup {At(t, p)})
    IN IF At(t, p) \in Openers /\ q < limit /\ At(t, q) = close
       THEN LET line == LineAt(lines, q)
            IN [ok |-> TRUE, range |-> Span(p + 1, q), line |-> line,
                alone |-> FirstNotOf(t, q + 1, lines[line].end, {" "}) = lines[line].end]
       ELSE None

Definition(t, lines, i, label, d, title, last) ==
    [ok |-> TRUE, line |-> lines[i], last |-> last,
     label |-> label.range, dest |-> d.range, angle |-> d.angle, title |-> title,
     projectable |-> last = i /\ label.line = i]

\* scanReferenceDefinitionTitle.  A title on the line below that something
\* follows is the definition's, and its line stays with the text.
DefinitionEnd(t, lines, i, label, place, d) ==
    LET l == lines[place.line]
        b == FirstNotOf(t, d.next, l.end, {" "})
        below == place.line + 1
        title(j, p) == Once(DefinitionTitle(t, lines, j, p), LAMBDA x :
            IF x.ok /\ (x.alone \/ j = below)
            THEN Definition(t, lines, i, label, d, <<x.range>>,
                            IF x.alone THEN x.line ELSE place.line)
            ELSE IF j = below THEN Definition(t, lines, i, label, d, NoTitle, place.line)
            ELSE None)
    IN IF b < l.end THEN IF b > d.next THEN title(place.line, b) ELSE None
       ELSE IF below \in DOMAIN lines /\ ~Blank(t, lines[below])
            THEN title(below, Outset(t, lines[below]))
       ELSE Definition(t, lines, i, label, d, NoTitle, place.line)

\* scanReferenceDefinition.
ScanDefinition(t, lines, i) ==
    LET p == Outset(t, lines[i]) IN
    IF ~Ordinary(t, lines[i]) \/ At(t, p) # "[" THEN None
    ELSE Once(DefinitionLabel(t, lines, i, p + 1), LAMBDA label :
        IF ~label.ok THEN None
        ELSE Once(DestinationPlace(t, lines, label.line, label.range.end + 2), LAMBDA place :
            IF ~place.ok THEN None
            ELSE Once(DefinitionDestination(t, place.at, lines[place.line].end), LAMBDA d :
                IF ~d.ok THEN None
                ELSE DefinitionEnd(t, lines, i, label, place, d))))

-----------------------------------------------------------------------------
(***************************************************************************)
(* Blocks.  A definition starts where no paragraph is open.                *)
(***************************************************************************)
LastOf(lines, i, Stops(_)) ==
    Min({Len(lines)} \cup {j \in i..Len(lines) : Stops(j)})

BlockAt(t, lines, i) ==
    IF Blank(t, lines[i]) THEN [kind |-> "blank", last |-> i]
    ELSE IF Fence(t, lines[i])
    THEN [kind |-> "fence", last |-> LastOf(lines, i + 1, LAMBDA j : Closes(t, lines[j]))]
    ELSE Once(ScanDefinition(t, lines, i), LAMBDA d :
        IF d.ok THEN [kind |-> "definition", last |-> d.last, definition |-> d]
        ELSE [kind |-> "paragraph",
              last |-> LastOf(lines, i, LAMBDA j : ~GoesOn(t, lines, j + 1))])

\* parseBlockLines.
Blocks(t, lines) ==
    LET from[i \in 1..(Len(lines) + 1)] ==
            IF i > Len(lines) THEN << >>
            ELSE Once(BlockAt(t, lines, i), LAMBDA b :
                <<[b EXCEPT !.last = Span(lines[i].start, lines[b.last].end)]>>
                  \o from[b.last + 1])
    IN SelectSeq(from[1], LAMBDA b : b.kind # "blank")

-----------------------------------------------------------------------------
(***************************************************************************)
(* The document.  Every definition answers references, the first of a key  *)
(* for all of them.  Those on one line are nodes; a node or a link that    *)
(* its mapping proves part by part is editable.                            *)
(***************************************************************************)
Balanced(t, r) == Depth(t, r.start, r.end, "(", ")") = 0

IsNode(d) == d.projectable /\ d.dest.start < d.dest.end

Entry(t, d) == [key |-> Key(Part(t, d.label)), dest |-> Part(t, d.dest),
                title |-> TitlesOf(t, d.title), shown |-> IsNode(d)]

\* basicReferenceDefinitions.
Index(entries) ==
    [k \in {entries[i].key : i \in DOMAIN entries} |->
        entries[SelectInSeq(entries, LAMBDA e : e.key = k)]]

\* MapSingleLineReferenceDefinition.
Editable(t, d) ==
    /\ d.angle \/ Balanced(t, d.dest)
    /\ \A k \in DOMAIN d.title : d.title[k].end < d.line.end

\* projectCompositeObservations.
Simple(t, c) ==
    /\ c.label.start < c.label.end
    /\ \A p \in c.label.start..(c.label.end - 1) : At(t, p) \notin {"[", "]", "nl"}
    /\ c.image \/ c.form = "direct"

\* MapSimpleInlineLink, MapSimpleImage.
EditableLink(t, c) ==
    /\ Simple(t, c) /\ c.form = "direct"
    /\ c.tail.dest.start < c.tail.dest.end
    /\ c.tail.angle \/ Balanced(t, c.tail.dest)
    /\ LineEnd(t, c.start) >= c.end

\* Records at distinct places, in their order.
Ordered(t, S) ==
    LET places == SelectSeq([p \in 1..Len(t) |-> p - 1], LAMBDA p : \E c \in S : c.start = p)
    IN [k \in DOMAIN places |-> CHOOSE c \in S : c.start = places[k]]

Words(t, r) == [i \in 1..(r.end - r.start) |-> Word(At(t, r.start + i - 1))]

\* Parse.
Document(t) ==
    Once(Blocks(t, Lines(t)), LAMBDA blocks :
    LET of(kind) == SelectSeq(blocks, LAMBDA b : b.kind = kind)
        all      == [i \in DOMAIN of("definition") |-> of("definition")[i].definition]
        entries  == [i \in DOMAIN all |-> Entry(t, all[i])]
        pars     == of("paragraph")
    IN Once(Index(entries), LAMBDA defs :
       Once([i \in DOMAIN pars |-> Active(Composites(t, pars[i].last, defs))], LAMBDA active :
       Once([i \in DOMAIN pars |-> Unresolved(t, pars[i].last, active[i], defs)], LAMBDA open :
       LET links == UNION {active[i] : i \in DOMAIN active}
           read(i) == Reading(t, active[i] \cup {open[i][k] : k \in DOMAIN open[i]},
                              pars[i].last.start, pars[i].last.end)
           piece(b) ==
               [kind |-> b.kind,
                label |-> IF b.kind = "fence" THEN Words(t, b.last)
                          ELSE read(CHOOSE i \in DOMAIN pars : pars[i] = b)]
           shown == SelectSeq(blocks, LAMBDA b : b.kind # "definition")
       IN [source     |-> t,
           nodes      |-> SelectSeq(all, IsNode),
           blocks     |-> {[kind |-> b.kind, range |-> b.last] : b \in {shown[i] : i \in DOMAIN shown}},
           links      |-> {c \in links : Simple(t, c)},
           usages     |-> [i \in DOMAIN Ordered(t, links) |-> Usage(Ordered(t, links)[i])],
           unresolved |-> FlattenSeq(open),
           entries    |-> entries,
           prose      |-> [i \in DOMAIN shown |-> piece(shown[i])]]))))
=============================================================================
