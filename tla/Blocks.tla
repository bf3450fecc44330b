------------------------------- MODULE Blocks -------------------------------
(***************************************************************************)
(* The block parser of internal/parser/native: paragraphs, headings,       *)
(* thematic breaks, fences, indented code, block quotes, lists, tables and *)
(* reference definitions, with the lazy lines, nesting and separation that *)
(* decide where one ends.                                                  *)
(*                                                                         *)
(* A text is a sequence of one-column tokens: the marker characters, "sp", *)
(* "nl", "F" for a run of three fence characters, "def" for a reference    *)
(* definition that fills its line, and words.  Offsets count tokens from 0.*)
(* Left out: tabs and the virtual columns they need, CR line ends, HTML    *)
(* blocks, footnote definitions, task markers, "_" and "~" as a second     *)
(* spelling of "*" and of a fence.                                         *)
(***************************************************************************)
EXTENDS Integers, Sequences, FiniteSets
LOCAL INSTANCE SequencesExt
LOCAL INSTANCE FiniteSetsExt
LOCAL INSTANCE TLC

None == -1                              \* no anchor
Digits == {"1", "2"}

\* F of v.  TLC evaluates v once, the functions in it too: it compares them.
Once(v, F(_)) == CHOOSE r \in {F(x) : x \in {y \in {v} : y = y}} : TRUE

-----------------------------------------------------------------------------
(***************************************************************************)
(* Scanning in one line, from p up to its end.                             *)
(***************************************************************************)
At(t, p) == t[p + 1]
Span(a, b) == [start |-> a, end |-> b]

\* The positions from a to b, in order, that pass a test.
Positions(a, b, Test(_)) == SelectSeq([k \in 1..(b - a + 1) |-> a + k - 1], Test)

\* Where the lines from a up to b start.
Starts(t, a, b) == Positions(a, b - 1, LAMBDA p : p = 0 \/ At(t, p - 1) = "nl")

\* The end of the run of tokens in S from p, and its start up to p.
RunEnd(t, p, end, S) ==
    CHOOSE q \in p..end : /\ q = end \/ At(t, q) \notin S
                          /\ \A r \in p..(q - 1) : At(t, r) \in S
RunStart(t, from, p, S) ==
    CHOOSE q \in from..p : /\ q = from \/ At(t, q - 1) \notin S
                           /\ \A r \in q..(p - 1) : At(t, r) \in S

TrimStart(t, p, end) == RunEnd(t, p, end, {"sp"})
TrimEnd(t, from, p)  == RunStart(t, from, p, {"sp"})

\* atxContentEnd: a closing run of "#" goes only behind a space.
ClosedAt(t, from, hashes, last) ==
    IF hashes < last /\ (hashes = from \/ At(t, hashes - 1) = "sp")
    THEN TrimEnd(t, from, hashes) ELSE last

AtxContent(t, from, last) ==
    Span(from, ClosedAt(t, from, RunStart(t, from, last, {"#"}), last))

AtxRange(t, p, end) == AtxContent(t, TrimStart(t, p, end), TrimEnd(t, p, end))

(***************************************************************************)
(* parseListMarker, at the head h of a line indented by indent columns.    *)
(* More than four columns of padding, and a marker with nothing behind it, *)
(* put the content one column behind the marker.                           *)
(***************************************************************************)
NoMarker == [ok |-> FALSE]

MarkerTo(t, h, q, end, indent, text) ==       \* q is the last token of the marker
    LET fallback == text = end \/ text - q > 5 IN
    [ok |-> TRUE, ordered |-> q > h, marker |-> At(t, q),
     one |-> SubSeq(t, h + 1, q) = <<"1">>, blank |-> text = end,
     start |-> IF text # end /\ fallback THEN q + 2 ELSE text,
     indent |-> indent + IF fallback THEN q + 2 - h ELSE text - h]

MarkerAt(t, h, q, end, indent) ==
    IF \/ q = end \/ q - h > 9
       \/ At(t, q) \notin (IF q > h THEN {".", ")"} ELSE {"-", "+", "*"})
       \/ q + 1 < end /\ At(t, q + 1) # "sp"
    THEN NoMarker
    ELSE MarkerTo(t, h, q, end, indent, TrimStart(t, q + 1, end))

ListMarker(t, h, end, indent) == MarkerAt(t, h, RunEnd(t, h, end, Digits), end, indent)

Compatible(m, n) == m.ordered = n.ordered /\ m.marker = n.marker

(***************************************************************************)
(* The cells of a table row are what lies between its bounds: its pipes,   *)
(* and the ends of the line unless an outer pipe stands there.             *)
(***************************************************************************)
Bounds(t, start, end, pipes) ==
    IF pipes = << >> THEN <<start - 1, end>>
    ELSE (IF TrimStart(t, start, end) = pipes[1] THEN << >> ELSE <<start - 1>>)
         \o pipes
         \o (IF TrimEnd(t, start, end) = pipes[Len(pipes)] + 1 THEN << >> ELSE <<end>>)

Trimmed(t, from, b) == Span(from, TrimEnd(t, from, b))
Cells(t, bounds) ==
    [i \in 1..(Len(bounds) - 1) |->
        Trimmed(t, TrimStart(t, bounds[i] + 1, bounds[i + 1]), bounds[i + 1])]

\* tablePipePositions: an odd number of backslashes escapes a pipe.
Pipes(t, start, end) ==
    Positions(start, end - 1,
              LAMBDA p : /\ At(t, p) = "|"
                         /\ (p - RunStart(t, start, p, {"\\"})) % 2 = 0)

Row(t, start, end) == Cells(t, Bounds(t, start, end, Pipes(t, start, end)))

\* tableDelimiterAlignment: ":---:" with either colon optional.
DelimiterCell(t, c) ==
    LET from == RunEnd(t, c.start, Min({c.start + 1, c.end}), {":"})
        to == RunStart(t, Max({from, c.end - 1}), c.end, {":"})
    IN from < to /\ RunEnd(t, from, to, {"-"}) = to

Alignment(t, c) == <<At(t, c.start) = ":", At(t, c.end - 1) = ":">>

-----------------------------------------------------------------------------
(***************************************************************************)
(* lines.go.  A line keeps where it starts in the text (physical), where   *)
(* its content starts inside the containers around it (start), where its   *)
(* first character that is not a space is (head), and what it could open   *)
(* there.                                                                  *)
(***************************************************************************)
ThematicAt(t, head, end, first) ==
    /\ first \in {"*", "-"}
    /\ RunEnd(t, head, end, {first, "sp"}) = end
    /\ Len(Positions(head, end - 1, LAMBDA p : At(t, p) = first)) >= 3

AtxAt(t, head, end, hashes) ==
    IF hashes - head \in 1..6 /\ (hashes = end \/ At(t, hashes) = "sp")
    THEN hashes - head ELSE 0

SetextAt(t, head, end, first) ==
    IF first \in {"=", "-"} /\ TrimStart(t, RunEnd(t, head, end, {first}), end) = end
    THEN (IF first = "=" THEN 1 ELSE 2) ELSE 0

\* What the content of a line opens, all but a fourth column of indentation.
Opens(t, head, end, columns, first, fence) ==
    [quote |-> first = ">", definition |-> first = "def",
     atx |-> AtxAt(t, head, end, RunEnd(t, head, end, {"#"})),
     setext |-> SetextAt(t, head, end, first),
     thematic |-> ThematicAt(t, head, end, first),
     fence |-> IF \A r \in fence..(end - 1) : At(t, r) # "F" THEN fence - head ELSE 0,
     closes |-> IF TrimStart(t, fence, end) = end THEN fence - head ELSE 0,
     marker |-> ListMarker(t, head, end, columns)]

OpensNothing ==
    [quote |-> FALSE, definition |-> FALSE, atx |-> 0, setext |-> 0, thematic |-> FALSE,
     fence |-> 0, closes |-> 0, marker |-> NoMarker]

LineFrom(t, physical, start, end, next, head) ==
    [physical |-> physical, start |-> start, end |-> end, next |-> next, head |-> head,
     columns |-> head - start, blank |-> head = end,
     row |-> Row(t, start, end), pipe |-> Pipes(t, start, end) # << >>]
    @@ IF head < end /\ head - start <= 3
       THEN Opens(t, head, end, head - start, At(t, head), RunEnd(t, head, end, {"F"}))
       ELSE OpensNothing

Line(t, physical, start, end, next) ==
    LineFrom(t, physical, start, end, next, TrimStart(t, start, end))

PhysicalLines(t) ==
    LET starts == Starts(t, 0, Len(t))
        line(i) ==
            LET next == IF i = Len(starts) THEN Len(t) ELSE starts[i + 1] IN
            Line(t, starts[i], starts[i],
                 IF At(t, next - 1) = "nl" THEN next - 1 ELSE next, next)
    IN [i \in DOMAIN starts |-> line(i)]

\* advancePhysicalLineStart; stripIndentColumns; blockquoteContentLine.
From(t, l, p)  == Line(t, l.physical, p, l.end, l.next)
StripTo(l, n)  == Min({l.start + n, l.head})
Strip(t, l, n) == From(t, l, StripTo(l, n))
BehindMarker(t, l) ==
    IF l.head + 1 < l.end /\ At(t, l.head + 1) = "sp" THEN l.head + 2 ELSE l.head + 1
Unquoted(t, l) == From(t, l, BehindMarker(t, l))

Ordinary(l) == l.columns <= 3
Indented(l) == ~l.blank /\ l.columns > 3
Item(l)     == l.marker.ok /\ ~l.thematic

\* Whether the start of the line was consumed by a container.
Contained(l) == l.start # l.physical
SameContainer(l, m) == Contained(l) = Contained(m)

\* listInterruptsParagraph and interruptsParagraph.
Interrupts(l) ==
    \/ l.atx > 0 \/ l.fence > 0 \/ l.thematic
    \/ Item(l) /\ ~l.marker.blank /\ (l.marker.ordered => l.marker.one)

\* lazyParagraphContinuation, and strictContainerLazyParagraphLine.
Lazy(l)       == ~l.blank /\ ~l.quote /\ ~Interrupts(l)
StrictLazy(l) == Lazy(l) /\ ~l.marker.ok

-----------------------------------------------------------------------------
(***************************************************************************)
(* tables.go.                                                              *)
(***************************************************************************)
TableOpens(t, lines, i) ==
    /\ i < Len(lines)
    /\ LET header == lines[i]
           delimiter == lines[i + 1]
       IN /\ Ordinary(header) /\ Ordinary(delimiter)
          /\ SameContainer(header, delimiter)
          /\ ~Interrupts(delimiter) /\ ~delimiter.quote
          /\ header.pipe \/ delimiter.pipe
          /\ Len(header.row) = Len(delimiter.row) /\ header.row # << >>
          /\ \A k \in DOMAIN delimiter.row : DelimiterCell(t, delimiter.row[k])

TableBody(header, l) ==
    /\ Lazy(l) /\ l.row # << >>
    /\ SameContainer(header, l) \/ (Contained(header) /\ ~Contained(l))

\* parseTable: its nodes are the table, the cells of the header, then every
\* row followed by its cells; an empty cell gives none.
CellNodes(header, l, isHeader) ==
    LET columns == Len(header.row)
        filled == Positions(1, Min({Len(l.row), columns}),
                            LAMBDA k : l.row[k].start < l.row[k].end)
    IN [k \in DOMAIN filled |->
          [kind |-> "cell", range |-> l.row[filled[k]], header |-> isHeader,
           column |-> filled[k], row |-> l.start, table |-> header.start,
           columns |-> columns]]

RowNodes(header, l) ==
    <<[kind |-> "row", range |-> Span(l.start, l.end), table |-> header.start,
       columns |-> Len(header.row)]>> \o CellNodes(header, l, FALSE)

TableTo(t, lines, i, next) ==
    LET header == lines[i]
        rows == next - i - 2
    IN <<[kind |-> "table", range |-> Span(header.start, header.end),
          columns |-> Len(header.row), rows |-> rows,
          alignments |-> [k \in DOMAIN header.row |-> Alignment(t, lines[i + 1].row[k])],
          lastRow |-> IF rows = 0 THEN None ELSE lines[next - 1].start]>>
       \o CellNodes(header, header, TRUE)
       \o FlattenSeq([k \in 1..rows |-> RowNodes(header, lines[i + 1 + k])])

-----------------------------------------------------------------------------
(***************************************************************************)
(* Blocks.  Parse gives the nodes of a run of lines, its roots as the code *)
(* records them, and beside them the tree of containers the nodes came     *)
(* from, which the code does not keep: the reference for what it derives   *)
(* from anchors.                                                           *)
(***************************************************************************)
RootOf(kind, at, lines, node, range) ==
    [kind |-> kind, at |-> at, lines |-> lines, node |-> node, range |-> range,
     items |-> 0, list |-> None]
OtherRoot(at) == RootOf("other", at, 0, 0, Span(0, 0))

TreeOf(kind, at, sub) == [kind |-> kind, at |-> at, sub |-> sub]

Block(next, nodes, root, leaf, tree) ==
    [next |-> next, nodes |-> nodes, root |-> root, leaf |-> leaf,
     blankAfter |-> FALSE, reference |-> FALSE, tree |-> tree]

\* The first line from a on that ends a block, or the one behind the last.
FirstStop(lines, a, Stops(_)) ==
    CHOOSE j \in a..(Len(lines) + 1) :
        /\ j > Len(lines) \/ Stops(j)
        /\ \A k \in a..(j - 1) : ~Stops(k)

Nothing == [i |-> 1, blank |-> FALSE, open |-> FALSE, leaf |-> FALSE,
            nodes |-> << >>, roots |-> << >>, tree |-> << >>, blankBetween |-> FALSE]

\* parseParagraphOrSetext and appendParagraphBlock.
Underline(t, lines, i, j) ==
    /\ lines[j].setext # 0 /\ SameContainer(lines[i], lines[j])
    /\ ~lines[j].blank /\ ~TableOpens(t, lines, j)

ParagraphStops(t, lines, i, j) ==
    ~Lazy(lines[j]) \/ TableOpens(t, lines, j) \/ Underline(t, lines, i, j)

SetextTo(t, lines, i, top, next) ==
    Block(next + 1,
          IF top THEN <<[kind |-> "heading", level |-> lines[next].setext,
                         range |-> Span(lines[i].head, TrimEnd(t, lines[next - 1].start,
                                                                  lines[next - 1].end))]>>
          ELSE << >>,
          OtherRoot(lines[i].physical), FALSE, TreeOf("heading", lines[i].physical, << >>))

ParagraphTo(lines, i, top, count, next) ==
    LET range == Span(lines[i].head, lines[next - 1].end)
        at == lines[i].physical
    IN Block(next, <<[kind |-> "paragraph", range |-> range, top |-> top]>>,
             RootOf("paragraph", at, next - i, count + 1, range), TRUE,
             TreeOf("paragraph", at, << >>))

Paragraph(t, lines, i, top, count) ==
    Once(FirstStop(lines, i + 1, LAMBDA j : ParagraphStops(t, lines, i, j)),
         LAMBDA next : IF next <= Len(lines) /\ Underline(t, lines, i, next)
                       THEN SetextTo(t, lines, i, top, next)
                       ELSE ParagraphTo(lines, i, top, count, next))

AtxBlock(t, lines, i, top) ==
    LET range == AtxRange(t, lines[i].head + lines[i].atx, lines[i].end) IN
    Block(i + 1,
          IF top /\ range.start # range.end
          THEN <<[kind |-> "heading", level |-> lines[i].atx, range |-> range]>>
          ELSE << >>,
          OtherRoot(lines[i].physical), FALSE,
          TreeOf("heading", lines[i].physical, << >>))

IndentedBlock(lines, i) ==
    Block(FirstStop(lines, i + 1, LAMBDA j : ~lines[j].blank /\ ~Indented(lines[j])),
          << >>, OtherRoot(lines[i].physical), FALSE,
          TreeOf("code", lines[i].physical, << >>))

\* A fence, a quote and a break leave no line anchor.
FenceTo(lines, i, top, close) ==
    LET l == lines[i]
        range == IF close = i + 1 THEN Span(l.head, l.head)
                 ELSE Span(StripTo(lines[i + 1], l.columns), lines[close - 1].end)
    IN Block(Min({close, Len(lines)}) + 1,
             <<[kind |-> "fence", range |-> range, anchor |-> l.head, top |-> top]>>,
             OtherRoot(None), FALSE, TreeOf("fence", l.physical, << >>))

FenceBlock(lines, i, top) ==
    Once(FirstStop(lines, i + 1, LAMBDA j : lines[j].closes >= lines[i].fence),
         LAMBDA close : FenceTo(lines, i, top, close))

ThematicBlock(lines, i, top) ==
    Block(i + 1, <<[kind |-> "break", range |-> Span(lines[i].head, lines[i].end),
                    top |-> top]>>,
          OtherRoot(None), FALSE, TreeOf("break", lines[i].physical, << >>))

ReferenceBlock(lines, i) ==
    LET l == lines[i] IN
    [Block(i + 1, <<[kind |-> "reference", range |-> Span(l.head, l.end)]>>,
           RootOf("reference", l.physical, 0, 0, Span(0, 0)), TRUE,
           TreeOf("reference", l.physical, << >>))
       EXCEPT !.reference = TRUE]

TableBlock(t, lines, i) ==
    Once(FirstStop(lines, i + 2, LAMBDA j : ~TableBody(lines[i], lines[j])),
         LAMBDA next : Block(next, TableTo(t, lines, i, next),
                             OtherRoot(lines[i].physical), TRUE,
                             TreeOf("table", lines[i].physical, << >>)))

-----------------------------------------------------------------------------
(***************************************************************************)
(* lists.go.  An item gathers its lines one at a time: pending are blank   *)
(* lines not yet known to be inside, content says that something other     *)
(* than a blank came, tailEmpty that the last line opens an empty item of  *)
(* a nested list.                                                          *)
(***************************************************************************)
RECURSIVE ParseFrom(_, _, _, _), CollectItem(_, _, _, _), Items(_, _, _, _), QuoteLines(_, _, _)

Parse(t, lines, top) ==
    Once(lines, LAMBDA ls : ParseFrom(t, ls, top, Nothing))

EmptyItemLine(l) == Item(l) /\ l.marker.blank

NewItem(t, lines, i) ==
    LET marker == lines[i].marker
        first == From(t, lines[i], marker.start)
    IN
    [marker |-> marker, lines |-> <<first>>, pending |-> << >>, next |-> i + 1,
     stopped |-> FALSE, separated |-> FALSE, trailing |-> FALSE,
     content |-> ~first.blank, tailEmpty |-> EmptyItemLine(first)]

\* consumeIndented, when it goes on: the blanks before the line are inside.
Consumed(t, c, l) ==
    LET inner == Strip(t, l, c.marker.indent) IN
    [c EXCEPT !.lines = @ \o c.pending \o <<inner>>, !.pending = << >>,
              !.content = TRUE, !.tailEmpty = EmptyItemLine(inner)]

\* emptyNestedListRejectsBlankContinuation, behind blank lines only.
RejectsContinuation(c, l) ==
    /\ c.pending # << >>
    /\ \/ ~c.content
       \/ c.tailEmpty /\ l.columns < 4 /\ ~Item(l)

\* markSeparatedEmptySibling.
Separated(c, l, style) ==
    IF c.content THEN c
    ELSE [c EXCEPT !.separated = Item(l) /\ Compatible(style, l.marker)]

\* stopsAtSibling.
AtSibling(c, l, style) ==
    LET sibling == Compatible(style, l.marker) IN
    IF c.pending = << >> THEN c
    ELSE [c EXCEPT !.separated = sibling, !.trailing = ~sibling]

Lazily(c, l) == [c EXCEPT !.lines = Append(@, l), !.content = TRUE, !.tailEmpty = FALSE]

Stopped(c) ==
    [c EXCEPT !.stopped = TRUE, !.trailing = @ \/ (c.content /\ c.pending # << >>)]

\* collectListItem's loop body at line l.
ItemLine(t, c, l, style) ==
    IF l.blank THEN [c EXCEPT !.pending = Append(@, l)]
    ELSE IF l.columns >= c.marker.indent
    THEN IF RejectsContinuation(c, l) THEN Stopped(Separated(c, l, style))
         ELSE Consumed(t, c, l)
    ELSE IF Item(l) THEN Stopped(AtSibling(c, l, style))
    ELSE IF c.pending # << >> THEN Stopped([c EXCEPT !.trailing = TRUE])
    ELSE IF Lazy(l) /\ Parse(t, c.lines, FALSE).leaf THEN Lazily(c, l)
    ELSE Stopped(c)

CollectItem(t, lines, style, c) ==
    IF c.next > Len(lines) THEN Stopped(c)
    ELSE Once(ItemLine(t, c, lines[c.next], style),
              LAMBDA d : IF d.stopped THEN d
                         ELSE CollectItem(t, lines, style, [d EXCEPT !.next = @ + 1]))

\* collectList: items as long as their markers go with the first.
Items(t, lines, style, found) ==
    LET i == found.next IN
    IF /\ i <= Len(lines) /\ Item(lines[i])
       /\ Compatible(style, lines[i].marker)
    THEN Once(CollectItem(t, lines, style, NewItem(t, lines, i)),
              LAMBDA c : Items(t, lines, style,
                               [items |-> Append(found.items, c), next |-> c.next]))
    ELSE found

FirstDirectLineAnchor(roots) ==
    LET anchored == SelectSeq(roots, LAMBDA r : r.at # None)
    IN IF anchored = << >> THEN None ELSE anchored[1].at

\* A paragraph behind a definition at the head of its text.
ReferenceResidual(roots) ==
    \E k \in 2..Len(roots) :
        roots[k].kind = "paragraph" /\ roots[k - 1].kind = "reference"

\* A tight list keeps its own paragraphs to itself.
SuppressParagraphs(child) ==
    LET own == {child.roots[k].node : k \in {k \in DOMAIN child.roots :
                                                child.roots[k].kind = "paragraph"}}
        kept == SelectSeq([k \in DOMAIN child.nodes |-> k], LAMBDA k : k \notin own)
    IN [k \in DOMAIN kept |-> child.nodes[kept[k]]]

AttachAnyListParents(nodes, roots) ==       \* mutant: every list, not the direct ones
    LET parent == FirstDirectLineAnchor(roots) IN
    [k \in DOMAIN nodes |->
        IF parent # None /\ nodes[k].kind = "item" /\ nodes[k].parent = None
        THEN [nodes[k] EXCEPT !.parent = parent] ELSE nodes[k]]

AttachDirectListParents(nodes, roots) ==
    LET parent == FirstDirectLineAnchor(roots)
        lists == {roots[k].list : k \in {k \in DOMAIN roots : roots[k].kind = "list"}}
    IN [k \in DOMAIN nodes |->
           IF parent # None /\ nodes[k].kind = "item" /\ nodes[k].list \in lists
           THEN [nodes[k] EXCEPT !.parent = parent] ELSE nodes[k]]

(***************************************************************************)
(* listItemObservation: an item is promoted to a node when its text is one *)
(* line with nothing but lists below.                                      *)
(***************************************************************************)
ItemNode(marker, roots, container) ==
    IF /\ container # None /\ roots # << >>
       /\ roots[1].kind = "paragraph" /\ roots[1].lines = 1
       /\ \A k \in 2..Len(roots) : roots[k].kind = "list"
    THEN <<[kind |-> "item", range |-> roots[1].range, ordered |-> marker.ordered,
            marker |-> marker.marker, list |-> container, parent |-> None,
            children |-> FoldLeft(LAMBDA n, r : n + r.items, 0, Tail(roots))]>>
    ELSE << >>

\* parseListItems and assembleList.
Assembled(t, lines, i, items, child) ==
    LET loose == \E k \in DOMAIN items :
                    \/ child[k].blankBetween \/ items[k].separated
                    \/ ReferenceResidual(child[k].roots)
        container == FirstDirectLineAnchor(child[1].roots)
        nodes(k) ==
            ItemNode(items[k].marker, child[k].roots, container)
            \o AttachDirectListParents(
                  IF loose THEN child[k].nodes ELSE SuppressParagraphs(child[k]),
                  child[k].roots)
        last == Len(items)
    IN [Block(items[last].next, FlattenSeq([k \in DOMAIN items |-> nodes(k)]),
              [OtherRoot(None) EXCEPT !.kind = "list", !.items = last, !.list = container],
              child[last].leaf /\ ~items[last].trailing,
              TreeOf("list", lines[i].physical,
                     [k \in DOMAIN items |->
                         TreeOf("item", items[k].lines[1].physical, child[k].tree)]))
          EXCEPT !.blankAfter = items[last].trailing]

ListBlock(t, lines, i) ==
    Once(Items(t, lines, lines[i].marker, [items |-> << >>, next |-> i]).items,
         LAMBDA items :
            Once([k \in DOMAIN items |-> Parse(t, items[k].lines, FALSE)],
                 LAMBDA child : Assembled(t, lines, i, items, child)))

-----------------------------------------------------------------------------
(***************************************************************************)
(* parseBlockquote: whether the quote may go on without its marker is      *)
(* asked once, at the first line without one, and kept until a marked line *)
(* comes; known is lazyKnown.                                              *)
(***************************************************************************)
QuoteLine(t, q, l) ==
    IF l.quote
    THEN [q EXCEPT !.content = Append(@, Unquoted(t, l)), !.known = FALSE]
    ELSE IF (q.known \/ Parse(t, q.content, FALSE).leaf) /\ StrictLazy(l)
    THEN [q EXCEPT !.content = Append(@, l), !.known = TRUE]
    ELSE [q EXCEPT !.stopped = TRUE]

QuoteLines(t, lines, q) ==
    IF q.next > Len(lines) THEN q
    ELSE Once(QuoteLine(t, q, lines[q.next]),
              LAMBDA p : IF p.stopped THEN p
                         ELSE QuoteLines(t, lines, [p EXCEPT !.next = @ + 1]))

Quote(t, lines, i) ==
    QuoteLines(t, lines, [next |-> i, content |-> << >>, known |-> FALSE, stopped |-> FALSE])

\* simpleBlockquoteParagraph: only such a quote is editable as one line.
Simple(child) ==
    /\ Len(child.nodes) = 1 /\ child.nodes[1].kind = "paragraph"
    /\ Len(child.roots) = 1 /\ child.roots[1].kind = "paragraph"
    /\ child.roots[1].lines = 1

Quoting(t, lines, i, top, quote, child) ==
    LET node == [kind |-> "quote", range |-> Span(lines[i].head, lines[i].end),
                 content |-> IF Simple(child) THEN child.nodes[1].range ELSE Span(0, 0),
                 last |-> lines[quote.next - 1].next]
    IN Block(quote.next, (IF top THEN <<node>> ELSE << >>) \o child.nodes,
             OtherRoot(None), child.leaf,
             TreeOf("quote", lines[i].physical, child.tree))

QuoteBlock(t, lines, i, top) ==
    Once(Quote(t, lines, i),
         LAMBDA quote : Once(Parse(t, quote.content, FALSE),
                             LAMBDA child : Quoting(t, lines, i, top, quote, child)))

-----------------------------------------------------------------------------
(***************************************************************************)
(* parseBlockLines.  A definition leaves a paragraph open behind it: the   *)
(* next line that could continue one is its text.                          *)
(***************************************************************************)
Continues(l) == Lazy(l) /\ l.setext = 0 /\ ~l.definition

NextBlock(t, lines, i, top, open, count) ==
    LET l == lines[i] IN
    CASE open /\ Continues(l) -> Paragraph(t, lines, i, top, count)
      [] ~(open /\ Continues(l)) ->
           IF l.quote THEN QuoteBlock(t, lines, i, top)
           ELSE IF Indented(l) THEN IndentedBlock(lines, i)
           ELSE IF l.fence > 0 THEN FenceBlock(lines, i, top)
           ELSE IF l.definition THEN ReferenceBlock(lines, i)
           ELSE IF l.atx > 0 THEN AtxBlock(t, lines, i, top)
           ELSE IF Item(l) THEN ListBlock(t, lines, i)
           ELSE IF l.thematic THEN ThematicBlock(lines, i, top)
           ELSE IF TableOpens(t, lines, i) THEN TableBlock(t, lines, i)
           ELSE Paragraph(t, lines, i, top, count)

Blanked(r) == [r EXCEPT !.i = @ + 1, !.blank = r.roots # << >>, !.open = FALSE, !.leaf = FALSE]

Joined(r, b) ==
    [i |-> b.next, blank |-> b.blankAfter, open |-> b.reference, leaf |-> b.leaf,
     nodes |-> r.nodes \o b.nodes, roots |-> Append(r.roots, b.root),
     tree |-> Append(r.tree, b.tree),
     blankBetween |-> r.blankBetween \/ (r.blank /\ r.roots # << >>)]

ParseFrom(t, lines, top, r) ==
    IF r.i > Len(lines) THEN r
    ELSE Once(IF lines[r.i].blank THEN Blanked(r)
              ELSE Once(NextBlock(t, lines, r.i, top, r.open, Len(r.nodes)),
                        LAMBDA b : Joined(r, b)),
              LAMBDA s : ParseFrom(t, lines, top, s))

ParseBlocks(t) == Parse(t, PhysicalLines(t), TRUE)
=============================================================================
