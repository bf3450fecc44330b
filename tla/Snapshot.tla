------------------------------ MODULE Snapshot ------------------------------
(***************************************************************************)
(* splice.Parse: the snapshot of a text that the structural edits prepare  *)
(* their changes against.  Of what the parser observes it promotes to      *)
(* nodes that can be edited what it finds again, byte for byte, in the     *)
(* source.  Before that, the front matter a text starts with.              *)
(***************************************************************************)
EXTENDS Blocks, Source
LOCAL INSTANCE SequencesExt
LOCAL INSTANCE FiniteSetsExt
LOCAL INSTANCE TLC

(***************************************************************************)
(* internal/source/frontmatter.go: the envelope of YAML or TOML at the     *)
(* start of a text, between two delimiter lines, and those of its lines    *)
(* that can be edited as a field, a key with a simple value.  Tabs and CR  *)
(* line ends are left out, as in Blocks.                                   *)
(***************************************************************************)
CONSTANT KeyBytes       \* letters, digits, "_", "-" and "."

Formats == {"yaml", "toml"}
Envelope(f)  == IF f = "yaml" THEN <<"-", "-", "-">> ELSE <<"+", "+", "+">>
Quotes       == {"'", "\""}
KeySign(f)   == IF f = "yaml" THEN ":" ELSE "="

LineStart(t, p) == CHOOSE q \in 0..p : /\ q = 0 \/ At(t, q - 1) = "nl"
                                       /\ \A r \in q..(p - 1) : At(t, r) # "nl"
LineEnd(t, p) == CHOOSE q \in p..Len(t) : /\ q = Len(t) \/ At(t, q) = "nl"
                                          /\ \A r \in p..(q - 1) : At(t, r) # "nl"

\* The line with the position p, and with its line ending.
LineRange(t, p) == Span(LineStart(t, p), LineEnd(t, p))
Ended(t, r)     == Span(r.start, Min({r.end + 1, Len(t)}))

\* The first position from p that passes a test, or the end.
Until(p, end, Test(_)) ==
    CHOOSE q \in p..end : (q = end \/ Test(q)) /\ \A r \in p..(q - 1) : ~Test(r)

-----------------------------------------------------------------------------
(***************************************************************************)
(* Values.                                                                 *)
(***************************************************************************)
OnlyComment(t, p, end) ==
    LET q == TrimStart(t, p, end) IN q = end \/ At(t, q) = "#"

\* scanMetadataQuotedValue: what is escaped depends on the quote.
ClosingQuote(t, f, quote, p, end) ==
    LET escape(i) ==
            /\ i + 1 < end
            /\ \/ quote = "\"" /\ At(t, i) = "\\"
               \/ f = "yaml" /\ quote = "'" /\ At(t, i) = "'" /\ At(t, i + 1) = "'"
        close[i \in p..end] ==
            IF i = end THEN end
            ELSE IF escape(i) THEN close[i + 2]
            ELSE IF At(t, i) = quote THEN i ELSE close[i + 1]
    IN close[p]

QuotedValue(t, f, p, end) ==
    LET q == ClosingQuote(t, f, At(t, p), p + 1, end) IN
    IF p + 1 < q /\ q < end /\ OnlyComment(t, q + 1, end) THEN <<Span(p + 1, q)>> ELSE << >>

\* scanTOMLBareScalar.
TomlValue(t, p, end) ==
    LET q == Until(p, end, LAMBDA r : At(t, r) \in {"sp", "#"}) IN
    IF Bytes(t, Span(p, q)) \in {<<"true">>, <<"false">>} /\ OnlyComment(t, q, end)
    THEN <<Span(p, q)>> ELSE << >>

\* scanYAMLPlainScalar.
SafePlain(t, r) ==
    /\ r.start < r.end
    /\ At(t, r.start) \notin {",", "#", "&", "*", "!", "|", ">", "'", "\"", "%", "@", "F"}
    /\ At(t, r.start) \in {"-", "?", ":"}
         => r.start + 1 < r.end /\ At(t, r.start + 1) # "sp"
    /\ \A p \in r.start..(r.end - 1) :
          /\ At(t, p) \notin {"[", "]", "{", "}"}
          /\ At(t, p) = ":" => p + 1 = r.end \/ At(t, p + 1) # "sp"

YamlValue(t, p, end) ==
    LET comment == Until(p, end, LAMBDA r : At(t, r) = "#" /\ r > p /\ At(t, r - 1) = "sp")
        r == Span(p, TrimEnd(t, p, comment))
    IN IF SafePlain(t, r) THEN <<r>> ELSE << >>

-----------------------------------------------------------------------------
(***************************************************************************)
(* Lines.  scanFrontMatterKeySeparator, for a line l of an envelope.       *)
(***************************************************************************)
KeySeparator(t, f, l) ==
    LET skip(p) == IF f = "toml" THEN TrimStart(t, p, l.end) ELSE p
        from == skip(l.start)
        key == RunEnd(t, from, l.end, KeyBytes)
        sign == skip(key)
    IN IF from < key /\ sign < l.end /\ At(t, sign) = KeySign(f)
       THEN <<[key |-> Span(from, key), after |-> sign + 1]>> ELSE << >>

\* mapFrontMatterField; the style of a value is the quote it starts with.
FieldTo(t, l, key, value, style) ==
    [k \in DOMAIN value |->
        [range |-> Span(l.start, l.end), key |-> key, name |-> Bytes(t, key),
         value |-> value[k], style |-> style]]

FieldAt(t, f, l, key, p) ==
    IF p = l.end THEN << >>
    ELSE IF At(t, p) \in Quotes THEN FieldTo(t, l, key, QuotedValue(t, f, p, l.end), At(t, p))
    ELSE FieldTo(t, l, key, IF f = "toml" THEN TomlValue(t, p, l.end) ELSE YamlValue(t, p, l.end),
                 "plain")

Field(t, f, l) ==
    LET s == KeySeparator(t, f, l) IN
    IF s = << >> THEN << >>
    ELSE FieldAt(t, f, l, s[1].key, TrimStart(t, s[1].after, l.end))

\* tomlTableHeaderCandidate.
TableHeader(t, f, l) ==
    LET from == TrimStart(t, l.start, l.end)
        to == TrimEnd(t, from, l.end)
    IN f = "toml" /\ \E n \in 1..2 :
          /\ from + 2 * n < to
          /\ \A p \in from..(from + n - 1) : At(t, p) = "["
          /\ \A p \in (from + n)..(to - n - 1) : At(t, p) \in KeyBytes
          /\ \A p \in (to - n)..(to - 1) : At(t, p) = "]"

(***************************************************************************)
(* collectFrontMatterFields: those before the first table, each with a key *)
(* no other one has.  An envelope that is not empty needs a line that      *)
(* could be metadata.                                                      *)
(***************************************************************************)
UniqueFields(found) ==
    SelectSeq(found, LAMBDA x : Cardinality({k \in DOMAIN found : found[k].name = x.name}) = 1)

Fields(t, f, lines) ==
    LET table == FirstStop(lines, 1, LAMBDA j : TableHeader(t, f, lines[j])) IN
    UniqueFields(FlattenSeq([k \in 1..(table - 1) |-> Field(t, f, lines[k])]))

Recognized(t, f, lines) ==
    lines = << >> \/ \E k \in DOMAIN lines : \/ TableHeader(t, f, lines[k])
                                             \/ KeySeparator(t, f, lines[k]) # << >>

\* MapLeadingFrontMatter: << >> for a text that has none.
EnvelopeTo(t, f, lines, close) ==
    LET inside == SubSeq(lines, 2, close - 1) IN
    IF close <= Len(lines) /\ Recognized(t, f, inside)
    THEN <<[format |-> f, range |-> Span(0, lines[close].end),
            opening |-> Span(0, lines[1].end),
            closing |-> Span(lines[close].start, lines[close].end),
            fields |-> Fields(t, f, inside)]>>
    ELSE << >>

MapLeadingFrontMatter(t) ==
    LET opening == {f \in Formats : IsPrefix(Append(Envelope(f), "nl"), t)}
        starts == Starts(t, 0, Len(t))
    IN IF opening = {} THEN << >>
       ELSE Once([k \in DOMAIN starts |-> LineRange(t, starts[k])],
                 LAMBDA lines : LET f == CHOOSE f \in opening : TRUE IN
                     EnvelopeTo(t, f, lines,
                                FirstStop(lines, 2, LAMBDA j : Bytes(t, lines[j]) = Envelope(f))))

-----------------------------------------------------------------------------
LineAt(t, p) ==
    LET l == LineRange(t, p) IN Line(t, l.start, l.start, l.end, Ended(t, l).end)

\* The lines that start from a up to b.
LinesIn(t, a, b) ==
    LET starts == Starts(t, a, b) IN [k \in DOMAIN starts |-> LineAt(t, starts[k])]

-----------------------------------------------------------------------------
(***************************************************************************)
(* MapSingleLineListItem: the marker has to stand right before the content *)
(* on its line.                                                            *)
(***************************************************************************)
MapListItem(t, n) ==
    LET from == LineStart(t, n.range.start)
        mark == TrimEnd(t, from, n.range.start)         \* listItemMarkerEnd
        digits == CHOOSE q \in from..(mark - 1) :
                     /\ q = from \/ At(t, q - 1) \notin Digits
                     /\ \A r \in q..(mark - 2) : At(t, r) \in Digits
        start == IF n.ordered THEN digits ELSE mark - 1
        end == LineEnd(t, n.range.end)
    IN IF /\ mark \in (from + 1)..(n.range.start - 1)
          /\ At(t, mark - 1) = n.marker
          /\ n.ordered => mark - 1 - digits \in 1..9
       THEN <<[line |-> Ended(t, Span(from, end)), range |-> Span(start, end),
               content |-> n.range, ordered |-> n.ordered, marker |-> n.marker,
               parent |-> n.parent, count |-> n.children]>>
       ELSE << >>

-----------------------------------------------------------------------------
(***************************************************************************)
(* MapTableRow: the cells of a line of the source with everything up to    *)
(* the pipes around them.  A pipe behind any backslash is not one here;    *)
(* for the parser two backslashes are an escaped backslash.                *)
(***************************************************************************)
SourcePipesRaw(t, l) ==                     \* mutant: an escaped pipe counts
    Positions(l.start, l.end - 1, LAMBDA p : At(t, p) = "|")

SourcePipes(t, l) ==
    Positions(l.start, l.end - 1,
              LAMBDA p : At(t, p) = "|" /\ ~(p > l.start /\ At(t, p - 1) = "\\"))

RowCells(t, bounds) ==
    [i \in 1..(Len(bounds) - 1) |->
        [range |-> Span(bounds[i] + 1, bounds[i + 1]),
         content |-> Trimmed(t, TrimStart(t, bounds[i] + 1, bounds[i + 1]), bounds[i + 1])]]

MapTableRow(t, p) ==
    LET l == LineRange(t, p)
        pipes == SourcePipes(t, l)
    IN [line |-> Ended(t, l), range |-> l,
        cells |-> IF pipes = << >> THEN << >> ELSE RowCells(t, Bounds(t, l.start, l.end, pipes))]

\* mapTableNodeSource; the range takes in the last row.
MapTable(t, n) ==
    LET header == MapTableRow(t, n.range.start)
        delimiter == MapTableRow(t, header.line.end)
        last == IF n.rows = 0 THEN delimiter.line ELSE Ended(t, LineRange(t, n.lastRow))
    IN IF /\ header.range.start = n.range.start
          /\ Len(header.cells) = n.columns /\ Len(delimiter.cells) = n.columns
          /\ \A k \in 1..n.columns :
                LET c == delimiter.cells[k].content IN
                DelimiterCell(t, c) /\ Alignment(t, c) = n.alignments[k]
       THEN <<[anchor |-> n.range.start, range |-> Span(n.range.start, last.end),
               columns |-> n.columns, rows |-> n.rows, alignments |-> n.alignments]>>
       ELSE << >>

\* mapTableRowNodeSource: a row needs a cell for every column of its table.
AlignmentsAt(nodes, anchor) ==
    LET k == CHOOSE k \in DOMAIN nodes : nodes[k].kind = "table" /\ nodes[k].range.start = anchor
    IN nodes[k].alignments

MapBodyRow(t, nodes, n) ==
    LET row == MapTableRow(t, n.range.start) IN
    IF Len(row.cells) = n.columns
    THEN <<[line |-> row.line, range |-> row.range, anchor |-> n.range.start,
            table |-> n.table, columns |-> n.columns, alignments |-> AlignmentsAt(nodes, n.table)]>>
    ELSE << >>

\* mapTableCellNodeSource: both have to mean the same content.
MapCell(t, n) ==
    LET cells == MapTableRow(t, n.row).cells IN
    IF n.column <= Len(cells) /\ cells[n.column].content = n.range
    THEN <<[range |-> cells[n.column].range, content |-> n.range, header |-> n.header,
            column |-> n.column, row |-> n.row, table |-> n.table]>>
    ELSE << >>

-----------------------------------------------------------------------------
(***************************************************************************)
(* MapTopLevelBlockquote: what a quote has on each of its lines, behind    *)
(* its marker, and the whole of a line that continues it lazily.           *)
(***************************************************************************)
QuoteOf(t, lines) ==
    [line |-> Span(lines[1].start, Last(lines).next),
     opener |-> Span(lines[1].head, lines[1].head + 1),
     contents |-> [k \in DOMAIN lines |->
                      Span(IF lines[k].quote THEN BehindMarker(t, lines[k]) ELSE lines[k].start,
                           lines[k].end)]]

MapQuote(t, n) ==
    Once(LinesIn(t, LineStart(t, n.range.start), n.last), LAMBDA lines : QuoteOf(t, lines))

-----------------------------------------------------------------------------
InfoRange(t, l) ==
    LET from == TrimStart(t, l.head + l.fence, l.end) IN Span(from, TrimEnd(t, from, l.end))

(***************************************************************************)
(* MapFencedCode: the content can be edited as one range when it is one    *)
(* line, or when the fence is not indented.                                *)
(***************************************************************************)
FencedCode(t, r, lines, last) ==        \* lines from the fence on; last is the content's
    LET open == lines[1]
        closed == last < Len(lines)
        close == lines[last + 1]
    IN IF /\ open.fence > 0
          /\ last > 2 => open.columns = 0 /\ r.start = lines[2].start
          /\ \A k \in 2..last : lines[k].closes < open.fence
          /\ closed => close.closes >= open.fence
       THEN <<[range |-> Span(open.start, IF closed THEN close.end ELSE Len(t)),
               content |-> r, info |-> InfoRange(t, open), fence |-> open.fence,
               columns |-> open.columns, closed |-> closed,
               closing |-> IF closed THEN <<close.closes, close.columns>> ELSE << >>]>>
       ELSE << >>

MapFencedCode(t, r) ==
    LET first == LineStart(t, r.start) IN
    IF r.start < r.end /\ r.end = LineEnd(t, r.end) /\ first > 0
    THEN Once(LinesIn(t, LineStart(t, first - 1), Len(t)),
              LAMBDA lines : FencedCode(t, r, lines,
                                        CHOOSE k \in DOMAIN lines : lines[k].end = r.end))
    ELSE << >>

-----------------------------------------------------------------------------
(***************************************************************************)
(* What a node is mapped to, << >> if it is not promoted, and the node     *)
(* with what of it a structural edit has to leave alone.                   *)
(***************************************************************************)
Mapped(t, nodes, n) ==
    CASE n.kind = "item"  -> MapListItem(t, n)
      [] n.kind = "table" -> MapTable(t, n)
      [] n.kind = "row"   -> MapBodyRow(t, nodes, n)
      [] n.kind = "cell"  -> MapCell(t, n)
      [] n.kind = "quote" -> <<MapQuote(t, n)>>
      [] n.kind = "fence" -> MapFencedCode(t, n.range)
      [] OTHER -> << >>

Kept(n, mapped) ==
    CASE n.kind = "quote" ->
           mapped[1] @@ [kind |-> "quote", range |-> n.range,
                         content |-> IF mapped[1].contents = <<n.content>> THEN n.content ELSE Span(0, 0)]
      [] n.kind = "fence" -> [kind |-> "fence", range |-> n.range, top |-> n.top,
                              editable |-> mapped # << >>]
      [] n.kind \in {"item", "table", "row", "cell"} -> n @@ [editable |-> mapped # << >>]
      [] OTHER -> n

\* What meets the front matter is dropped.
OutsideOf(envelope, nodes) ==
    IF envelope = << >> THEN nodes
    ELSE SelectSeq(nodes, LAMBDA n : n.range.start >= envelope[1].range.end \/ n.range.end <= 0)

\* tree is what the properties compare with; no edit looks at it.
DocumentOf(t, envelope, nodes, mapped, tree) ==
    LET promoted(kind) ==
            FlattenSeq([k \in DOMAIN nodes |-> IF nodes[k].kind = kind THEN mapped[k] ELSE << >>])
    IN [source |-> t, front |-> envelope, nodes |-> nodes, tree |-> tree,
        kept |-> [k \in DOMAIN nodes |-> Kept(nodes[k], mapped[k])],
        items |-> promoted("item"), tables |-> promoted("table"),
        rows |-> promoted("row"), cells |-> promoted("cell")]

DocumentIn(t, envelope, nodes, tree) ==
    Once([k \in DOMAIN nodes |-> Mapped(t, nodes, nodes[k])],
         LAMBDA mapped : DocumentOf(t, envelope, nodes, mapped, tree))

\* The parser reads the whole text; what meets the front matter is dropped.
Document(t) ==
    Once(<<MapLeadingFrontMatter(t), ParseBlocks(t)>>,
         LAMBDA p : DocumentIn(t, p[1], OutsideOf(p[1], p[2].nodes), p[2].tree))
=============================================================================
