----------------------------- MODULE BlockEdits -----------------------------
(***************************************************************************)
(* The edits of whole blocks in internal/splice: paragraphs, block quotes  *)
(* and the alerts written as quotes, fenced code and thematic breaks, at   *)
(* the top level.  Removals and insertions are kept when every other node  *)
(* of the snapshot is found again; a replacement looks for its own block.  *)
(***************************************************************************)
EXTENDS Editing
LOCAL INSTANCE SequencesExt
LOCAL INSTANCE FiniteSetsExt
LOCAL INSTANCE TLC

CONSTANTS
    Paragraphs,     \* what a caller inserts, or replaces a paragraph with
    QuotedLines,    \* the lines of a quote or of the body of an alert
    FenceContents,
    Infos

AlertMarkers == {<<"[!NOTE]">>, <<"[!TIP", "]">>}

-----------------------------------------------------------------------------
Quoted(t, m) == [k \in DOMAIN m.contents |-> Bytes(t, m.contents[k])]

\* blockquoteMappingAlertKind: a marker and a second line, which may be empty.
IsAlert(t, m) == Len(m.contents) >= 2 /\ Quoted(t, m)[1] \in AlertMarkers

\* uniformBlockquoteProfile, for the lines in owned.
Prefix(t, c) == Bytes(t, Span(LineStart(t, c.start), c.start))

Uniform(t, contents) ==
    /\ ">" \in ToSet(Prefix(t, contents[1]))
    /\ \A k \in DOMAIN contents : Prefix(t, contents[k]) = Prefix(t, contents[1])

Profile(t, owned, contents) ==
    LET trailing == Last(contents).end < owned.end IN
    [prefix |-> Prefix(t, contents[1]), trailing |-> trailing,
     eol |-> trailing \/ Len(contents) > 1]

\* buildQuotedReplacement.
QuoteAs(profile, lines) ==
    FlattenSeq([k \in DOMAIN lines |->
        profile.prefix \o lines[k]
        \o IF k < Len(lines) \/ profile.trailing THEN <<"nl">> ELSE << >>])

-----------------------------------------------------------------------------
(***************************************************************************)
(* MapFencedBlock.  The parser drops an info string of one character at    *)
(* the very end of a text, and such a block is not promoted.               *)
(***************************************************************************)
InfoDropped(t, l) ==
    l.end = l.next /\ l.end = l.head + l.fence + 1 /\ At(t, l.end - 1) # "sp"

FenceOf(t, l, body, close) ==
    LET closed == close <= Len(body) IN
    [range |-> Span(l.start, IF closed THEN body[close].next ELSE Len(t)),
     open |-> Span(l.head, l.head + l.fence), info |-> InfoRange(t, l),
     contents |-> [k \in 1..(close - 1) |-> Span(StripTo(body[k], l.columns), body[k].end)],
     close |-> IF closed THEN Span(body[close].head, body[close].head + body[close].closes)
               ELSE Span(Len(t), Len(t)),
     before |-> IF closed THEN body[close].columns ELSE 0, closed |-> closed]

MapFence(t, n) ==
    LET l == LineAt(t, n.anchor) IN
    IF InfoDropped(t, l) THEN << >>
    ELSE Once(LinesIn(t, l.next, Len(t)),
              LAMBDA body : <<FenceOf(t, l, body, FirstStop(body, 1, LAMBDA j : body[j].closes >= l.fence))>>)

-----------------------------------------------------------------------------
(***************************************************************************)
(* The nodes of a snapshot, and where patches take them.                   *)
(***************************************************************************)
NodesBare(d) ==          \* mutant: only what and where they are
    [k \in DOMAIN d.nodes |-> [kind |-> d.nodes[k].kind, range |-> d.nodes[k].range]]

Nodes(d) == d.kept

\* The candidate has the nodes of old, moved, and those in new: no two nodes
\* of a snapshot are the same.
OnlyThese(d, old, new, patches) ==
    /\ Len(d.nodes) = Len(old) + Cardinality(new)
    /\ ToSet(Nodes(d)) = {Moved(old[k], InOrder(patches)) : k \in DOMAIN old} \union new

-----------------------------------------------------------------------------
(***************************************************************************)
(* Removals: validateNodeSurvivorsAfterRemoval.                            *)
(***************************************************************************)
Overlaps(r, s) == r.start < s.end /\ s.start < r.end

RemoveBlock(owned) ==
    LET patches == <<Patch(owned, << >>)>>
        others == SelectSeq(Nodes(document), LAMBDA n : ~Overlaps(n.range, owned))
    IN \E d \in {Document(Candidate(patches))} :
       OnlyThese(d, others, {}, patches) /\ Apply(d)

\* paragraphPhysicalRange; paragraphRemovalRange takes a blank line along.
ParagraphLines(t, r) == Ended(t, Span(LineStart(t, r.start), r.end))

WithBlankLine(t, r) ==
    IF r.end < Len(t) /\ LineAt(t, r.end).blank THEN [r EXCEPT !.end = LineAt(t, r.end).next] ELSE r

RemoveParagraph(n)     == RemoveBlock(WithBlankLine(text, ParagraphLines(text, n.range)))
RemoveBlockquote(n)    == RemoveBlock(MapQuote(text, n).line)
RemoveThematicBreak(n) == RemoveBlock(Ended(text, LineRange(text, n.range.start)))

-----------------------------------------------------------------------------
(***************************************************************************)
(* Paragraphs.  Text that stands for a paragraph has to be one by itself;  *)
(* a replacement is not looked at in its place.                            *)
(***************************************************************************)
ParagraphAt(r) == [kind |-> "paragraph", range |-> r, top |-> TRUE]

OneParagraph(s) == ParseBlocks(s).nodes = <<ParagraphAt(Span(0, Len(s)))>>

ReplaceParagraph(n, content) ==
    /\ content # Bytes(text, n.range)
    /\ OneParagraph(content)
    /\ Apply(Document(Candidate(<<Patch(n.range, content)>>)))

InsertParagraph(n, content, after) ==
    LET owned == ParagraphLines(text, n.range)
        at == IF after THEN owned.end ELSE owned.start
        fragment == IF after THEN <<"nl">> \o content \o <<"nl">> ELSE content \o <<"nl", "nl">>
        start == IF after THEN at + 1 ELSE at
        patches == <<Patch(Span(at, at), fragment)>>
    IN /\ OneParagraph(content)
       /\ owned.end > n.range.end
       /\ \E d \in {Document(Candidate(patches))} :
             /\ OnlyThese(d, Nodes(document), {ParagraphAt(Span(start, start + Len(content)))},
                          patches)
             /\ Apply(d)

-----------------------------------------------------------------------------
(***************************************************************************)
(* Quotes and alerts.                                                      *)
(***************************************************************************)

\* candidateBlockquoteAt.
QuotesAt(d, p) ==
    {m \in {MapQuote(d.source, d.nodes[k]) : k \in {k \in DOMAIN d.nodes : d.nodes[k].kind = "quote"}} :
        m.line.start = p}

\* The lines from number k on are owned, replaced, and read back; those before
\* are as they were.  A quote that was no alert does not become one.
ReplaceLines(m, k, lines) ==
    LET contents == SubSeq(m.contents, k, Len(m.contents))
        owned == [m.line EXCEPT !.start = LineStart(text, contents[1].start)]
        profile == Profile(text, owned, contents)
        fragment == QuoteAs(profile, lines)
    IN /\ Last(lines) # << >>                       \* splitBlockquoteReplacement
       /\ Uniform(text, contents)
       /\ Len(lines) > 1 => profile.eol
       /\ fragment # Bytes(text, owned)
       /\ \E d \in {Document(Candidate(<<Patch(owned, fragment)>>))} :
          \E c \in QuotesAt(d, m.line.start) :
             LET new == SubSeq(c.contents, k, Len(c.contents)) IN
             /\ Len(c.contents) = k - 1 + Len(lines)
             /\ SubSeq(Quoted(d.source, c), k, Len(c.contents)) = lines
             /\ Uniform(d.source, new)
             /\ Profile(d.source, c.line, new) = profile
             /\ SubSeq(c.contents, 1, k - 1) = SubSeq(m.contents, 1, k - 1)
             /\ SubSeq(Quoted(d.source, c), 1, k - 1) = SubSeq(Quoted(text, m), 1, k - 1)
             /\ k = 1 => ~IsAlert(d.source, c)
             /\ Apply(d)

ReplaceBlockquoteContent(n, lines) ==
    LET m == MapQuote(text, n) IN
    /\ ~IsAlert(text, m)
    /\ ReplaceLines(m, 1, lines)

ReplaceAlertBody(n, lines) ==
    LET m == MapQuote(text, n) IN
    /\ IsAlert(text, m)
    /\ ReplaceLines(m, 2, lines)

SetAlertMarker(n, marker) ==
    LET m == MapQuote(text, n)
        patch == Patch(m.contents[1], marker)
    IN /\ IsAlert(text, m)
       /\ marker # Bytes(text, m.contents[1])
       /\ \E d \in {Document(Candidate(<<patch>>))} : \E c \in QuotesAt(d, m.line.start) :
             /\ c.line = [m.line EXCEPT !.end = @ + Delta(patch)]
             /\ Quoted(d.source, c) = [Quoted(text, m) EXCEPT ![1] = marker]
             /\ \A k \in 2..Len(m.contents) : c.contents[k] = Shifted(m.contents[k], Delta(patch))
             /\ Apply(d)

-----------------------------------------------------------------------------
(***************************************************************************)
(* Fenced code.                                                            *)
(***************************************************************************)
TopFences(d) == {k \in DOMAIN d.nodes : d.nodes[k].kind = "fence" /\ d.nodes[k].top}

\* sameFencedBlockEnvelope with what fencedBlockCandidateAt finds.
SameEnvelope(f, g, delta) ==
    /\ g.open = f.open /\ g.closed = f.closed /\ g.before = f.before
    /\ g.range = [f.range EXCEPT !.end = @ + delta]
    /\ g.close = Shifted(f.close, delta)

FencesAfter(d, f, delta) ==
    {g \in UNION {ToSet(MapFence(d.source, d.nodes[k])) : k \in TopFences(d)} : SameEnvelope(f, g, delta)}

SetFencedBlockInfo(f, info) ==
    LET patch == Patch(f.info, info) IN
    /\ info # Bytes(text, f.info)
    /\ \E d \in {Document(Candidate(<<patch>>))} : \E g \in FencesAfter(d, f, Delta(patch)) :
          /\ Bytes(d.source, g.info) = info
          /\ info # << >> => g.info.start = f.info.start
          /\ g.contents = [k \in DOMAIN f.contents |-> Shifted(f.contents[k], Delta(patch))]
          /\ Apply(d)

PopulateEmptyFencedBlock(f, content) ==
    LET at == f.close.start - f.before
        patch == Patch(Span(at, at), content \o <<"nl">>)
    IN /\ f.contents = << >> /\ f.closed
       /\ \E d \in {Document(Candidate(<<patch>>))} : \E g \in FencesAfter(d, f, Delta(patch)) :
             /\ g.contents # << >> /\ g.info = f.info
             /\ Apply(d)

ReplaceFencedCode(n, content) ==
    LET patch == Patch(n.range, content) IN
    /\ content # Bytes(text, n.range)
    /\ \E f \in ToSet(MapFencedCode(text, n.range)) : \E d \in {Document(Candidate(<<patch>>))} :
       \E k \in DOMAIN d.nodes :
          /\ d.nodes[k].kind = "fence"
          /\ MapFencedCode(d.source, d.nodes[k].range)
               = <<[f EXCEPT !.range.end = @ + Delta(patch), !.content.end = @ + Delta(patch)]>>
          /\ Apply(d)

-----------------------------------------------------------------------------
TopLevel(kind) ==
    {n \in ToSet(document.nodes) : n.kind = kind /\ (kind = "quote" \/ n.top)}

ParagraphEdits ==
    /\ edits < MaxEdits
    /\ \/ \E n \in TopLevel("paragraph") : RemoveParagraph(n)
       \/ \E n \in TopLevel("break") : RemoveThematicBreak(n)
       \/ \E n \in TopLevel("paragraph"), s \in Paragraphs :
             \/ ReplaceParagraph(n, s)
             \/ \E after \in BOOLEAN : InsertParagraph(n, s, after)

QuoteEdits ==
    /\ edits < MaxEdits
    /\ \E n \in TopLevel("quote") :
          \/ RemoveBlockquote(n)
          \/ \E s \in QuotedLines : ReplaceBlockquoteContent(n, s) \/ ReplaceAlertBody(n, s)
          \/ \E s \in AlertMarkers : SetAlertMarker(n, s)

FenceEdits ==
    /\ edits < MaxEdits
    /\ \E n \in TopLevel("fence") : \E f \in ToSet(MapFence(text, n)) :
          \/ \E s \in Infos : SetFencedBlockInfo(f, s)
          \/ \E s \in FenceContents :
                \/ ReplaceFencedCode(n, s)
                \/ MapFencedCode(text, n.range) = << >> /\ PopulateEmptyFencedBlock(f, s)

-----------------------------------------------------------------------------
OneAtATime == INSTANCE BlockSequence WITH blocks <- view.blocks

-----------------------------------------------------------------------------
(***************************************************************************)
(* The front-matter edits of internal/splice.  The parser reads the        *)
(* envelope as Markdown like the rest of the text, so a changed line of it *)
(* may reach into the body: a candidate is kept when the envelope is as    *)
(* expected and every node of the body is found again.                     *)
(***************************************************************************)
CONSTANTS
    Keys,           \* what a caller calls a field
    Values          \* what a caller gives it

front == document.front

ValidKey(key)     == key # << >> /\ \A k \in DOMAIN key : key[k] \in KeyBytes
ValidValue(value) == value # << >> /\ \A k \in DOMAIN value : value[k] \notin {"\"", "\\", "nl"}

-----------------------------------------------------------------------------
(***************************************************************************)
(* Candidates.                                                             *)
(***************************************************************************)
FieldMoved(x, q) ==
    [x EXCEPT !.range = RangeAfterPatches(@, q), !.key = RangeAfterPatches(@, q),
              !.value = RangeAfterPatches(@, q)]

FieldsMoved(fields, q) == [k \in DOMAIN fields |-> FieldMoved(fields[k], q)]

\* frontMatterCandidate and sameShiftedFrontMatterEnvelope.
FrontIs(d, m, fields, q) ==
    LET closing == RangeAfterPatches(m.closing, q) IN
    d.front = <<[m EXCEPT !.closing = closing, !.range = Span(0, closing.end), !.fields = fields]>>

BodyTrusted(d, patches) == TRUE         \* mutant: an envelope is no Markdown

\* frontMatterBodySurvives; fields are not among the nodes here.
BodySurvives(d, patches) == OnlyThese(d, Nodes(document), {}, patches)

Accept(m, patches, fields) ==
    \E d \in {Document(Candidate(patches))} :
        /\ FrontIs(d, m, fields, InOrder(patches))
        /\ BodySurvives(d, patches)
        /\ Apply(d)

-----------------------------------------------------------------------------
(***************************************************************************)
(* The operations.                                                         *)
(***************************************************************************)

\* CanonicalFrontMatterFieldLine, CanonicalEmptyFrontMatter.
FieldLine(f, key, value) ==
    key \o (IF f = "yaml" THEN <<":", "sp">> ELSE <<"sp", "=", "sp">>)
        \o <<"\"">> \o value \o <<"\"", "nl">>

EmptyEnvelope(f) == Envelope(f) \o <<"nl">> \o Envelope(f) \o <<"nl", "nl">>

RenameFrontMatterField(m, i, key) ==
    LET x == m.fields[i]
        patches == <<Patch(x.key, key)>>
        delta == Delta(patches[1])
        renamed == [x EXCEPT !.range.end = @ + delta, !.key.end = @ + delta, !.name = key,
                             !.value = RangeAfterPatches(@, patches)]
    IN /\ ValidKey(key)
       /\ \A k \in DOMAIN m.fields : m.fields[k].name # key
       /\ Accept(m, patches, [FieldsMoved(m.fields, patches) EXCEPT ![i] = renamed])

RemoveFrontMatterField(m, i) ==
    LET patches == <<Patch(Ended(text, m.fields[i].range), << >>)>>
    IN Accept(m, patches, FieldsMoved(RemoveAt(m.fields, i), patches))

AppendFrontMatterField(m, key, value) ==
    LET at == m.closing.start
        line == FieldLine(m.format, key, value)
        patches == <<Patch(Span(at, at), line)>>
        end == at + Len(line) - 1
        added == [range |-> Span(at, end), key |-> Span(at, at + Len(key)), name |-> key,
                  value |-> Span(end - 1 - Len(value), end - 1), style |-> "\""]
    IN /\ ValidKey(key) /\ ValidValue(value)
       /\ Accept(m, patches, Append(FieldsMoved(m.fields, patches), added))

AddFrontMatter(f) ==
    LET patches == <<Patch(Span(0, 0), EmptyEnvelope(f))>> IN
    /\ front = << >>
    /\ \E d \in {Document(Candidate(patches))} :
          /\ d.front # << >> /\ d.front[1].format = f /\ d.front[1].fields = << >>
          /\ BodySurvives(d, patches)
          /\ Apply(d)

\* With the blank line behind it.
RemoveFrontMatter(m) ==
    LET owned == WithBlankLine(text, Ended(text, m.range)) IN
    /\ MapLeadingFrontMatter(Candidate(<<Patch(owned, << >>)>>)) = << >>
    /\ RemoveBlock(owned)

\* The rest of the text is taken to be as it was.
ReplaceFrontMatterValue(m, i, value) ==
    LET x == m.fields[i]
        patch == Patch(x.value, value)
        replaced == [x EXCEPT !.range.end = @ + Delta(patch), !.value.end = @ + Delta(patch)]
    IN /\ value # << >> /\ value # Bytes(text, x.value)
       /\ \E d \in {Document(Candidate(<<patch>>))} :
             /\ d.front # << >> /\ d.front[1].format = m.format
             /\ d.front[1].closing = Shifted(m.closing, Delta(patch))
             /\ \E k \in DOMAIN d.front[1].fields : d.front[1].fields[k] = replaced
             /\ Apply(d)

EnvelopeEdits ==
    /\ edits < MaxEdits
    /\ \/ \E f \in Formats : AddFrontMatter(f)
       \/ \E k \in DOMAIN front : RemoveFrontMatter(front[k])

FieldEdits ==
    /\ edits < MaxEdits
    /\ \E k \in DOMAIN front :
          \/ \E key \in Keys, value \in Values : AppendFrontMatterField(front[k], key, value)
          \/ \E i \in DOMAIN front[k].fields :
                \/ RemoveFrontMatterField(front[k], i)
                \/ \E key \in Keys : RenameFrontMatterField(front[k], i, key)
                \/ \E value \in Values : ReplaceFrontMatterValue(front[k], i, value)

-----------------------------------------------------------------------------
OneEntry == INSTANCE Metadata
    WITH format <- view.meta.format, entries <- view.meta.entries,
         body <- view.meta.body
=============================================================================
