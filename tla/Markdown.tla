------------------------------ MODULE Markdown ------------------------------
(***************************************************************************)
(* The block structure the section edits depend on: ATX and Setext         *)
(* headings, paragraphs, list items, fenced code, thematic breaks,         *)
(* reference definitions and blank lines; the sections derived from the    *)
(* headings; and the links.                                                *)
(*                                                                         *)
(* A text is a sequence of tokens.  "nl" ends a line; a member of DOMAIN   *)
(* Level at the start of a line is an ATX heading of that level, its title *)
(* in the token or behind it; "F" is a code fence, "=" and "-" are Setext  *)
(* underlines, a member of Definitions is a link reference definition, and *)
(* Bullets[n] starts a list item that is nested n - 1 deep.  A member of   *)
(* DOMAIN LinkTo is a link to a fragment; any other token is text.         *)
(***************************************************************************)
EXTENDS Source

CONSTANTS
    Level,         \* the level of each ATX heading token
    Definitions,   \* tokens that are reference definitions
    Bullets,       \* the list markers, by indentation
    LinkTo         \* the destination of each link token

ASSUME LevelAssumption == \A h \in DOMAIN Level : Level[h] \in 1..6

\* A token is of one kind.
ASSUME TokenAssumption ==
    /\ DOMAIN Level \cap ({"nl", "F", "=", "-"} \cup Definitions \cup ToSet(Bullets)) = {}
    /\ Definitions \cap ({"nl", "F", "=", "-"} \cup ToSet(Bullets)) = {}
    /\ ToSet(Bullets) \cap {"nl", "F", "=", "-"} = {}

(***************************************************************************)
(* Physical lines: [start, end) without the line ending.                   *)
(***************************************************************************)
LineEnd(s, start) ==
    Min({i \in start..Len(s) : i = Len(s) \/ s[i + 1] = "nl"})

StartsLine(s, i) == i = 0 \/ s[i] = "nl"

LineAt(s, i) == [start |-> i, end |-> LineEnd(s, i)]

Lines(s) == {LineAt(s, i) : i \in {j \in 0..(Len(s) - 1) : StartsLine(s, j)}}

\* The members of q at the given indices, in order.
Picked(q, indices) ==
    FlattenSeq([i \in DOMAIN q |-> IF i \in indices THEN <<q[i]>> ELSE << >>])

(***************************************************************************)
(* The block parser reads line by line, with at most one block open.  A    *)
(* list item takes the text lines behind it, as a paragraph does.          *)
(***************************************************************************)
Underline == [u \in {"=", "-"} |-> IF u = "=" THEN 1 ELSE 2]

Block(kind, level, r) ==
    [kind |-> kind, level |-> level, start |-> r.start, end |-> r.end]

Closed == [open |-> "none", range |-> [start |-> 0, end |-> 0]]

Close(st) ==
    IF st.open.open = "none" THEN st
    ELSE [blocks |-> Append(st.blocks, Block(st.open.open, 0, st.open.range)),
          open   |-> Closed]

Open(st, kind, line) ==
    [Close(st) EXCEPT !.open = [open |-> kind, range |-> line]]

Extend(st, line) == [st EXCEPT !.open.range.end = line.end]

Add(st, kind, level, line) ==
    [Close(st) EXCEPT !.blocks = Append(@, Block(kind, level, line))]

ReadLine(s, st, line) ==
    LET blank == line.start = line.end
        first == IF blank THEN "nl" ELSE s[line.start + 1]
        alone == line.end = line.start + 1
        inFence == st.open.open = "fence"
        inParagraph == st.open.open = "paragraph"
        inText == st.open.open \in {"paragraph", "item"}
    IN CASE inFence /\ first = "F" /\ alone -> Close(Extend(st, line))
         [] inFence /\ ~(first = "F" /\ alone) -> Extend(st, line)
         [] ~inFence /\ blank -> Close(st)
         [] ~inFence /\ first \in DOMAIN Level ->
              Add(st, "atx", Level[first], line)
         [] ~inFence /\ first = "F" -> Open(st, "fence", line)
         [] inParagraph /\ first \in DOMAIN Underline /\ alone ->
              \* the paragraph so far is the heading's text
              [blocks |-> Append(st.blocks, Block("setext", Underline[first],
                                                  Extend(st, line).open.range)),
               open   |-> Closed]
         [] ~inFence /\ ~inParagraph /\ first = "-" /\ alone ->
              Add(st, "break", 0, line)
         [] ~inFence /\ first \in ToSet(Bullets) -> Open(st, "item", line)
         [] st.open.open = "none" /\ first \in Definitions /\ alone ->
              Add(st, "definition", 0, line)
         [] OTHER -> IF inText THEN Extend(st, line)
                     ELSE Open(st, "paragraph", line)

\* read[i] is what the lines make that start before i.
Blocks(s) ==
    LET read[i \in 0..Len(s)] ==
            IF i = 0 THEN [blocks |-> << >>, open |-> Closed]
            ELSE IF StartsLine(s, i - 1) THEN ReadLine(s, read[i - 1], LineAt(s, i - 1))
            ELSE read[i - 1]
    IN Close(read[Len(s)]).blocks

Headings(blocks) ==
    Picked(blocks, {k \in DOMAIN blocks : blocks[k].kind \in {"atx", "setext"}})

(***************************************************************************)
(* buildSections: the sections on the stack are open; the next heading of  *)
(* the same or a higher rank ends them.                                    *)
(***************************************************************************)
\* sectionBodyStart: one line ending is skipped, if there is one.
BodyStart(s, h) == IF h.end = Len(s) THEN h.end ELSE h.end + 1

ClosesDeeper(h, section) == section.level > h.level   \* mutant: siblings nest
Closes(h, section)       == section.level >= h.level

NewSection(s, h, next, parent) ==
    [level     |-> h.level,
     kind      |-> h.kind,
     heading   |-> [start |-> h.start, end |-> h.end],
     range     |-> [start |-> h.start, end |-> Len(s)],
     bodyRange |-> [start |-> BodyStart(s, h), end |-> next],
     parent    |-> parent]

Sections(s, headings) ==
    LET next(i) == IF i < Len(headings) THEN headings[i + 1].start ELSE Len(s)
        add[i \in 0..Len(headings)] ==
            IF i = 0 THEN [sections |-> << >>, stack |-> {}]
            ELSE LET h == headings[i]
                     st == add[i - 1]
                     kept == {k \in st.stack : ~Closes(h, st.sections[k])}
                     ended == [k \in DOMAIN st.sections |->
                                  IF k \in st.stack \ kept
                                  THEN [st.sections[k] EXCEPT !.range.end = h.start]
                                  ELSE st.sections[k]]
                     parent == Max(kept \cup {0})
                 IN [sections |-> Append(ended, NewSection(s, h, next(i), parent)),
                     stack    |-> kept \cup {i}]
    IN add[Len(headings)].sections

(***************************************************************************)
(* Links: a link token outside of code, and a list item that is an entry   *)
(* of a table of contents, whose label and destination follow the bullet.  *)
(***************************************************************************)
Line(s, r) == Bytes(s, r)

IsEntry(l) ==
    /\ l # << >>
    /\ l[1] \in ToSet(Bullets)
    /\ "](#" \in ToSet(l)
    /\ Last(l) = ")"

EntryDestination(l) ==
    SubSeq(l, 1 + Min({i \in DOMAIN l : l[i] = "](#"}), Len(l) - 1)

Links(s, blocks) ==
    LET code == {b \in ToSet(blocks) : b.kind = "fence"}
        inCode(i) == \E b \in code : b.start < i /\ i <= b.end
        line(i) == Line(s, LineAt(s, i - 1))
        isLink(i) == \/ s[i] \in DOMAIN LinkTo
                     \/ s[i] \in ToSet(Bullets) /\ IsEntry(line(i))
        at == Picked([i \in DOMAIN s |-> i], {i \in DOMAIN s : isLink(i) /\ ~inCode(i)})
    IN [k \in DOMAIN at |->
           [offset      |-> at[k] - 1,
            destination |-> IF s[at[k]] \in DOMAIN LinkTo THEN LinkTo[s[at[k]]]
                            ELSE EntryDestination(line(at[k]))]]

(***************************************************************************)
(* Parse: an immutable document.                                           *)
(***************************************************************************)
Doc(s) ==
    LET blocks == Blocks(s)
    IN [source   |-> s,
        nodes    |-> blocks,
        sections |-> Sections(s, Headings(blocks)),
        links    |-> Links(s, blocks)]
=============================================================================
