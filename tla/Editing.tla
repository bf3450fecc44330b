------------------------------ MODULE Editing -------------------------------
(***************************************************************************)
(* A document under structural edits.  An accepted change is applied at    *)
(* once and its candidate is the next snapshot.  edits counts them; view   *)
(* is an auxiliary variable, what the document is to the properties.       *)
(***************************************************************************)
EXTENDS Snapshot
LOCAL INSTANCE SequencesExt
LOCAL INSTANCE FiniteSetsExt

(***************************************************************************)
(* A snapshot as the abstract specifications of the structural edits see   *)
(* it: a forest of items, grids, a sequence of blocks, metadata and body.  *)
(***************************************************************************)
Patch(r, s) == [start |-> r.start, end |-> r.end, text |-> s]

\* Where patches take a node, the nodes it is anchored to included.
AnchorAfter(p, q) == RangeAfterPatches(Span(p, p + 1), q).start     \* anchorAfterPatches

RangeFields  == {"range", "content", "line", "opener"}
AnchorFields == {"row", "table", "lastRow", "list", "parent"}

Moved(n, q) ==
    [f \in DOMAIN n |->
        IF f \in RangeFields THEN RangeAfterPatches(n[f], q)
        ELSE IF f = "contents" THEN [k \in DOMAIN n[f] |-> RangeAfterPatches(n[f][k], q)]
        ELSE IF f \in AnchorFields /\ n[f] # None THEN AnchorAfter(n[f], q)
        ELSE n[f]]

-----------------------------------------------------------------------------
(***************************************************************************)
(* Promoted items by the line they start on; an item is named by its       *)
(* index.  A parent that is not promoted itself is -1.                     *)
(***************************************************************************)
ItemAt(all, p)   == {k \in DOMAIN all : all[k].line.start = p}
ParentOf(all, k) == LET at == ItemAt(all, all[k].parent)
                      IN IF at = {} THEN 0 ELSE CHOOSE p \in at : TRUE

LineOf(t, i) == Bytes(t, i.line)

Forest(d) ==
    [k \in DOMAIN d.items |->
        [line |-> LineOf(d.source, d.items[k]),
         parent |-> IF d.items[k].parent # None /\ ParentOf(d.items, k) = 0
                    THEN -1 ELSE ParentOf(d.items, k)]]

-----------------------------------------------------------------------------
(***************************************************************************)
(* The tables as their readers see them: a grid for every table the parser *)
(* found, in the order of the source, with the header as its first row.  A *)
(* cell that is missing is empty.                                          *)
(***************************************************************************)
GridsOf(d) ==
    LET nodes == d.nodes
        found(n, header, row, c) ==
            {k \in DOMAIN nodes : /\ nodes[k].kind = "cell" /\ nodes[k].table = n.range.start
                                  /\ nodes[k].header = header /\ nodes[k].row = row
                                  /\ nodes[k].column = c}
        content(n, header, row, c) ==
            IF found(n, header, row, c) = {} THEN << >>
            ELSE Bytes(d.source, nodes[CHOOSE k \in found(n, header, row, c) : TRUE].range)
        line(n, header, row) == [c \in 1..n.columns |-> content(n, header, row, c)]
        body(n) == SelectSeq(nodes, LAMBDA m : m.kind = "row" /\ m.table = n.range.start)
        grid(n) == [alignments |-> n.alignments,
                    rows |-> <<line(n, TRUE, n.range.start)>>
                             \o [i \in DOMAIN body(n) |-> line(n, FALSE, body(n)[i].range.start)]]
        all == SelectSeq(nodes, LAMBDA n : n.kind = "table")
    IN [k \in DOMAIN all |-> grid(all[k])]

-----------------------------------------------------------------------------
(***************************************************************************)
(* The text as the parser divides it at the top level.                     *)
(***************************************************************************)
TopBlocks(d) ==
    LET t == d.source
        tree == d.tree
        end(k) == IF k = Len(tree) THEN Len(t) ELSE tree[k + 1].at
    IN [k \in DOMAIN tree |->
           [kind |-> tree[k].kind,
            text |-> Bytes(t, Span(tree[k].at,
                                      RunStart(t, tree[k].at, end(k), {"nl", "sp"})))]]

-----------------------------------------------------------------------------
(***************************************************************************)
(* A text as its metadata and its body, which starts at the first line     *)
(* behind the envelope that is not blank.                                  *)
(***************************************************************************)
EntryAt(t, m, l, key) ==
    [key |-> Bytes(t, key),
     rest |-> Bytes(t, Span(l.start, key.start)) \o Bytes(t, Span(key.end, l.end)),
     field |-> \E i \in DOMAIN m.fields : m.fields[i].key = key]

LineEntry(t, m, l) ==
    LET s == KeySeparator(t, m.format, l) IN
    EntryAt(t, m, l, IF s = << >> THEN Span(l.start, l.start) ELSE s[1].key)

EntriesOf(t, m) ==
    LET starts == Positions(m.opening.end + 1, m.closing.start - 1, LAMBDA p : At(t, p - 1) = "nl")
    IN [k \in DOMAIN starts |-> LineEntry(t, m, LineRange(t, starts[k]))]

BodyFrom(t, nodes, start) ==
    [text |-> Bytes(t, Span(start, Len(t))),
     nodes |-> {Moved(n, <<Patch(Span(0, start), << >>)>>) : n \in ToSet(nodes)}]

Meta(d) ==
    LET t == d.source
        end == IF d.front = << >> THEN 0 ELSE Ended(t, d.front[1].range).end
    IN [format |-> IF d.front = << >> THEN "none" ELSE d.front[1].format,
        entries |-> IF d.front = << >> THEN << >> ELSE EntriesOf(t, d.front[1]),
        body |-> BodyFrom(t, d.kept, RunEnd(t, end, Len(t), {"nl"}))]

View(d) == [forest |-> Forest(d), grids |-> GridsOf(d), blocks |-> TopBlocks(d), meta |-> Meta(d)]

-----------------------------------------------------------------------------
CONSTANTS
    InitialTexts,
    MaxEdits

VARIABLES
    document,
    view,
    edits

vars == <<document, view, edits>>

text == document.source

Init ==
    /\ document \in {Document(t) : t \in InitialTexts}
    /\ view = View(document)
    /\ edits = 0

Candidate(patches) == Splice(text, InOrder(patches))

\* movedRangeCandidateOffset: where what is cut out at r and put in at p is.
MovedTo(r, p) == IF p <= r.start THEN p ELSE p - (r.end - r.start)

Apply(d) ==
    /\ document' = d
    /\ view' = View(d)
    /\ edits' = edits + 1
=============================================================================
