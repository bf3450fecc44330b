------------------------------- MODULE Grids --------------------------------
(***************************************************************************)
(* What the table edits promise: the tables of a document are grids, and   *)
(* an edit changes one alignment row, one row, one column or one cell of   *)
(* one of them.                                                            *)
(***************************************************************************)
EXTENDS Integers, Sequences
LOCAL INSTANCE SequencesExt

VARIABLE grids      \* of each: the alignments and the rows, the header first

Body(g) == 2..Len(g.rows)
Columns(g) == DOMAIN g.alignments

Align(g, h) == h = [g EXCEPT !.alignments = h.alignments]

ReplaceRow(g, h) ==
    \E i \in Body(g) : i \in DOMAIN h.rows /\ h = [g EXCEPT !.rows[i] = h.rows[i]]

RemoveRow(g, h) == \E i \in Body(g) : h = [g EXCEPT !.rows = RemoveAt(@, i)]
InsertRow(g, h) == \E i \in Body(h) : g = [h EXCEPT !.rows = RemoveAt(@, i)]

MoveRow(g, h) ==
    \E i, j \in Body(g) : h = [g EXCEPT !.rows = InsertAt(RemoveAt(@, i), j, g.rows[i])]

\* A grid with every row, and the alignments, put through F.
Each(g, F(_)) ==
    [alignments |-> F(g.alignments), rows |-> [i \in DOMAIN g.rows |-> F(g.rows[i])]]

RemoveColumn(g, h) == \E c \in Columns(g) : h = Each(g, LAMBDA s : RemoveAt(s, c))
InsertColumn(g, h) == \E c \in Columns(h) : g = Each(h, LAMBDA s : RemoveAt(s, c))

MoveColumn(g, h) ==
    \E b, c \in Columns(g) : h = Each(g, LAMBDA s : InsertAt(RemoveAt(s, b), c, s[b]))

ReplaceCell(g, h) ==
    \E i \in DOMAIN g.rows, c \in Columns(g) :
        /\ i \in DOMAIN h.rows /\ c \in DOMAIN h.rows[i]
        /\ h = [g EXCEPT !.rows[i][c] = h.rows[i][c]]

Next ==
    \E k \in DOMAIN grids :
        /\ k \in DOMAIN grids' /\ grids' = [grids EXCEPT ![k] = grids'[k]]
        /\ \/ Align(grids[k], grids'[k]) \/ ReplaceRow(grids[k], grids'[k])
           \/ RemoveRow(grids[k], grids'[k]) \/ InsertRow(grids[k], grids'[k])
           \/ MoveRow(grids[k], grids'[k]) \/ RemoveColumn(grids[k], grids'[k])
           \/ InsertColumn(grids[k], grids'[k]) \/ MoveColumn(grids[k], grids'[k])
           \/ ReplaceCell(grids[k], grids'[k])

Spec == [][Next]_grids
=============================================================================
