------------------------------- MODULE Tables -------------------------------
(***************************************************************************)
(* The table edits of internal/splice.  Rows are inserted, replaced,       *)
(* removed and moved as whole lines, columns as the same cut or insertion  *)
(* in every line of the table; a candidate is kept when each promoted row  *)
(* and cell the edit is not about is found again where the patches put it. *)
(***************************************************************************)
EXTENDS Editing
LOCAL INSTANCE SequencesExt
LOCAL INSTANCE FiniteSetsExt

CONSTANTS
    RowFragments,   \* rows a caller inserts or replaces one with
    NewColumns,     \* columns: a header, an alignment, one content for the body
    CellContents

ASSUME NewColumnsAssumption ==
    \A c \in NewColumns : {"header", "alignment", "body"} \subseteq DOMAIN c

tables == document.tables
rows   == document.rows
cells  == document.cells

-----------------------------------------------------------------------------
(***************************************************************************)
(* Patches.                                                                *)
(***************************************************************************)

\* MapCompleteTableRows, for a table whose rows are consecutive lines: the
\* header, the delimiters and the body.
CompleteRows(t, n) ==
    LET row[i \in 1..(n.rows + 2)] ==
            MapTableRow(t, IF i = 1 THEN n.anchor ELSE row[i - 1].line.end)
    IN row

\* Each row has a cell for every column, and the last one ends the table.
Rectangular(t, n) ==
    LET all == CompleteRows(t, n) IN
    /\ \A i \in DOMAIN all : Len(all[i].cells) = n.columns
    /\ all[Len(all)].line.end = n.range.end

\* TableDelimiterAlignmentReplacement keeps the dashes.
Delimiter(t, c, alignment) ==
    LET dashes == SelectSeq(Bytes(t, c), LAMBDA b : b = "-")
        colon(there) == IF there THEN <<":">> ELSE << >>
    IN colon(alignment[1]) \o dashes \o colon(alignment[2])

\* TableColumnInsertion: the padding of the cell that stands there, and a
\* pipe; every row that has cells has one.
InsertCell(t, row, c, content) ==
    LET n == Len(row.cells)
        template == row.cells[Min({c, n})]
        raw == Bytes(t, Span(template.range.start, template.content.start)) \o content
               \o Bytes(t, Span(template.content.end, template.range.end))
    IN IF c <= n
       THEN Patch(Span(template.range.start, template.range.start), raw \o <<"|">>)
       ELSE Patch(Span(template.range.end, template.range.end), <<"|">> \o raw)

\* TableColumnRemovalRange: with the pipe behind it, the last one with the
\* pipe before it.
RemoveCell(row, c) ==
    IF c < Len(row.cells)
    THEN Patch(Span(row.cells[c].range.start, row.cells[c + 1].range.start), << >>)
    ELSE Patch(Span(row.cells[c - 1].range.end, row.cells[c].range.end), << >>)

\* ReorderTableRowColumns: every content into the padding of another.
ReorderCells(t, row, order) ==
    Patch(row.range,
          Splice(Bytes(t, row.range),
                 [k \in DOMAIN order |->
                    Patch(Shifted(row.cells[k].content, -row.range.start),
                          Bytes(t, row.cells[order[k]].content))]))

\* tableColumnMoveOrder.
MoveOrder(n, from, to) ==
    [k \in 1..n |-> IF k = to THEN from
                    ELSE IF from <= k /\ k < to THEN k + 1
                    ELSE IF to < k /\ k <= from THEN k - 1
                    ELSE k]

-----------------------------------------------------------------------------
(***************************************************************************)
(* validateOriginalTableModelAfterPatches.                                 *)
(***************************************************************************)
RowAt(d, p) == {k \in DOMAIN d.rows : d.rows[k].line.start = p}

\* originalTableRowSurvives.
RowSurvives(r, d, q, alignments) ==
    LET line == RangeAfterPatches(r.line, q) IN
    \E k \in RowAt(d, line.start) :
        LET s == d.rows[k] IN
        /\ s.line = line /\ s.range = RangeAfterPatches(r.range, q)
        /\ s.table = AnchorAfter(r.table, q)
        /\ s.columns = r.columns /\ s.alignments = alignments
        /\ Bytes(text, r.line) = Bytes(d.source, line)

\* originalTableCellSurvives.
CellSurvives(c, d, q) ==
    \E k \in DOMAIN d.cells :
        /\ d.cells[k].content = RangeAfterPatches(c.content, q)
        /\ d.cells[k].range = RangeAfterPatches(c.range, q)
        /\ d.cells[k].header = c.header /\ d.cells[k].column = c.column
        /\ Bytes(text, c.range) = Bytes(d.source, d.cells[k].range)

Inside(r, line) == line.start <= r.start /\ r.start < line.end

\* All but the rows in skip and their cells.
RowsSurvive(d, patches, skip) ==
    /\ \A k \in DOMAIN rows \ skip :
          RowSurvives(rows[k], d, InOrder(patches), rows[k].alignments)
    /\ \A c \in DOMAIN cells :
          \/ \E k \in skip : Inside(cells[c].range, rows[k].line)
          \/ CellSurvives(cells[c], d, InOrder(patches))

\* tableSurvivorPolicy with skipRows and skipCells: all but one table.
OtherTablesSurvive(d, patches, n) ==
    /\ \A k \in DOMAIN rows :
          rows[k].table # n.anchor
            => RowSurvives(rows[k], d, InOrder(patches), rows[k].alignments)
    /\ \A c \in DOMAIN cells :
          cells[c].table # n.anchor => CellSurvives(cells[c], d, InOrder(patches))

\* The table at the anchor of n in a candidate with as many tables.
TableIs(d, n, columns, count, end, alignments) ==
    /\ Len(d.tables) = Len(tables)
    /\ \E k \in DOMAIN d.tables :
          d.tables[k] = [anchor |-> n.anchor, range |-> Span(n.range.start, end),
                         columns |-> columns, rows |-> count, alignments |-> alignments]

\* candidateOwnedTableRow: the row at p is the fragment, the whole fragment.
OwnedRow(d, p, fragment, columns, table, alignments) ==
    \E k \in RowAt(d, p) :
        /\ d.rows[k].line = Span(p, p + Len(fragment))
        /\ d.rows[k].columns = columns /\ d.rows[k].table = table
        /\ d.rows[k].alignments = alignments
        /\ Bytes(d.source, d.rows[k].line) = fragment

\* The same in the table of a row that survives.
OwnedBeside(d, p, fragment, columns, anchor, q) ==
    LET line == RangeAfterPatches(anchor.line, q) IN
    \E k \in RowAt(d, line.start) :
        /\ d.rows[k].line = line
        /\ OwnedRow(d, p, fragment, columns, d.rows[k].table, d.rows[k].alignments)

Growth(patches) ==
    FoldLeft(LAMBDA n, p : n + Delta(p), 0, patches)

-----------------------------------------------------------------------------
(***************************************************************************)
(* The operations.  PrepareSetTableColumnAlignment is the case in which    *)
(* one alignment is another.                                               *)
(***************************************************************************)
SetTableAlignments(n, alignments) ==
    LET delimiters == CompleteRows(text, n)[2].cells
        changed == SelectSeq([c \in 1..n.columns |-> c],
                             LAMBDA c : alignments[c] # n.alignments[c])
        patch(c) == Patch(delimiters[c].content,
                          Delimiter(text, delimiters[c].content, alignments[c]))
        patches == [i \in DOMAIN changed |-> patch(changed[i])]
        q == InOrder(patches)
    IN \E d \in {Document(Candidate(patches))} :
       /\ changed # << >>
       /\ Len(d.rows) = Len(rows)
       /\ \A k \in DOMAIN rows :
             RowSurvives(rows[k], d, q, IF rows[k].table = n.anchor THEN alignments
                                        ELSE rows[k].alignments)
       /\ \A c \in DOMAIN cells : CellSurvives(cells[c], d, q)
       /\ TableIs(d, n, n.columns, n.rows, n.range.end + Growth(patches), alignments)
       /\ Apply(d)

AppendTableRow(n, fragment) ==
    LET at == n.range.end
        patches == <<Patch(Span(at, at), fragment)>>
    IN \E d \in {Document(Candidate(patches))} :
       /\ At(text, at - 1) = "nl"           \* tableAppendBoundary
       /\ Len(d.rows) = Len(rows) + 1
       /\ RowsSurvive(d, patches, {})
       /\ OwnedRow(d, at, fragment, n.columns, n.anchor, n.alignments)
       /\ TableIs(d, n, n.columns, n.rows + 1, at + Len(fragment), n.alignments)
       /\ Apply(d)

ReplaceTableRow(k, fragment) ==
    LET r == rows[k]
        patches == <<Patch(r.line, fragment)>>
    IN \E d \in {Document(Candidate(patches))} :
       /\ Len(d.rows) = Len(rows)
       /\ RowsSurvive(d, patches, {k})
       /\ OwnedRow(d, r.line.start, fragment, r.columns,
                   AnchorAfter(r.table, patches), r.alignments)
       /\ Apply(d)

RemoveTableRow(k) ==
    LET patches == <<Patch(rows[k].line, << >>)>>
    IN \E d \in {Document(Candidate(patches))} :
       /\ Len(d.rows) = Len(rows) - 1
       /\ RowsSurvive(d, patches, {k})
       /\ Apply(d)

InsertTableRow(k, fragment, after) ==
    LET r == rows[k]
        at == IF after THEN r.line.end ELSE r.line.start
        patches == <<Patch(Span(at, at), fragment)>>
    IN \E d \in {Document(Candidate(patches))} :
       /\ Len(d.rows) = Len(rows) + 1
       /\ RowsSurvive(d, patches, {})
       /\ OwnedBeside(d, at, fragment, r.columns, r, patches)
       /\ Apply(d)

MoveTableRow(k, anchor, after) ==
    LET r == rows[k]
        a == rows[anchor]
        at == IF after THEN a.line.end ELSE a.line.start
        patches == <<Patch(r.line, << >>), Patch(Span(at, at), Bytes(text, r.line))>>
    IN /\ k # anchor /\ r.table = a.table
       /\ IF after THEN at # r.line.start ELSE r.line.end # at
       /\ Accepted(Len(text), patches)
       /\ \E d \in {Document(Candidate(patches))} :
             /\ Len(d.rows) = Len(rows)
             /\ RowsSurvive(d, patches, {k})
             /\ OwnedBeside(d, MovedTo(r.line, at), Bytes(text, r.line), r.columns, a,
                            InOrder(patches))
             /\ Apply(d)

\* validateTableColumnMutationCandidate.
ColumnsChanged(d, n, patches, columns, alignments) ==
    /\ OtherTablesSurvive(d, patches, n)
    /\ TableIs(d, n, columns, n.rows, n.range.end + Growth(patches), alignments)
    /\ \E k \in DOMAIN d.tables : d.tables[k].anchor = n.anchor /\ Rectangular(d.source, d.tables[k])

InsertTableColumn(n, c, column) ==
    LET all == CompleteRows(text, n)
        template == all[2].cells[Min({c, n.columns})].content
        content(i) == IF i = 1 THEN column.header
                      ELSE IF i = 2 THEN Delimiter(text, template, column.alignment)
                      ELSE column.body
        patches == [i \in DOMAIN all |-> InsertCell(text, all[i], c, content(i))]
        alignments == InsertAt(n.alignments, c, column.alignment)
    IN /\ Rectangular(text, n)
       /\ \E d \in {Document(Candidate(patches))} :
             /\ ColumnsChanged(d, n, patches, n.columns + 1, alignments)
             /\ \E k \in DOMAIN d.tables :      \* candidateInsertedTableColumn
                   /\ d.tables[k].anchor = n.anchor
                   /\ \A i \in DOMAIN all :
                         Bytes(d.source, CompleteRows(d.source, d.tables[k])[i].cells[c].content)
                           = content(i)
             /\ Apply(d)

RemoveTableColumn(n, c) ==
    LET all == CompleteRows(text, n)
        patches == [i \in DOMAIN all |-> RemoveCell(all[i], c)]
    IN /\ n.columns > 1 /\ Rectangular(text, n)
       /\ \E d \in {Document(Candidate(patches))} :
             /\ ColumnsChanged(d, n, patches, n.columns - 1, RemoveAt(n.alignments, c))
             /\ Apply(d)

MoveTableColumn(n, from, to) ==
    LET all == CompleteRows(text, n)
        order == MoveOrder(n.columns, from, to)
        patches == [i \in DOMAIN all |-> ReorderCells(text, all[i], order)]
    IN /\ from # to /\ Rectangular(text, n)
       /\ \E d \in {Document(Candidate(patches))} :
             /\ ColumnsChanged(d, n, patches, n.columns,
                               [k \in 1..n.columns |-> n.alignments[order[k]]])
             /\ Apply(d)

\* PrepareReplaceTableCell; validateTableCellReplacement looks for this one
\* cell and leaves the rest to its range.
ReplaceTableCell(c, content) ==
    LET cell == cells[c]
        patch == Patch(cell.content, content)
    IN /\ content # Bytes(text, cell.content)
       /\ \E d \in {Document(Candidate(<<patch>>))} :
             /\ \E k \in DOMAIN d.cells :
                   /\ d.cells[k].header = cell.header /\ d.cells[k].column = cell.column
                   /\ d.cells[k].range = [cell.range EXCEPT !.end = @ + Delta(patch)]
             /\ Apply(d)

RowEdits ==
    /\ edits < MaxEdits
    /\ \/ \E k \in DOMAIN tables, f \in RowFragments : AppendTableRow(tables[k], f)
       \/ \E k \in DOMAIN rows, f \in RowFragments : ReplaceTableRow(k, f)
       \/ \E k \in DOMAIN rows : RemoveTableRow(k)
       \/ \E k \in DOMAIN rows, f \in RowFragments, after \in BOOLEAN : InsertTableRow(k, f, after)
       \/ \E k, a \in DOMAIN rows, after \in BOOLEAN : MoveTableRow(k, a, after)

ColumnEdits ==
    /\ edits < MaxEdits
    /\ \/ \E k \in DOMAIN tables : \E a \in [1..tables[k].columns -> BOOLEAN \X BOOLEAN] :
             SetTableAlignments(tables[k], a)
       \/ \E k \in DOMAIN tables, column \in NewColumns : \E c \in 1..(tables[k].columns + 1) :
             InsertTableColumn(tables[k], c, column)
       \/ \E k \in DOMAIN tables : \E c \in 1..tables[k].columns : RemoveTableColumn(tables[k], c)
       \/ \E k \in DOMAIN tables : \E from, to \in 1..tables[k].columns :
             MoveTableColumn(tables[k], from, to)
       \/ \E c \in DOMAIN cells, content \in CellContents : ReplaceTableCell(c, content)

-----------------------------------------------------------------------------
(***************************************************************************)
(* An accepted edit does to one table what its name says, and to every     *)
(* other cell of the document nothing.                                     *)
(***************************************************************************)
Sheets == INSTANCE Grids WITH grids <- view.grids
EditsOneTable == Sheets!Spec

-----------------------------------------------------------------------------
(***************************************************************************)
(* What a snapshot says of its tables: which rows and cells belong to      *)
(* which, as slices of shared lists of identities that splice.Parse fills  *)
(* in one pass over the nodes.  A node is its place in rows, cells or      *)
(* tables here.  Parse refuses the whole text when a check on the way      *)
(* fails.                                                                  *)
(***************************************************************************)
Places(s, Test(_)) == SelectSeq([k \in DOMAIN s |-> k], LAMBDA k : Test(s[k]))

-----------------------------------------------------------------------------
(***************************************************************************)
(* A shared list: every owner has the room its members need, behind the    *)
(* owners before it, and a member goes behind those already there.         *)
(* owner[i] is the owner of the member i, None if it has none.             *)
(***************************************************************************)
Owned(owner, k) == {i \in DOMAIN owner : owner[i] = k}
Start(owner, k) == Cardinality({i \in DOMAIN owner : owner[i] \in 1..(k - 1)})

SlotFromTheEnd(owner, i) ==                 \* mutant: the last member goes first
    Start(owner, owner[i]) + Cardinality(Owned(owner, owner[i]) \ (1..(i - 1)))

Slot(owner, i) == Start(owner, owner[i]) + Cardinality(Owned(owner, owner[i]) \cap 1..i)

Shared(owner) ==
    [s \in 1..Cardinality({i \in DOMAIN owner : owner[i] # None}) |->
        CHOOSE i \in DOMAIN owner : owner[i] # None /\ Slot(owner, i) = s]

Slice(owner, k) ==
    SubSeq(Shared(owner), Start(owner, k) + 1, Start(owner, k) + Cardinality(Owned(owner, k)))

FirstOrNone(s) == IF s = {} THEN None ELSE Min(s)

-----------------------------------------------------------------------------
(***************************************************************************)
(* resolveTableRowCells: the cells of a promoted row, and the cells in the *)
(* header of its table, under the first of the promoted rows.              *)
(***************************************************************************)
RowOfBodyCell(d, c) ==
    IF c.header THEN None ELSE FirstOrNone({k \in DOMAIN d.rows : d.rows[k].anchor = c.row})

FirstRowOf(d, anchor) == FirstOrNone({k \in DOMAIN d.rows : d.rows[k].table = anchor})

RowOfHeaderCell(d, c) == IF c.header THEN FirstRowOf(d, c.table) ELSE None

BodyOwners(d)   == [i \in DOMAIN d.cells |-> RowOfBodyCell(d, d.cells[i])]
HeaderOwners(d) == [i \in DOMAIN d.cells |-> RowOfHeaderCell(d, d.cells[i])]

\* collectRows.
RowsInOrder(d) ==
    /\ \A k \in DOMAIN d.rows : d.rows[k].table <= d.rows[k].anchor
    /\ \A j, k \in DOMAIN d.rows :
          j < k => /\ d.rows[j].line.start < d.rows[k].line.start
                   /\ d.rows[j].table <= d.rows[k].table
                   /\ d.rows[j].anchor # d.rows[k].anchor

ColumnsRise(d, owner) ==
    \A i, j \in DOMAIN d.cells :
        i < j /\ owner[i] # None /\ owner[i] = owner[j] => d.cells[i].column < d.cells[j].column

\* resolveHeaderCell, resolveBodyCell.
CellsFit(d) ==
    /\ ColumnsRise(d, BodyOwners(d)) /\ ColumnsRise(d, HeaderOwners(d))
    /\ \A i \in DOMAIN d.cells :
          LET c == d.cells[i]
              k == RowOfBodyCell(d, c)
              h == RowOfHeaderCell(d, c)
          IN /\ h # None => c.column <= d.rows[h].columns
             /\ k # None => /\ c.table = d.rows[k].table
                            /\ c.column <= d.rows[k].columns
                            /\ c.range.start >= d.rows[k].range.start
                            /\ c.range.end <= d.rows[k].range.end

\* TableRowCellIDs, TableRowHeaderCellIDs: the rows of a table share the
\* slice of the first.
TableRowCellIDs(d, k)       == Slice(BodyOwners(d), k)
TableRowHeaderCellIDs(d, k) == Slice(HeaderOwners(d), FirstRowOf(d, d.rows[k].table))

\* TableRowNeighborIDs.
TableRowNeighborIDs(d, k) ==
    LET beside(s) == {j \in s \cap DOMAIN d.rows : d.rows[j].table = d.rows[k].table}
        before == beside(1..(k - 1))
        after == beside((k + 1)..Len(d.rows))
    IN <<IF before = {} THEN None ELSE Max(before), FirstOrNone(after)>>

-----------------------------------------------------------------------------
(***************************************************************************)
(* resolveTables: the rows and the header cells of a promoted table.  The  *)
(* rows the parser saw are counted, promoted or not.                       *)
(***************************************************************************)
TableOf(d, anchor) == FirstOrNone({k \in DOMAIN d.tables : d.tables[k].anchor = anchor})

TableOwnersOfRows(d) == [i \in DOMAIN d.rows |-> TableOf(d, d.rows[i].table)]
TableOwnersOfHeaders(d) ==
    [i \in DOMAIN d.cells |-> IF d.cells[i].header THEN TableOf(d, d.cells[i].table) ELSE None]

Observed(d, n) == Places(d.nodes, LAMBDA m : m.kind = "row" /\ m.table = n.anchor)

\* collectTables, resolveOwnership and validateSemanticRows.
TablesFit(d) ==
    /\ \A j, k \in DOMAIN d.tables : j < k => d.tables[j].anchor < d.tables[k].anchor
    /\ \A i \in DOMAIN d.cells :
          LET k == TableOf(d, d.cells[i].table) IN
          k # None => d.cells[i].column <= d.tables[k].columns
    /\ \A k \in DOMAIN d.tables :
          LET n == d.tables[k]
              seen == Observed(d, n)
              delimiter == Ended(d.source, LineRange(d.source, n.anchor)).end
          IN /\ \A i \in DOMAIN seen : /\ delimiter < d.nodes[seen[i]].range.start
                                       /\ d.nodes[seen[i]].range.start < n.range.end
             /\ Len(seen) = n.rows

TableRowIDs(d, k)        == Slice(TableOwnersOfRows(d), k)
TableHeaderCellIDs(d, k) == Slice(TableOwnersOfHeaders(d), k)

-----------------------------------------------------------------------------
(***************************************************************************)
(* Parse takes every text, and the lists say what the parser saw: a        *)
(* promoted table has its promoted rows, such a row and the header every   *)
(* cell that is not empty, in the order of the source, and the neighbours  *)
(* of a row are the rows beside it in that list.                           *)
(***************************************************************************)
Contents(d, ids) == [i \in DOMAIN ids |-> d.cells[ids[i]].content]

SeenCells(d, row, header) ==
    LET seen == SelectSeq(d.nodes, LAMBDA m : /\ m.kind = "cell" /\ m.row = row
                                              /\ m.header = header)
    IN [i \in DOMAIN seen |-> seen[i].range]

Beside(ids, i) ==
    <<IF i = 1 THEN None ELSE ids[i - 1], IF i = Len(ids) THEN None ELSE ids[i + 1]>>

RowsHold ==
    LET d == document IN
    /\ RowsInOrder(d) /\ CellsFit(d) /\ TablesFit(d)
    /\ \A k \in DOMAIN d.tables :
          LET n == d.tables[k]
              ids == TableRowIDs(d, k)
              header == SeenCells(d, n.anchor, TRUE)
          IN /\ ids = Places(d.rows, LAMBDA r : r.table = n.anchor)
             /\ Contents(d, TableHeaderCellIDs(d, k)) = header
             /\ \A i \in DOMAIN ids :
                   /\ Contents(d, TableRowCellIDs(d, ids[i]))
                        = SeenCells(d, d.rows[ids[i]].anchor, FALSE)
                   /\ Contents(d, TableRowHeaderCellIDs(d, ids[i])) = header
                   /\ TableRowNeighborIDs(d, ids[i]) = Beside(ids, i)
=============================================================================
