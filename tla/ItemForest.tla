----------------------------- MODULE ItemForest -----------------------------
(***************************************************************************)
(* What the list-item edits promise: the promoted items of a document are  *)
(* a forest, written in source order with every row naming its parent's    *)
(* index, and an edit changes the one tree it is about.  Every other row   *)
(* keeps its line and its parent.                                          *)
(***************************************************************************)
EXTENDS Integers, Sequences, FiniteSets
LOCAL INSTANCE FiniteSetsExt

VARIABLE forest

Outside == -1      \* nested, below an item that was not promoted
Top == 0

Children(f, i) == {k \in DOMAIN f : f[k].parent = i}

\* The last row of the tree of row i.
LastOf(f, i) ==
    LET last[k \in DOMAIN f] == Max({k} \union {last[c] : c \in Children(f, k)})
    IN last[i]

TreeAt(f, i, n) ==     \* rows i to i + n - 1 are one tree
    /\ n > 0 /\ i + n - 1 <= Len(f)
    /\ \A k \in (i + 1)..(i + n - 1) : f[k].parent \in i..(k - 1)

Cut(f, i, n) ==
    LET up(r) == [r EXCEPT !.parent = IF @ >= i + n THEN @ - n ELSE @]
        rest == SubSeq(f, 1, i - 1) \o SubSeq(f, i + n, Len(f))
    IN [k \in DOMAIN rest |-> up(rest[k])]

Paste(f, i, rows) ==   \* so that the first of the rows becomes row i
    LET down(r) == [r EXCEPT !.parent = IF @ >= i THEN @ + Len(rows) ELSE @]
        moved == [k \in DOMAIN f |-> down(f[k])]
    IN SubSeq(moved, 1, i - 1) \o rows \o SubSeq(moved, i, Len(f))

\* One new tree below parent, at row i.
Planted(f, g, i, parent) ==
    \E n \in 1..Len(g) :
        /\ TreeAt(g, i, n) /\ g[i].parent = parent
        /\ g = Paste(f, i, SubSeq(g, i, i + n - 1))

Whole(f, i) == LastOf(f, i) - i + 1

Remove(i) == forest' = Cut(forest, i, Whole(forest, i))

InsertBeside(i) ==
    \E at \in {i, LastOf(forest, i) + 1} :
        Planted(forest, forest', at,
                IF forest[i].parent >= at THEN Top ELSE forest[i].parent)

AppendBelow(i) == Planted(forest, forest', LastOf(forest, i) + 1, i)

Regrow(i) ==
    Planted(Cut(forest, i, Whole(forest, i)), forest', i, forest[i].parent)

Reword(i) ==
    /\ Len(forest') = Len(forest)
    /\ forest' = [forest EXCEPT ![i].line = forest'[i].line]

\* The rows not in new; what stood below one of those is outside of them.
Without(f, new) ==
    LET rows == SelectSeq([k \in DOMAIN f |-> k], LAMBDA k : k \notin new)
        index(p) == Cardinality({k \in DOMAIN f \ new : k <= p})
        known(r) == [r EXCEPT !.parent = IF @ \in new THEN Outside
                                         ELSE IF @ > Top THEN index(@) ELSE @]
    IN [k \in DOMAIN rows |-> known(f[rows[k]])]

\* The tree of i beside the tree of j, with every line it had.
Moved(f, g, i, j) ==
    LET n == Whole(f, i)
        rest == Cut(f, i, n)
        anchor == IF j > i THEN j - n ELSE j
        lines(h, k) == [l \in 0..(n - 1) |-> h[k + l].line]
        relative(h, k) == [l \in 1..(n - 1) |-> h[k + l].parent - k]
    IN /\ j \notin i..(i + n - 1)
       /\ \E at \in {anchor, LastOf(rest, anchor) + 1} :
             /\ Planted(rest, g, at, rest[anchor].parent)
             /\ at + n - 1 <= Len(g)
             /\ lines(g, at) = lines(f, i)
             /\ relative(g, at) = relative(f, i)

\* What the tree leaves behind may be promoted in its turn.
MoveBeside(i, j) ==
    \E new \in kSubset(Len(forest') - Len(forest), DOMAIN forest') :
        Moved(forest, Without(forest', new), i, j)

Next ==
    \E i \in DOMAIN forest :
        \/ Remove(i) \/ InsertBeside(i) \/ AppendBelow(i) \/ Regrow(i) \/ Reword(i)
        \/ \E j \in DOMAIN forest : MoveBeside(i, j)

Spec == [][Next]_forest
=============================================================================
