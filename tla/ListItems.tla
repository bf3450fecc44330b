----------------------------- MODULE ListItems ------------------------------
(***************************************************************************)
(* The list-item edits of internal/splice: every Prepare operation builds  *)
(* a candidate, parses it, and keeps it only when each promoted item of    *)
(* the snapshot is found again where the patches put it.                   *)
(***************************************************************************)
EXTENDS Editing
LOCAL INSTANCE SequencesExt
LOCAL INSTANCE FiniteSetsExt

CONSTANTS
    ItemFragments,      \* list items a caller inserts, as tokens
    ItemContents        \* one-line contents a caller gives an item

items == document.items

-----------------------------------------------------------------------------
(***************************************************************************)
(* resolveListItemModel: parents by the line they start on, and from the   *)
(* leaves up whether a tree is complete and where it ends.  An item is     *)
(* named by its index.                                                     *)
(***************************************************************************)
ChildrenOf(all, k) == {c \in DOMAIN all : all[c].parent = all[k].line.start}

Complete(all) ==
    LET complete[k \in DOMAIN all] ==
            /\ Cardinality(ChildrenOf(all, k)) = all[k].count
            /\ \A c \in ChildrenOf(all, k) : complete[c]
    IN complete

SubtreeIds(all, k) ==
    LET ids[i \in DOMAIN all] == {i} \union UNION {ids[c] : c \in ChildrenOf(all, i)}
    IN ids[k]

SubtreeEnd(all, k) == Max({all[c].line.end : c \in SubtreeIds(all, k)})
SubtreeRange(all, k) == Span(all[k].line.start, SubtreeEnd(all, k))

\* collectItems: what Parse refuses the document for.
InStrictOrder(all) ==
    \A k \in 2..Len(all) : all[k - 1].line.start < all[k].line.start

-----------------------------------------------------------------------------
(***************************************************************************)
(* Candidates.                                                             *)
(***************************************************************************)
SameLexical(t, i, u, c, line, range, content) ==
    /\ c.line = line /\ c.range = range /\ c.content = content
    /\ c.ordered = i.ordered /\ c.marker = i.marker
    /\ LineOf(t, i) = LineOf(u, c)

\* listParentAnchorAfterOrderedPatches: by the first byte of the parent.
ParentAfter(i, q) ==
    IF i.parent = None THEN None
    ELSE RangeAfterPatches(Span(i.parent, i.parent + 1), q).start

\* originalListItemSurvives; delta is what the edit adds to its children.
SurvivesAt(t, i, u, c, q, delta) ==
    /\ SameLexical(t, i, u, c, RangeAfterPatches(i.line, q),
                   RangeAfterPatches(i.range, q), RangeAfterPatches(i.content, q))
    /\ (c.parent = None) = (i.parent = None)
    /\ c.count = i.count + delta
    /\ i.parent # None => RangeAfterPatches(Span(i.parent, i.parent + 1), q) # NoRange
    /\ c.parent = ParentAfter(i, q)

SurvivesUncounted(t, i, u, cand, q, delta) ==   \* mutant: parents not compared
    \E k \in ItemAt(cand, RangeAfterPatches(i.line, q).start) :
        SameLexical(t, i, u, cand[k], RangeAfterPatches(i.line, q),
                    RangeAfterPatches(i.range, q), RangeAfterPatches(i.content, q))

Survives(t, i, u, cand, q, delta) ==
    /\ RangeAfterPatches(i.line, q) # NoRange
    /\ \E k \in ItemAt(cand, RangeAfterPatches(i.line, q).start) :
          SurvivesAt(t, i, u, cand[k], q, delta)

\* listItemDirectChildCountDeltas, of the parents the edit takes from and
\* adds to; 0 is no promoted parent.
Delta2(k, from, to) ==
    IF from = to THEN 0
    ELSE (IF k = to THEN 1 ELSE 0) - (IF k = from THEN 1 ELSE 0)

OriginalsSurvive(t, all, u, cand, patches, skip, from, to) ==
    \A k \in DOMAIN all \ skip :
        Survives(t, all[k], u, cand, InOrder(patches), Delta2(k, from, to))

SameSiblingShape(t, i, u, c) ==
    /\ i.ordered = c.ordered /\ i.marker = c.marker
    /\ Bytes(t, Span(i.line.start, i.range.start)) = Bytes(u, Span(c.line.start, c.range.start))

\* exactListItemSubtree: a complete tree is what stands at r of the text.
ExactSubtree(all, r) ==
    {k \in ItemAt(all, r.start) : Complete(all)[k] /\ SubtreeRange(all, k) = r}

(***************************************************************************)
(* validateListItemSubtreePlacement: the tree k of source s stands in the  *)
(* candidate, moved by delta, with nothing else inside and with the parent *)
(* of its anchor.                                                          *)
(***************************************************************************)
PlacedItem(s, of, k, root, u, cand, delta) ==
    LET i == of[k]
        move(r) == Shifted(r, delta)
    IN \E c \in ItemAt(cand, i.line.start + delta) :
          /\ SameLexical(s, i, u, cand[c], move(i.line), move(i.range), move(i.content))
          /\ cand[c].count = i.count
          /\ k # root => cand[c].parent = IF i.parent = None THEN None ELSE i.parent + delta

Placed(s, of, root, u, cand, at, anchor, q) ==
    LET ids == SubtreeIds(of, root)
        delta == at - of[root].line.start
        r == Shifted(SubtreeRange(of, root), delta)
        line == RangeAfterPatches(anchor.line, q)
    IN /\ Quantify(DOMAIN cand, LAMBDA c : /\ r.start <= cand[c].line.start
                                           /\ cand[c].line.end <= r.end)
             = Cardinality(ids)
       /\ \A k \in ids : PlacedItem(s, of, k, root, u, cand, delta)
       /\ line # NoRange
       /\ \E c \in ItemAt(cand, at), a \in ItemAt(cand, line.start) :
             cand[c].parent = cand[a].parent

-----------------------------------------------------------------------------
(***************************************************************************)
(* The operations.                                                         *)
(***************************************************************************)
Targets == {k \in DOMAIN items : Complete(items)[k]}

\* PrepareReplaceListItem; the items need not be complete.
ReplaceListItem(k, content) ==
    LET i == items[k]
        patches == <<Patch(i.content, content)>>
        grown(r) == [r EXCEPT !.end = @ + Delta(patches[1])]
    IN \E d \in {Document(Candidate(patches))} : \E cand \in {d.items} :
       /\ content # Bytes(text, i.content)
       /\ Len(cand) = Len(items)
       /\ OriginalsSurvive(text, items, d.source, cand, patches, {k}, 0, 0)
       /\ \E c \in ItemAt(cand, i.line.start) :
             /\ cand[c].line = grown(i.line) /\ cand[c].range = grown(i.range)
             /\ cand[c].content = grown(i.content)
             /\ cand[c].ordered = i.ordered /\ cand[c].marker = i.marker
             /\ cand[c].parent = i.parent /\ cand[c].count = i.count
       /\ Apply(d)

ReplaceListItemSubtree(k, fragment) ==
    LET r == SubtreeRange(items, k)
        patches == <<Patch(r, fragment)>>
        new == Span(r.start, r.start + Len(fragment))
    IN \E d \in {Document(Candidate(patches))} : \E cand \in {d.items} :
       \E c \in ExactSubtree(cand, new) :
          /\ Len(cand) = Len(items) - Cardinality(SubtreeIds(items, k))
                           + Cardinality(SubtreeIds(cand, c))
          /\ OriginalsSurvive(text, items, d.source, cand, patches, SubtreeIds(items, k), 0, 0)
          /\ (cand[c].parent = None) = (items[k].parent = None)
          /\ SameSiblingShape(d.source, cand[c], text, items[k])
          /\ cand[c].parent = ParentAfter(items[k], patches)
          /\ Apply(d)

RemoveListItem(k) ==
    LET patches == <<Patch(SubtreeRange(items, k), << >>)>>
        ids == SubtreeIds(items, k)
    IN \E d \in {Document(Candidate(patches))} : \E cand \in {d.items} :
       /\ Len(cand) = Len(items) - Cardinality(ids)
       /\ OriginalsSurvive(text, items, d.source, cand, patches, ids, ParentOf(items, k), 0)
       /\ Apply(d)

InsertListItem(k, fragment, after) ==
    LET at == IF after THEN SubtreeEnd(items, k) ELSE items[k].line.start
        patches == <<Patch(Span(at, at), fragment)>>
    IN \E d \in {Document(Candidate(patches))} : \E cand \in {d.items} :
       \E of \in {Document(fragment).items} : \E root \in ExactSubtree(of, Span(0, Len(fragment))) :
          /\ of[root].parent = None
          /\ SameSiblingShape(fragment, of[root], text, items[k])
          /\ SubtreeIds(of, root) = DOMAIN of
          /\ Len(cand) = Len(items) + Len(of)
          /\ OriginalsSurvive(text, items, d.source, cand, patches, {}, 0, ParentOf(items, k))
          /\ Placed(fragment, of, root, d.source, cand, at, items[k], patches)
          /\ Apply(d)

AppendListItemChild(k, fragment) ==
    LET at == SubtreeEnd(items, k)
        patches == <<Patch(Span(at, at), fragment)>>
    IN \E d \in {Document(Candidate(patches))} : \E cand \in {d.items} :
       \E c \in ExactSubtree(cand, Span(at, at + Len(fragment))) :
          /\ cand[c].parent = items[k].line.start
          /\ ParentOf(cand, c) # 0
          /\ Len(cand) = Len(items) + Cardinality(SubtreeIds(cand, c))
          /\ OriginalsSurvive(text, items, d.source, cand, patches, {}, 0, k)
          /\ Apply(d)

\* The prefix of the parent, the width of its marker in spaces, a marker.
AppendFirstListItemChild(k, content, ordered) ==
    LET i == items[k]
        indent == i.content.start - i.range.start
    IN /\ i.count = 0 /\ SubtreeEnd(items, k) = i.line.end
       /\ i.line.end > 0 /\ At(text, i.line.end - 1) = "nl"
       /\ AppendListItemChild(k,
             Bytes(text, Span(i.line.start, i.range.start))
             \o [s \in 1..indent |-> "sp"]
             \o (IF ordered THEN <<"1", ".", "sp">> ELSE <<"-", "sp">>)
             \o content \o <<"nl">>)

MoveListItem(k, anchor, after) ==
    LET i == items[k]
        a == items[anchor]
        moved == SubtreeRange(items, k)
        at == IF after THEN SubtreeEnd(items, anchor) ELSE a.line.start
        offset == MovedTo(moved, at)
        placed == IF after THEN at = moved.start ELSE moved.end = at
        patches == <<Patch(moved, << >>), Patch(Span(at, at), Bytes(text, moved))>>
    IN \E d \in {Document(Candidate(patches))} : \E cand \in {d.items} :
       /\ k # anchor
       /\ ~(moved.start < SubtreeEnd(items, anchor) /\ a.line.start < moved.end)
       /\ SameSiblingShape(text, i, text, a)
       /\ ~(placed /\ i.parent = a.parent)      \* nothing to do: an empty change
       /\ Accepted(Len(text), patches)
       /\ OriginalsSurvive(text, items, d.source, cand, patches, SubtreeIds(items, k),
                           ParentOf(items, k), ParentOf(items, anchor))
       /\ Placed(text, items, k, d.source, cand, offset, a, InOrder(patches))
       /\ Apply(d)

ItemReplacements ==
    /\ edits < MaxEdits
    /\ \/ \E k \in DOMAIN items, c \in ItemContents : ReplaceListItem(k, c)
       \/ \E k \in Targets, f \in ItemFragments : ReplaceListItemSubtree(k, f)
       \/ \E k \in Targets : RemoveListItem(k)

ItemInsertions ==
    /\ edits < MaxEdits
    /\ \/ \E k \in Targets, f \in ItemFragments, after \in BOOLEAN : InsertListItem(k, f, after)
       \/ \E k \in Targets, f \in ItemFragments : AppendListItemChild(k, f)
       \/ \E k \in Targets, c \in ItemContents, o \in BOOLEAN : AppendFirstListItemChild(k, c, o)
       \/ \E k, a \in Targets, after \in BOOLEAN : MoveListItem(k, a, after)

-----------------------------------------------------------------------------
(***************************************************************************)
(* The tree the parser went through, as the reference for the relations    *)
(* the code derives from line anchors.                                     *)
(***************************************************************************)
RECURSIVE ItemsIn(_, _), Lines(_)

\* Every list item, with the item that holds its list directly, if any.
ItemsIn(tree, holder) ==
    UNION {LET b == tree[k] IN
           CASE b.kind = "list" ->
                  UNION {{[item |-> b.sub[j], holder |-> holder]}
                            \union ItemsIn(b.sub[j].sub, <<b.sub[j]>>) : j \in DOMAIN b.sub}
             [] b.kind = "quote" -> ItemsIn(b.sub, << >>)
             [] OTHER -> {} : k \in DOMAIN tree}

\* The lines on which anything in a tree starts.
Lines(tree) == {tree[k].at : k \in DOMAIN tree} \union UNION {Lines(tree[k].sub) : k \in DOMAIN tree}

Anchor(x) ==
    LET direct == SelectSeq(x.sub, LAMBDA b : b.kind \notin {"list", "quote", "fence", "break"})
    IN IF direct = << >> THEN None ELSE direct[1].at

\* The tree item a promoted item was made from: the innermost on its line.
Origin(tree, i) ==
    CHOOSE x \in ItemsIn(tree, << >>) :
        /\ x.item.at = i.line.start
        /\ x.item.sub # << >> /\ x.item.sub[1].kind = "paragraph"

ParentsTrue ==
    LET tree == document.tree
    IN \A k \in DOMAIN items :
             LET x == Origin(tree, items[k])
                 lists == SelectSeq(x.item.sub, LAMBDA b : b.kind = "list")
             IN /\ items[k].parent = IF x.holder = << >> THEN None ELSE Anchor(x.holder[1])
                /\ items[k].count = FoldLeft(LAMBDA n, b : n + Len(b.sub), 0, lists)

SubtreesOwn ==
    LET tree == document.tree
    IN \A k \in Targets :
          LET r == SubtreeRange(items, k) IN
          Lines(<<Origin(tree, items[k]).item>>)
            = {p \in Lines(tree) : r.start <= p /\ p < r.end}

(***************************************************************************)
(* Every promoted item stands on a line of its own, in source order, has   *)
(* the item around it as its parent, and as many children as the lists     *)
(* directly in it hold (attachDirectListParents finds them by comparing    *)
(* anchors of lists; resolveListItemModel refuses a document for less).    *)
(* What a complete subtree calls its own, and a removal or a move takes    *)
(* away, is all that stands in the item and nothing else: whatever starts  *)
(* inside its lines belongs to it, and nothing of it starts elsewhere.     *)
(***************************************************************************)
ItemsTrue ==
    /\ InStrictOrder(items)
    /\ ParentsTrue
    /\ SubtreesOwn

(***************************************************************************)
(* An accepted edit changes the forest of promoted items in the one place  *)
(* it is about; each other item keeps its line and its parent.             *)
(***************************************************************************)
Abstract == INSTANCE ItemForest WITH forest <- view.forest
EditsOneTree == Abstract!Spec
=============================================================================
