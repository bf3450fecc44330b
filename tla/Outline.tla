------------------------------- MODULE Outline -------------------------------
(***************************************************************************)
(* What the section edits promise: a document is a preamble followed by an *)
(* outline of sections, and every edit does to the outline what its name   *)
(* says and to the text of every other section nothing.                    *)
(***************************************************************************)
EXTENDS Integers, Sequences

CONSTANTS
    Forests,    \* outlines that may be inserted
    Bodies      \* bodies that may be given to a section

VARIABLES
    preamble,   \* what precedes the first section
    forest      \* the sections in order, each [level, heading, body]

vars == <<preamble, forest>>

\* A section's subtree ends before the next section of its rank or a higher.
Subtree(f, i) ==
    {k \in DOMAIN f : k >= i /\ \A j \in (i + 1)..k : f[j].level > f[i].level}

After(f, i) == CHOOSE l \in (i + 1)..(Len(f) + 1) : Subtree(f, i) = i..(l - 1)

Upto(f, i) == SubSeq(f, 1, i - 1)
From(f, i) == SubSeq(f, i, Len(f))
Tree(f, i) == SubSeq(f, i, After(f, i) - 1)

\* One tree, rooted at a level.
IsTree(g, level) ==
    /\ g # << >>
    /\ g[1].level = level
    /\ \A k \in 2..Len(g) : g[k].level > level

Insert(f, i, g) == Upto(f, i) \o g \o From(f, i)
Without(f, i)   == Upto(f, i) \o From(f, After(f, i))

\* Where section j of f is once section i's subtree is gone.
Remaining(f, i, j) == IF j < i THEN j ELSE j - (After(f, i) - i)

Remove(f, i) == {Without(f, i)}

Replace(f, i) ==
    {Insert(Without(f, i), i, g) : g \in {h \in Forests : IsTree(h, f[i].level)}}

InsertBefore(f, i) ==
    {Insert(f, i, g) : g \in {h \in Forests : IsTree(h, f[i].level)}}

InsertAfter(f, i) ==
    {Insert(f, After(f, i), g) : g \in {h \in Forests : IsTree(h, f[i].level)}}

AppendChild(f, i) ==
    {Insert(f, After(f, i), g) : g \in {h \in Forests : IsTree(h, f[i].level + 1)}}

\* Moves keep the level, so the anchor has to have it.
Anchors(f, i) == {j \in DOMAIN f \ Subtree(f, i) : f[j].level = f[i].level}

MoveBefore(f, i) ==
    {Insert(Without(f, i), Remaining(f, i, j), Tree(f, i)) : j \in Anchors(f, i)}

MoveAfter(f, i) ==
    {LET rest == Without(f, i)
     IN Insert(rest, After(rest, Remaining(f, i, j)), Tree(f, i)) : j \in Anchors(f, i)}

ReplaceBody(f, i) == {[f EXCEPT ![i].body = b] : b \in Bodies}

Edits(f, i) ==
    UNION {Remove(f, i), Replace(f, i), InsertBefore(f, i), InsertAfter(f, i),
           AppendChild(f, i), MoveBefore(f, i), MoveAfter(f, i), ReplaceBody(f, i)}

Init == TRUE

Edit ==
    /\ \E i \in DOMAIN forest : forest' \in Edits(forest, i)
    /\ preamble' = preamble

\* Text behind everything belongs to the last section, if there is one.
Begins(a, b) == Len(a) <= Len(b) /\ SubSeq(b, 1, Len(a)) = a

SectionGrows(s, t) ==
    s.level = t.level /\ Begins(s.heading \o s.body, t.heading \o t.body)

AppendText ==
    LET n == Len(forest) IN
    /\ Len(forest') = n
    /\ IF n = 0 THEN Begins(preamble, preamble')
       ELSE /\ preamble' = preamble
            /\ Upto(forest', n) = Upto(forest, n)
            /\ SectionGrows(forest[n], forest'[n])

Next == Edit \/ AppendText

Spec == Init /\ [][Next]_vars
=============================================================================
