------------------------------- MODULE MCScan -------------------------------
(***************************************************************************)
(* Scan of a root that may hold "a" (a directory), "a/b.md", "a/c" and     *)
(* "a/c/d.md" below it, and "e.md" beside it, in every combination the     *)
(* file system allows.                                                     *)
(***************************************************************************)
EXTENDS Scan

CONSTANT Other

File(size, links) == [kind |-> "file", size |-> size, links |-> links]

MCDocs == 0..5
MCParent == [p \in MCDocs |-> <<0, 0, 1, 1, 3, 0>>[p + 1]]
MCMarkdown == {2, 4, 5}
MCContents == {File(2, <<Other>>), File(1, <<5, 5>>)}

Budget(d, b, h, r) == [documents |-> d, bytes |-> b, depth |-> h, relationships |-> r]

MCLimits == {Budget(3, 6, 2, 6), Budget(2, 6, 2, 6), Budget(3, 4, 2, 6),
             Budget(3, 6, 1, 6), Budget(3, 6, 0, 6), Budget(3, 6, 2, 4),
             Budget(0, 6, 2, 6)}
=============================================================================
