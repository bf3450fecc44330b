------------------------------ MODULE MCFollow ------------------------------
(***************************************************************************)
(* Follow on three documents.  Document 0 sorts first.  The contents give  *)
(* cycles, self links, links to several documents, a link that leaves the  *)
(* workspace, and files long enough to exhaust the byte budget; the        *)
(* budgets are one ample set, one that is invalid, and one for each limit  *)
(* that these documents can just exceed.                                   *)
(***************************************************************************)
EXTENDS Follow

CONSTANT Other

File(size, links) == [kind |-> "file", size |-> size, links |-> links]

MCDocs == 0..2
MCContents == {File(1, << >>), File(2, <<1, Other, 1>>), File(1, <<2, 0>>)}

Budget(d, b, h, r) == [documents |-> d, bytes |-> b, depth |-> h, relationships |-> r]

MCLimits == {Budget(3, 6, 2, 9), Budget(2, 6, 2, 9), Budget(3, 3, 2, 9),
             Budget(3, 6, 1, 9), Budget(3, 6, 2, 4), Budget(3, 6, 2, 0)}

MCEntries == {<<0>>, <<1, 0, 1>>, <<2>>, << >>, <<2, BadEntry>>}
=============================================================================
