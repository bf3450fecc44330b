---------------------------- MODULE BlockSequence ----------------------------
(***************************************************************************)
(* What the block edits promise: a document is a sequence of blocks, and   *)
(* an edit takes one out, puts a paragraph in or gives one another text.   *)
(***************************************************************************)
EXTENDS Integers, Sequences
LOCAL INSTANCE SequencesExt

VARIABLE blocks     \* of each: its kind and its text

RemoveBlock == \E k \in DOMAIN blocks : blocks' = RemoveAt(blocks, k)

InsertParagraph ==
    \E k \in DOMAIN blocks' : blocks'[k].kind = "paragraph" /\ blocks = RemoveAt(blocks', k)

ReplaceText ==
    \E k \in DOMAIN blocks :
        k \in DOMAIN blocks' /\ blocks' = [blocks EXCEPT ![k].text = blocks'[k].text]

Edit == RemoveBlock \/ InsertParagraph \/ ReplaceText
=============================================================================
