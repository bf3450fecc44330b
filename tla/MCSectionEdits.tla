--------------------------- MODULE MCSectionEdits ---------------------------
(***************************************************************************)
(* Small texts, each with a construct that makes a plain splice go wrong:  *)
(* a preamble, a Setext heading that a paragraph can join, a fence that    *)
(* swallows headings, a missing last line ending, a skipped level.         *)
(* MCSections.cfg takes every sequence of two edits of MCTexts, and every  *)
(* pair of changes of PairTexts, combined; MCOrphan.cfg one text.          *)
(***************************************************************************)
EXTENDS SectionEdits

MCReplacementCharacter == <<"EF", "BF", "BD">>

MCLevel == [A |-> 1, E |-> 1, B |-> 2, C |-> 2, D |-> 3]

NoBullets == << >>
NoLinks == [t \in {} |-> << >>]

MCTexts ==
    {<<"x", "nl", "A", "nl", "y", "nl", "B", "nl", "C", "nl", "E", "nl">>,
     <<"A", "nl", "x", "nl", "E", "nl", "t", "nl", "=", "nl", "B", "nl">>,
     <<"A", "nl", "F", "nl", "E", "nl", "F", "nl", "B", "nl">>,
     <<"A", "nl", "D", "nl", "C", "nl", "D", "nl", "E">>,
     <<"A", "nl", "B", "nl", "x">>}

MCFragments ==
    {<<"E", "nl">>, <<"C", "nl", "D", "nl", "x">>,
     <<"t", "nl", "=", "nl">>, <<"C", "nl", "F", "nl", "x", "nl">>}

MCBodies == {<< >>, <<"z", "nl">>, <<"F", "nl">>, <<"z">>}

PairTexts ==
    {<<"A", "nl", "x", "nl", "B", "nl", "C", "nl", "t", "nl", "=", "nl">>,
     <<"A", "nl", "B", "nl", "E", "nl", "x", "nl", "C", "nl">>,
     <<"A", "nl", "B", "nl", "F", "nl", "x", "nl", "F", "nl", "E", "nl", "nl">>}
OrphanTexts     == {<<"A", "nl", "B", "nl", "E", "nl">>}
OrphanFragments == {<<"C", "nl">>}
NoTexts         == {}
=============================================================================
