---------------------------- MODULE MCStructure -----------------------------
(***************************************************************************)
(* The structural edits on small texts: of lists, of tables, of whole       *)
(* blocks and of front matter.                                             *)
(***************************************************************************)
EXTENDS ListItems, Tables, BlockEdits
LOCAL INSTANCE SequencesExt

MCReplacementCharacter == <<"EF", "BF", "BD">>

TextOf(lines) == FlattenSeq([k \in DOMAIN lines |-> lines[k] \o <<"nl">>])

-----------------------------------------------------------------------------
(***************************************************************************)
(* Lists: every text of an item and one or two lines, the longer ones named *)
(* below, with an end of line at the end and without.                      *)
(***************************************************************************)
A == <<"-", "sp", "a">>
B == <<"sp", "sp", "-", "sp", "b">>
C == <<"1", ".", "sp", "c">>
D == <<"-", "sp", "-", "sp", "d">>
Short == {A, B, << >>}
MCLines == Short \union {C, D, <<"x">>, <<"-">>, <<"sp", "sp", "-", "-", "-">>}

ListTexts ==
    {TextOf(s) : s \in ({A, C, D} \X MCLines) \union ({A} \X Short \X Short)}
    \union {Front(TextOf(<<A, s>>)) : s \in {A, B}}
    \union {TextOf(<<A, B, <<"sp", "sp", "sp", "sp", "-", "sp", "e">>, A>>),
            TextOf(<<A, C, B>>), TextOf(<<B, A>>),
            TextOf(<<<<">", "sp">> \o A, <<">", "sp">> \o B, <<">", "sp">> \o A>>),
            TextOf(<<A, << >>, B, <<"sp", "sp", "x">>>>)}

MCItemFragments ==
    {TextOf(<<<<"-", "sp", "n">>>>), TextOf(<<<<"sp", "sp", "-", "sp", "n">>>>),
     TextOf(<<<<"-", "sp", "n">>, B>>)}
MCItemContents == {<<"m">>, <<"-", "sp", "m">>}

-----------------------------------------------------------------------------
(***************************************************************************)
(* Tables: with outer pipes and without, with rows too short or without a  *)
(* pipe, in a quote with a row that continues it lazily, right behind each *)
(* other, and without a last line ending.                                  *)
(***************************************************************************)
Header == <<"a", "|", "b">>
Dashes == <<"-", "|", "-">>
Body1  == <<"c", "|", "d">>
Outer(row) == <<"|">> \o row \o <<"|">>

TableTexts ==
    {TextOf(<<Outer(Header), <<"|", "-", ":", "|", "-", "|">>,
              <<"|", "sp", "|", "e", "|">>>>),
     TextOf(<<<<"a", "sp", "|", "b">>, <<":", "-", "sp", "|", "sp", "-">>, Body1>>),
     TextOf(<<Header, Dashes, Body1, <<"x">>>>),
     TextOf(<<Outer(Header), Outer(Dashes), <<"|", "c", "\\", "|", "d", "|">>, Outer(Body1)>>),
     Front(TextOf(<<Header, Dashes, Body1, <<"e", "|", "f">>>>)),
     TextOf(<<<<">">> \o Header, <<">">> \o Dashes, <<">">> \o Body1, <<"e", "|", "f">>>>),
     TextOf(<<<<"x">>, <<"|", "a", "|">>, <<"|", "-", "|">>, << >>, Header, Dashes, Body1>>)}

MCRowFragments == {TextOf(<<<<"m", "|", "n">>>>), TextOf(<<Outer(<<"-", "|", "-">>)>>),
                   TextOf(<<<<"m">>>>), TextOf(<<<<"-", "sp", "m", "|", "n">>>>)}
MCNewColumns == {[header |-> <<"m">>, alignment |-> <<TRUE, FALSE>>, body |-> << >>],
                 [header |-> <<"-">>, alignment |-> <<FALSE, FALSE>>, body |-> <<"-", "sp", "n">>]}
MCCellContents == {<<":", "-">>, <<"-", "sp", "m">>, <<"m", "|">>}

(***************************************************************************)
(* Tables with backslashes: a pipe behind two of them ends a cell for the  *)
(* parser and not for the source mapping.                                  *)
(***************************************************************************)
EscapedTexts ==
    {TextOf(<<Outer(Header), Outer(Dashes), <<"|", "c", "\\", "\\", "|", "d", "|", "e", "|">>>>),
     TextOf(<<Outer(Header), Outer(Dashes), <<"|", "c", "\\", "sp", "|", "d", "|">>>>)}

-----------------------------------------------------------------------------
(***************************************************************************)
(* Blocks: a paragraph, a quote, a break, a list item, an empty fence and  *)
(* a heading in every pair, right behind each other and with a blank line  *)
(* between; lists and quotes that a block keeps apart; quotes with a lazy  *)
(* line and alerts, one of them without a body; fences that are closed,    *)
(* open or indented, or end the text.  Only these texts have the words p   *)
(* and q.                                                                  *)
(***************************************************************************)
P == <<"p">>
Q == <<">", "sp", "q">>
Break == <<"*", "*", "*">>
Chunks == {<<P>>, <<P, << >>>>, <<Q>>, <<Q, << >>>>, <<Break>>, <<A>>,
           <<<<"F">>, <<"F">>>>, <<<<"#", "sp", "h">>>>}
Pieces == {<<Q, P>>, <<<<">", "sp", "[!NOTE]">>, Q>>,
           <<<<">", "[!NOTE]">>, <<">">>, <<">", "q">>>>, <<<<">", "[!NOTE]">>, <<">">>>>,
           <<<<"F">>, P, <<"F">>>>, <<<<"sp", "F", "i">>, P, <<"y">>, <<"F">>>>, <<<<"F">>, P>>}

BlockTexts ==
    {TextOf(FlattenSeq(s)) : s \in [1..2 -> Chunks]}
    \union {TextOf(b[1] \o b[2] \o b[1] \o << << >>, P>>) :
              b \in {<<A>>, <<Q>>, <<P, << >>>>} \X {<<P, << >>>>, <<Q>>, <<Break>>, << << >>, P, << >>>>}}
    \union {TextOf(<<P, << >>, Envelope("yaml"), <<"k", ":", "sp", "v">>, Envelope("yaml")>>)}
    \union {TextOf(x \o <<P>>) : x \in Pieces}
    \union {Front(TextOf(x)) : x \in Pieces \union {<<P, <<"F", "i">>>>}}

MCParagraphs == {<<"p">>, <<"m", "nl", "q">>, <<"m", "nl", "nl", "q">>}
MCQuotedLines == {<<<<"m">>>>, <<<<"q">>, << >>, <<"#", "sp", "n">>>>, <<<<"[!NOTE]">>, <<"m">>>>}
MCFenceContents == {<<"q">>, <<"m", "nl", "F">>}
MCInfos == {<< >>, <<"q">>, <<"F">>}

-----------------------------------------------------------------------------
(***************************************************************************)
(* Front matter: fields with plain and quoted values, a comment, keys that *)
(* stand twice, values that are no fields, a TOML table; a body right      *)
(* behind the envelope, behind a blank line, and indented so far that a    *)
(* list item in the envelope would take it; a second envelope behind the   *)
(* first; a fence that is never closed; no envelope.  Only these texts     *)
(* have the word z.                                                        *)
(***************************************************************************)
Yaml == Envelope("yaml")
Toml == Envelope("toml")
Z == <<"z">>
MCKeyBytes == {"k", "l", "m", "v", "w", "z", "-", "."}

FrontTexts ==
    {TextOf(<<Yaml, <<"k", ":", "sp", "v">>, <<"l", ":", "sp", "\"", "v", "\"", "sp", "#">>, Yaml, Z>>),
     TextOf(<<Yaml, <<"k", ":", "sp", "v">>, <<"l", ":">>, <<"-", "sp", "v">>, Yaml, << >>, Z>>),
     TextOf(<<Yaml, <<"k", ":", "v">>, <<"k", ":", "sp", "v">>, <<"l", ":", "sp", "'", "v", "'">>, Yaml, Z>>),
     TextOf(<<Yaml, Yaml, Yaml, <<"k", ":", "sp", "z">>, Yaml>>),
     TextOf(<<Yaml, Yaml, << >>, <<"-", "sp", "z">>, <<"sp", "sp", "-", "sp", "z">>>>),
     TextOf(<<Yaml, <<"k", ":", "sp", "|">>, <<"F">>, Yaml, Z>>),
     TextOf(<<Yaml, Z, Yaml>>),
     Front(TextOf(<<Yaml, <<"k", ":", "sp", "z">>, Yaml>>)),
     TextOf(<<Toml, <<"k", "sp", "=", "sp", "\"", "v", "\"">>, Toml, << >>, <<"sp", "sp", "z">>>>),
     TextOf(<<Toml, <<"k", "sp", "=", "sp", "\"", "v", "\"">>, Toml, Z>>),
     TextOf(<<Toml, <<"-", "sp", "=", "sp", "true">>, <<"k", "=", "v">>, Toml, << >>, <<"sp", "sp", "z">>>>),
     TextOf(<<Toml, <<"k", "=", "'", "v", "'">>, <<"[", "l", "]">>, <<"l", "=", "true">>, Toml, << >>, Z>>),
     TextOf(<<Z>>), TextOf(<<<<">", "sp", "z">>, Z>>)}

MCKeys == {<<"m">>, <<"l">>, <<"-">>}
MCValues == {<<"w">>, <<"-", "sp", "w">>, <<"v", "sp", "#">>, <<"w", "\"">>}

-----------------------------------------------------------------------------
MCTexts == ListTexts \union TableTexts \union BlockTexts \union FrontTexts

\* A bound: a text with the words of BlockTexts, or of FrontTexts, gets no
\* other edits.
Worded  == \E k \in DOMAIN text : text[k] \in {"p", "q"}
Fronted == \E k \in DOMAIN text : text[k] = "z"

Others  == ~Worded /\ ~Fronted

Next ==
    \/ Others  /\ ItemReplacements
    \/ Others  /\ ItemInsertions
    \/ Others  /\ RowEdits
    \/ Others  /\ ColumnEdits
    \/ Worded  /\ ParagraphEdits
    \/ Worded  /\ QuoteEdits
    \/ Worded  /\ FenceEdits
    \/ Fronted /\ EnvelopeEdits
    \/ Fronted /\ FieldEdits

Spec == Init /\ [][Next]_vars

-----------------------------------------------------------------------------
(***************************************************************************)
(* An accepted edit of a block is about one block at the top level, as the *)
(* parser divides the text: it goes, comes or gets another text, and no    *)
(* other one is joined to it, cut in two or read as something else.        *)
(***************************************************************************)
EditsOneBlock == [][Worded => OneAtATime!Edit \/ UNCHANGED view.blocks]_vars

(***************************************************************************)
(* An accepted edit of the front matter changes one entry, or puts or      *)
(* takes the envelope; no other entry becomes or stops being a field, and  *)
(* the body has the same text and the same blocks as before.               *)
(***************************************************************************)
EditsOneField == [][Fronted => OneEntry!Next]_vars
=============================================================================
