----------------------------- MODULE MCChanges -----------------------------
(***************************************************************************)
(* Distinct bytes make every misplaced byte visible.  MCChanges.cfg takes  *)
(* every pair of changes of a text of four bytes, and lets the texts of    *)
(* one byte be written over, by the caller and by others (MaxSaved).       *)
(* MCNul.cfg lets a replacement hold a NUL.                                *)
(*                                                                         *)
(* Beside the changes stands the rendering of a paragraph: each behaviour  *)
(* of MCSpec runs one of the two machines and leaves the other idle.       *)
(***************************************************************************)
EXTENDS Changes

CONSTANT InlineTexts                \* paragraphs to start from

VARIABLES
    part,                           \* the machine that runs
    paragraph, tree, plan           \* the paragraph and its rendering

inlineVars == <<paragraph, tree, plan>>

MCReplacementCharacter == <<"EF", "BF", "BD">>
MCTexts   == {<< >>, <<"x">>}

MCFiles   == {<<"a", "b", "c", "d">>, <<"e", "nul">>, <<"a">>, <<"b">>}
MCTargets == {[start |-> 1, end |-> 4]}

NulFiles == {<<"a", "b", "c">>}
NulTexts == {<<"x">>, <<"nul">>}
NoTargets == {}

\* PrepareReplaceParagraph: the range replaced is the paragraph's, not empty.
ReplaceParagraph ==
    \E r \in SnapshotRanges, text \in Texts : r.start < r.end /\ Prepare(r, text)

-----------------------------------------------------------------------------
(***************************************************************************)
(* Paragraphs typed token by token, and longer ones: nested and touching   *)
(* emphasis, runs whose lengths add up to multiples of three, an opener    *)
(* used up in parts, tabs before delimiters, strikethrough next to both    *)
(* markers, line breaks of both kinds, code spans and references.          *)
(***************************************************************************)
MCTokens == {"*", "_", "~", "a", " "}

MCInlineTexts ==
    {<< >>,
     <<"&sp", "a", "nl", "&sp">>,
     <<"*", "*", "*", "a", "*", "*", "a", "*">>,
     <<"*", "a", "*", "*", "a", "*", "*", "a", "*">>,
     <<"*", "_", "*", "a", "*", "_", "*">>,
     <<"_", "_", "_", "a", "*", "a", "*", "_", "_", "_">>,
     <<"*", "*", "a", "*", "a", "*", "*", "*", "a", "*">>,
     <<"*", "*", "*", "*", "a", "*", "*", "*", "*">>,
     <<"*", "*", "a", "~", "~", "a", "*", "*", "~", "~">>,
     <<"~", "*", "a", "*", "~", "_", "a", "_">>,
     <<"*", "a", "&tab", "*", "*", "a", "*", "*", "*">>,
     <<"a", "&tab", "_", "a", "_", "*", "a", "*">>,
     <<"*", "&sp", "a", "\\nl", "&sp", "a", "*">>,
     <<"*", "a", "nl", "_", "a", "_", " ", " ", "nl", "a", "*">>,
     <<"*", "*", "code", "*", "*", "\\*", "*", "a", "*">>,
     <<"_", "a", "\\_", ".", "_", "~", "\\~", "a", "~">>}

-----------------------------------------------------------------------------
Inline == INSTANCE CanonicalInline WITH
              text         <- paragraph,
              Tokens       <- MCTokens,
              MaxLength    <- 6,
              InitialTexts <- InlineTexts

ChangesIdle == file = << >> /\ writes = 0 /\ snapshot = NoDocument /\ pool = << >>
InlineIdle  == paragraph = << >> /\ tree = << >> /\ plan = << >>

MCInit ==
    \/ part = "changes" /\ Init /\ InlineIdle
    \/ part = "inline"  /\ Inline!Init /\ ChangesIdle

MCNext ==
    \/ part = "changes" /\ Next /\ UNCHANGED <<part, inlineVars>>
    \/ part = "inline"  /\ Inline!Next /\ UNCHANGED <<part, vars>>

MCSpec == MCInit /\ [][MCNext]_<<part, vars, inlineVars>>

ParagraphSpec ==
    /\ part = "changes" /\ Init /\ InlineIdle
    /\ [][(Parse \/ ReplaceParagraph) /\ UNCHANGED <<part, inlineVars>>]_<<part, vars, inlineVars>>

-----------------------------------------------------------------------------
\* The delimiter resolver, with its index of openers, pairs the runs of every
\* paragraph as CommonMark does.
ResolverExact == Inline!ResolverExact

\* A rendered paragraph reads back as the tree that was rendered.
RoundTrip == Inline!RoundTrip

\* Thinning out the plans loses neither the only way to write the tree nor
\* the best one.
PruningExact == Inline!PruningExact
=============================================================================
