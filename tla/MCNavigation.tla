---------------------------- MODULE MCNavigation ----------------------------
(***************************************************************************)
(* Small texts with a table of contents, links to headings whose titles    *)
(* collide ("a-1" spells out the anchor the second "a" gets), an HTML      *)
(* anchor, and a Setext heading that a new title can turn into a fence.    *)
(*                                                                         *)
(* Beside links to headings stand links to definitions: each behaviour of  *)
(* MCSpec runs one of the two machines and leaves the other idle.          *)
(***************************************************************************)
EXTENDS Navigation

CONSTANT Documents                  \* documents of definitions and links

VARIABLES
    part,                           \* the machine that runs
    refDocument, refView, refEdits  \* definitions and links

refVars == <<refDocument, refView, refEdits>>

MCReplacementCharacter == <<"EF", "BF", "BD">>

MCLevel   == [t \in {"#", "##", "###"} |->
                CASE t = "#" -> 1 [] t = "##" -> 2 [] t = "###" -> 3]
MCBullets == <<"*", " *", "  *">>
MCLinkTo  == [t \in {"L", "M", "H"} |->
                CASE t = "L" -> <<"a">>
                  [] t = "M" -> <<"a", "-1">>
                  [] t = "H" -> <<"h">>]
MCIdOf    == [t \in {"id"} |-> <<"h">>]
MCSlug    == [t \in {"a", "b", "c", "h", "F", "a-1"} |->
                IF t = "a-1" THEN <<"a", "-1">> ELSE <<t>>]

MCSuffix    == [n \in 1..12 |-> "-" \o ToString(n)]

MCTitles    == {<<"a">>, <<"h">>, <<"F">>}
MCFragments == {<<"#", "a", "nl">>}
MCBodies    == {<<"F", "nl", "M", "nl">>}

MCTexts ==
    {<<"#", "c", "nl", "*", "a", "](#", "a", ")", "nl",
       "#", "a", "nl", "M", "nl", "##", "a", "nl">>,
     <<"#", "b", "nl", "a", "nl", "-", "nl", "L", "nl",
       "#", "a-1", "nl", "M", "nl">>,
     <<"#", "a", "nl", "id", "H", "nl", "#", "a", "nl", "nl", "#", "a-1", "nl">>}

TableTexts ==
    {<<"#", "c", "nl", "*", "a", "](#", "a", ")", "nl", "#", "a", "nl">>}

NoBodies == {}
NoTitles == {}

-----------------------------------------------------------------------------
(***************************************************************************)
(* Documents of definitions and links: every form of reference, answered,  *)
(* unanswered and beside a direct link; keys in two cases and on two       *)
(* lines, defined twice, and once over several lines; titles on the same   *)
(* and on the next line; a fence that a removed definition would open.  No *)
(* edit here gives a definition the key of one that is no node and that a  *)
(* reference leads to.                                                     *)
(***************************************************************************)
MCDocuments ==
    {<<"[", "t", "]", "[", "a", "]", " ", "[", "a", "]", " ", "[", "b",
       "]", " ", "[", "A", "]", "[", "]", "nl", "nl", "[", "a", "]",
       ":", " ", "x", "nl">>,
     <<"[", "a", "]", ":", " ", "x", "nl", "[", "b", "]", ":", " ", "<",
       "y", ">", " ", "'", "s", "'", "nl", "nl", "[", "!", "[", "t",
       "]", "(", "u", ")", "]", "[", "b", "]", "nl", "!", "[", "a", "]">>,
     <<"[", "A", "]", ":", " ", "x", "nl", "[", "a", "]", ":", " ", "y",
       "nl", "[", "a", "]", "nl">>,
     <<"[", "t", "]", "[", "c", "]", " ", "[", "d", "]", "nl", "nl",
       "[", "d", "]", ":", "nl", " ", "x", "nl">>,
     <<"[", "a", "]", ":", " ", "x", "nl", "\"", "s", "\"", "nl", "\"",
       "s", "\"", "nl">>,
     <<"[", "a", "]", ":", " ", "x", " ", "nl", "\"", "s", "\"", "t",
       "nl", "F", "nl">>,
     <<"F", "nl", "[", "a", "]", ":", " ", "x", "nl", "F", "nl", "[",
       "[", "t", "]", "(", "y", ")", "]", "[", "a", "]", "nl">>,
     <<"[", "t", "]", "(", "<", "x", ">", " ", "(", "s", ")", ")", "!",
       "[", "t", "[", "a", "]", "]", "(", "y", ")", "nl", "[", "a", "]",
       "(", "x", "nl", "'", "s", "'", ")", "nl", "nl", "[", "a", "]",
       ":", " ", "x", " ", "(", "s", ")", "nl", " ">>,
     << >>,
     <<"[", "t", "nl", "t", "]", "[", "a", "]", "nl", "nl", "[", "a",
       "]", ":", " ", "x">>,
     <<"[", "t", "]", "[", "a", "nl", " ", "b", "]", " ", "[", "t", "]",
       "[", "a", " ", "b", "]", "nl", "nl", "[", "a", " ", "b", "]",
       ":", " ", "x">>,
     <<" ", " ", " ", "[", "b", "]", ":", " ", "x", " ", " ", "'", "s",
       "'", " ", "nl", "[", "a", "]", ":", " ", "x", "(", ")", "nl",
       "[", "t", "]", "[", "b", "]", "[", "a", "]">>,
     <<"!", "[", "t", "]", "[", "c", "]", " ", "[", "\\]", "]", " ",
       "[", "t", "]", "(", "x", " ", "\"", "s", "\"", ")", "nl", "[",
       "b", "]", ":", " ", "x", " ", "t", "nl">>,
     <<"[", "t", "]", "(", "x", ")", "[", "d", "]", "nl", "nl", "[",
       "b", "nl", "b", "]", ":", " ", "x", "nl", "[", "d", "]", ":",
       " ", "x", " ", "'", "s", "nl", "s", "'", "nl", "[", "e", "]",
       ":", " ", "<", ">">>}

(***************************************************************************)
(* A definition with its destination on the next line is no node, but it   *)
(* answers its key; behind it, a second one of the key that is a node.     *)
(***************************************************************************)
HiddenDocuments ==
    {<<"[", "a", "]", ":", "nl", " ", "x", "nl", "[", "a", "]", ":", " ", "y",
       "nl", "nl", "[", "t", "]", "[", "a", "]", "nl">>}

MCLabels       == {<<"a">>, <<"A">>, <<"b">>, <<"c">>, <<"b", "]">>}
MCDestinations == {<<"x">>, <<"y", ")">>, <<"(">>}
MCTitleTexts   == {<<"s">>, <<"'">>, <<"q", "\"">>}
-----------------------------------------------------------------------------
Refs == INSTANCE References WITH
            document     <- refDocument,
            view         <- refView,
            edits        <- refEdits,
            MaxEdits     <- 2,
            Labels       <- MCLabels,
            Destinations <- MCDestinations,
            TitleTexts   <- MCTitleTexts,
            ReplacementCharacter <- <<"u">>

NoReference == [entries |-> << >>, prose |-> << >>]

NavigationIdle == doc = Doc(<< >>) /\ pool = << >> /\ edits = 0 /\ batch = 1
RefsIdle       == refDocument = NoReference /\ refView = NoReference /\ refEdits = 0

MCInit ==
    \/ part = "navigation" /\ Init /\ RefsIdle
    \/ part = "references" /\ Refs!Init /\ NavigationIdle

MCNext ==
    \/ part = "navigation" /\ EditNext /\ UNCHANGED <<part, refVars>>
    \/ part = "references" /\ Refs!Next /\ UNCHANGED <<part, vars>>

MCSpec == MCInit /\ [][MCNext]_<<part, vars, refVars>>

-----------------------------------------------------------------------------
\* An accepted edit changes the one definition or the one link it is about,
\* a rename takes all references to its definition along, and every other
\* link leads where it led before.
EditsOneEntry == Refs!EditsOneEntry
=============================================================================
