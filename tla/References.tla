----------------------------- MODULE References -----------------------------
(***************************************************************************)
(* The edits of reference definitions and links: internal/splice/          *)
(* reference_lifecycle.go, link_edits.go and block_removal_validation.go.  *)
(*                                                                         *)
(* An edit writes its patches, parses the candidate and compares: what it  *)
(* meant to change with what it expects, everything else with where it     *)
(* was, moved by the patches.  A refused edit leaves the document as it    *)
(* is, and so is no step.                                                  *)
(***************************************************************************)
EXTENDS Definitions, Source
LOCAL INSTANCE SequencesExt
LOCAL INSTANCE FiniteSetsExt

CONSTANTS
    Documents,      \* the texts to begin with
    Labels,
    Destinations,
    TitleTexts,
    MaxEdits

VARIABLES
    document,
    view,           \* auxiliary: what the document is to a reader
    edits

vars == <<document, view, edits>>

View(d) == [entries |-> d.entries, prose |-> d.prose]

Init ==
    /\ document \in {Document(t) : t \in Documents}
    /\ view = View(document)
    /\ edits = 0

text == document.source

-----------------------------------------------------------------------------
(***************************************************************************)
(* Where the patches q, in order, leave an offset, a range, a definition   *)
(* and a link.                                                             *)
(***************************************************************************)
Patch(start, end, by) == [start |-> start, end |-> end, text |-> by]

\* offsetAfterPatches: an insertion at p goes before it.
OffsetAfter(p, q) ==
    LET passed == HowMany(q, LAMBDA x : x.start <= p)
    IN IF \A i \in 1..passed : q[i].end <= p THEN p + PrefixDelta(q, passed) ELSE -1

\* rangeBoundariesAfterPatches.
BoundsAfter(r, q)  == Span(OffsetAfter(r.start, q), OffsetAfter(r.end, q))
RangesAfter(rs, q) == [k \in DOMAIN rs |-> RangeAfterPatches(rs[k], q)]

DefinitionAfter(d, q) ==
    [d EXCEPT !.line = RangeAfterPatches(@, q), !.label = RangeAfterPatches(@, q),
              !.dest = RangeAfterPatches(@, q), !.title = RangesAfter(@, q)]

\* A definition by what its mapping says, and not by its number of lines.
Mapping(d) == [line |-> d.line, label |-> d.label, dest |-> d.dest,
               angle |-> d.angle, title |-> d.title]

IsEditable(d, i) == Editable(d.source, d.nodes[i])

KeyOf(d, i) == Key(Part(d.source, d.nodes[i].label))

WithKey(k) == {i \in DOMAIN document.nodes : KeyOf(document, i) = k}

\* uniqueReferenceDefinitionByLabel.
Unique(i) == WithKey(KeyOf(document, i)) = {i} /\ IsEditable(document, i)

LabelText(i) == Part(text, document.nodes[i].label)
DestText(i)  == Part(text, document.nodes[i].dest)
TitleOf(i)   == TitlesOf(text, document.nodes[i].title)

-----------------------------------------------------------------------------
(***************************************************************************)
(* The comparisons.                                                        *)
(***************************************************************************)
\* referenceUsagesMatch; Want gives a usage what the edit expects of it.
UsagesMatch(e, q, Want(_)) ==
    /\ Len(e.usages) = Len(document.usages)
    /\ \A i \in DOMAIN e.usages : LET u == document.usages[i] IN
          /\ OffsetAfter(u.at, q) >= 0
          /\ e.usages[i] = [Want(u) EXCEPT !.at = OffsetAfter(u.at, q)]

Waiting(u) == [image |-> u.image, form |-> u.form, at |-> u.start, ref |-> u.ref]

\* sameUnresolvedReferenceUsagesAfterPatches.
UnresolvedMatch(e, q) ==
    /\ Len(e.unresolved) = Len(document.unresolved)
    /\ \A i \in DOMAIN e.unresolved : LET u == Waiting(document.unresolved[i]) IN
          /\ OffsetAfter(u.at, q) >= 0
          /\ Waiting(e.unresolved[i]) = [u EXCEPT !.at = OffsetAfter(@, q)]

\* sameShiftedReferenceDefinition.
SameDefinition(e, i, q) ==
    /\ IsEditable(document, i) /\ IsEditable(e, i)
    /\ Mapping(e.nodes[i]) = Mapping(DefinitionAfter(document.nodes[i], q))

\* mutatedReferenceDefinitionMatches, of the definition by these texts.
MutatedDefinition(e, i, q, label, title) ==
    LET d == document.nodes[i]
        n == e.nodes[i]
        kept == Len(d.title) = Len(title)
    IN /\ IsEditable(e, i)
       /\ Entry(e.source, n) = [Entry(text, d) EXCEPT !.key = Key(label), !.title = title]
       /\ Part(e.source, n.label) = label
       /\ n.line = BoundsAfter(d.line, q)
       /\ n.dest = RangeAfterPatches(d.dest, q) /\ n.angle = d.angle
       /\ kept => n.title = RangesAfter(d.title, q)

\* referenceDefinitionsMatchAfterMutation.
DefinitionsMatch(e, q, Mutated(_)) ==
    /\ Len(e.nodes) = Len(document.nodes)
    /\ \A i \in DOMAIN e.nodes : Mutated(i) \/ SameDefinition(e, i, q)

Apply(e) ==
    /\ document' = e
    /\ view' = View(e)
    /\ edits' = edits + 1

Candidate(q) == Document(Splice(text, q))

-----------------------------------------------------------------------------
(***************************************************************************)
(* Edits of references: all of them cite by the full form afterwards.      *)
(***************************************************************************)
\* scanBracketContent.
Bracketed(t, p, end) ==
    LET q == FirstOf(t, p + 1, end, {"]"})
    IN IF p < end /\ At(t, p) = "[" /\ q < end /\ q > p + 1
       THEN [ok |-> TRUE, range |-> Span(p + 1, q)] ELSE None

\* MapSimpleReferenceOccurrence, and the patch that makes it cite by.
Occurrence(u, by) ==
    LET end == LineEnd(text, u.at) IN
    Once(Bracketed(text, IF u.image THEN u.at + 1 ELSE u.at, end), LAMBDA label :
        IF ~label.ok THEN None
        ELSE LET next  == label.range.end + 1
                 cites == Part(text, label.range) = u.ref
             IN Once(Bracketed(text, next, end), LAMBDA second :
                  CASE u.form = "full" /\ second.ok ->
                         IF Part(text, second.range) = u.ref
                         THEN [ok |-> TRUE, patch |-> Patch(second.range.start, second.range.end, by)]
                         ELSE None
                    [] u.form = "collapsed" /\ cites ->
                         [ok |-> TRUE, patch |-> Patch(next + 1, next + 1, by)]
                    [] u.form = "shortcut" /\ cites ->
                         [ok |-> TRUE, patch |-> Patch(next, next, <<"[">> \o by \o <<"]">>)]
                    [] OTHER -> None))

ToCite(u, label, dest, title) ==
    [u EXCEPT !.form = "full", !.ref = label, !.dest = dest, !.title = title]

\* PrepareRetargetReferenceOccurrence.
Retarget ==
    \E x \in DOMAIN document.usages, label \in Labels : LET u == document.usages[x] IN
        \E i \in WithKey(Key(label)), o \in {Occurrence(u, label)} :
        /\ u.form # "direct" /\ o.ok
        /\ Unique(i)
        /\ ~(Key(u.ref) = Key(label) /\ u.dest = DestText(i) /\ u.title = TitleOf(i))
        /\ LET q == <<o.patch>> IN \E e \in {Candidate(q)} :
              /\ UsagesMatch(e, q, LAMBDA v :
                     IF v = u THEN ToCite(u, label, DestText(i), TitleOf(i)) ELSE v)
              /\ UnresolvedMatch(e, q)
              /\ DefinitionsMatch(e, q, LAMBDA j : FALSE)
              /\ Apply(e)

RenamedOpenly(e, q, i, label) ==        \* mutant: the references are not compared
    DefinitionsMatch(e, q, LAMBDA j : j = i /\ MutatedDefinition(e, i, q, label, TitleOf(i)))

\* validateReferenceRenameCandidate; cited are the usages that follow.
Renamed(e, q, i, label) ==
    /\ DefinitionsMatch(e, q, LAMBDA j : j = i /\ MutatedDefinition(e, i, q, label, TitleOf(i)))
    /\ UsagesMatch(e, q, LAMBDA u :
           IF u.form # "direct" /\ Key(u.ref) = KeyOf(document, i)
           THEN ToCite(u, label, DestText(i), TitleOf(i)) ELSE u)
    /\ UnresolvedMatch(e, q)

\* PrepareRenameReferenceDefinition.
Rename ==
    \E i \in DOMAIN document.nodes, label \in Labels :
        LET cited == SelectSeq(document.usages, LAMBDA u :
                         u.form # "direct" /\ Key(u.ref) = KeyOf(document, i))
        IN \E os \in {[k \in DOMAIN cited |-> Occurrence(cited[k], label)]} :
        /\ Unique(i)
        /\ WithKey(Key(label)) \subseteq {i}
        /\ LabelText(i) # label
        /\ \A k \in DOMAIN os : os[k].ok
        /\ LET own == Patch(document.nodes[i].label.start, document.nodes[i].label.end, label)
               q == InOrder(<<own>> \o [k \in DOMAIN os |-> os[k].patch])
           IN \E e \in {Candidate(q)} : Renamed(e, q, i, label) /\ Apply(e)

-----------------------------------------------------------------------------
(***************************************************************************)
(* A definition appended.                                                  *)
(***************************************************************************)
\* referenceDefinitionAppendLayout: a blank line is before it.
Separator ==
    LET lines == Lines(text) IN
    IF text = << >> THEN << >>
    ELSE IF At(text, Len(text) - 1) # "nl" THEN <<"nl", "nl">>
    ELSE IF Blank(text, lines[Len(lines)]) THEN << >>
    ELSE <<"nl">>

HasLineEnding == text = << >> \/ \E i \in DOMAIN text : text[i] = "nl"

Without(s, c) == \A i \in DOMAIN s : s[i] # c

Quoted(title) == <<"\"">> \o title \o <<"\"">>

Canonical(label, dest, title) ==
    <<"[">> \o label \o <<"]", ":", " ", "<">> \o dest \o <<">">>
      \o (IF title = NoTitle THEN << >> ELSE <<" ">> \o Quoted(title[1])) \o <<"nl">>

\* The last definition of d, at the offset p, has these texts.
EndsWith(d, p, label, dest, title) ==
    LET i == Len(d.nodes) IN
    /\ i > 0
    /\ IsEditable(d, i) /\ d.nodes[i].line.start = p
    /\ Part(d.source, d.nodes[i].label) = label
    /\ Part(d.source, d.nodes[i].dest) = dest
    /\ TitlesOf(d.source, d.nodes[i].title) = title

\* canonicalReferenceDefinitionMatches.
Alone(d, label, dest, title) == Len(d.nodes) = 1 /\ EndsWith(d, 0, label, dest, title)

\* referenceResolutionAfterAppendMatches: only references that waited for
\* this key are links now.
ResolvedBy(e, key, dest, title) ==
    LET old  == {document.usages[i] : i \in DOMAIN document.usages}
        now  == {e.usages[i] : i \in DOMAIN e.usages}
        open == [i \in DOMAIN document.unresolved |-> Waiting(document.unresolved[i])]
        met  == {open[i] : i \in {j \in DOMAIN open : Key(open[j].ref) = key}}
    IN /\ old \subseteq now
       /\ {u.at : u \in now \ old} = {w.at : w \in met}
       /\ \A u \in now \ old : \E w \in met :
             /\ u.at = w.at /\ u.image = w.image /\ u.form = w.form
             /\ Key(u.ref) = key /\ u.dest = dest /\ u.title = title
       /\ [i \in DOMAIN e.unresolved |-> Waiting(e.unresolved[i])]
            = SelectSeq(open, LAMBDA w : Key(w.ref) # key)

\* PrepareAppendReferenceDefinition and its form with a title.
Append_ ==
    \E label \in Labels, dest \in Destinations, title \in {NoTitle} \cup {<<s>> : s \in TitleTexts} :
        LET by == Canonical(label, dest, title)
            at == Len(text) + Len(Separator)
            q  == <<Patch(Len(text), Len(text), Separator \o by)>>
        IN \E alone \in {Document(by)}, e \in {Candidate(q)} :
        /\ WithKey(Key(label)) = {} /\ HasLineEnding
        /\ Without(dest, ">") /\ \A k \in DOMAIN title : Without(title[k], "\"")
        /\ Alone(alone, label, dest, title)
        /\ Len(e.nodes) = Len(document.nodes) + 1
        /\ \A i \in DOMAIN document.nodes : SameDefinition(e, i, << >>)
        /\ EndsWith(e, at, label, dest, title)
        /\ ResolvedBy(e, Key(label), dest, title)
        /\ Apply(e)

-----------------------------------------------------------------------------
(***************************************************************************)
(* A definition gets, loses or changes its title or destination.           *)
(***************************************************************************)
DestinationEnd(d) == IF d.angle THEN d.dest.end + 1 ELSE d.dest.end

\* prepareReferenceDefinitionTitleMutation.
Retitle(i, p, title) ==
    \E e \in {Candidate(<<p>>)} :
        /\ Unique(i)
        /\ DefinitionsMatch(e, <<p>>, LAMBDA j :
               j = i /\ MutatedDefinition(e, i, <<p>>, LabelText(i), title))
        /\ UsagesMatch(e, <<p>>, LAMBDA u :
               IF /\ u.form # "direct" /\ Key(u.ref) = KeyOf(document, i)
                  /\ u.dest = DestText(i) /\ u.title = TitleOf(i)
               THEN [u EXCEPT !.title = title] ELSE u)
        /\ UnresolvedMatch(e, <<p>>)
        /\ Apply(e)

\* PrepareAddReferenceDefinitionTitle.
AddTitle ==
    \E i \in DOMAIN document.nodes, s \in TitleTexts : LET d == document.nodes[i] IN
        /\ d.title = NoTitle /\ Without(s, "\"")
        /\ Retitle(i, Patch(d.line.end, d.line.end,
                            (IF d.line.end > DestinationEnd(d) THEN << >> ELSE <<" ">>) \o Quoted(s)),
                   <<s>>)

\* PrepareRemoveReferenceDefinitionTitle: with one space before it, not more.
RemoveTitle ==
    \E i \in DOMAIN document.nodes : LET d == document.nodes[i] IN
        /\ d.title # NoTitle /\ IsEditable(document, i)
        /\ LET opener == d.title[1].start - 1
               from   == IF opener = DestinationEnd(d) + 1 /\ At(text, opener - 1) = " "
                         THEN opener - 1 ELSE opener
           IN Retitle(i, Patch(from, d.title[1].end + 1, << >>), NoTitle)

\* What is replaced ends at another place, what is behind it moves.
Resized(r, by) == Span(r.start, r.start + Len(by))

\* PrepareReplaceReferenceDefinitionDestination, ...Title: the definition is
\* looked for in the candidate, whatever else that has.
SetPart(i, r, by, want) ==
    LET p == Patch(r.start, r.end, by) IN
    \E e \in {Candidate(<<p>>)} :
        /\ IsEditable(document, i) /\ Part(text, r) # by
        /\ \E j \in DOMAIN e.nodes : IsEditable(e, j) /\ Mapping(e.nodes[j]) = Mapping(want)
        /\ Apply(e)

SetDestination ==
    \E i \in DOMAIN document.nodes, by \in Destinations :
        LET d == document.nodes[i]
            delta == Len(by) - (d.dest.end - d.dest.start)
        IN SetPart(i, d.dest, by,
                   [d EXCEPT !.line.end = @ + delta, !.dest = Resized(@, by),
                             !.title = [k \in DOMAIN @ |-> Shifted(@[k], delta)]])

SetTitle ==
    \E i \in DOMAIN document.nodes, by \in TitleTexts :
        LET d == document.nodes[i] IN
        /\ d.title # NoTitle /\ IsEditable(document, i)
        /\ d.title[1].start < d.title[1].end
        /\ SetPart(i, d.title[1], by,
                   [d EXCEPT !.line.end = @ + Len(by) - (d.title[1].end - d.title[1].start),
                             !.title = <<Resized(d.title[1], by)>>])

-----------------------------------------------------------------------------
(***************************************************************************)
(* A definition removed: every other node and every usage is where it was. *)
(***************************************************************************)
Survives(r, range) == ~(range.start < r.end /\ r.start < range.end)

\* The nodes that Keep, moved by q.
NodesAfter(d, q, Keep(_)) ==
    LET whole(n) == Span(Outset(d.source, n.line), n.line.end)
        moved(n) == [DefinitionAfter(n, q) EXCEPT !.line = RangeAfterPatches(whole(n), q)]
    IN [definitions |-> {[at |-> Mapping(moved(n)), editable |-> Editable(d.source, n),
                          entry |-> Entry(d.source, n)] :
                            n \in {m \in {d.nodes[i] : i \in DOMAIN d.nodes} : Keep(whole(m))}},
        blocks |-> {[b EXCEPT !.range = RangeAfterPatches(@, q)] :
                       b \in {x \in d.blocks : Keep(x.range)}},
        links  |-> {[image |-> c.image, label |-> RangeAfterPatches(c.label, q),
                     editable |-> EditableLink(d.source, c),
                     leads |-> IF c.image THEN << >> ELSE <<c.dest, c.title>>] :
                       c \in {x \in d.links : Keep(x.label)}}]

\* linkUsagesSurviveRemoval.
UsagesSurvive(e, r, q) ==
    LET kept == SelectSeq(document.usages, LAMBDA u : ~Has(u.at, r))
    IN e.usages = [k \in DOMAIN kept |-> [kept[k] EXCEPT !.at = OffsetAfter(@, q)]]

\* PrepareRemoveReferenceDefinition.
RemoveDefinition ==
    \E i \in DOMAIN document.nodes :
        LET d == document.nodes[i].line
            r == Span(d.start, Min({d.end + 1, Len(text)}))
            q == <<Patch(r.start, r.end, << >>)>>
        IN \E e \in {Candidate(q)} :
        /\ IsEditable(document, i)
        /\ NodesAfter(e, << >>, LAMBDA range : TRUE)
             = NodesAfter(document, q, LAMBDA range : Survives(r, range))
        /\ UsagesSurvive(e, r, q)
        /\ Apply(e)

-----------------------------------------------------------------------------
(***************************************************************************)
(* Edits of direct links and images: the destination, the title or the     *)
(* label, one at a time.  The link is looked for in the candidate.         *)
(***************************************************************************)
LinkMapping(c) == [image |-> c.image, start |-> c.start, end |-> c.end,
                   label |-> c.label, tail |-> c.tail]

SetLinkPart(c, r, by, want) ==
    LET p == Patch(r.start, r.end, by) IN
    \E e \in {Candidate(<<p>>)} :
        /\ by # Part(text, r)
        /\ \E x \in e.links : EditableLink(e.source, x) /\ LinkMapping(x) = LinkMapping(want)
        /\ Apply(e)

TailAfter(tail, delta) ==
    [tail EXCEPT !.end = @ + delta, !.dest = Shifted(@, delta),
                 !.title = [k \in DOMAIN @ |-> Shifted(@[k], delta)]]

\* PrepareReplaceInlineLinkLabel, PrepareReplaceImageAlt.
SetLinkLabel ==
    \E c \in {x \in document.links : EditableLink(text, x)}, by \in Labels :
        LET delta == Len(by) - (c.label.end - c.label.start)
        IN SetLinkPart(c, c.label, by,
               [c EXCEPT !.label = Resized(@, by), !.end = @ + delta,
                         !.tail = TailAfter(@, delta)])

\* PrepareReplaceInlineLinkDestination, PrepareReplaceImageDestination.
SetLinkDestination ==
    \E c \in {x \in document.links : EditableLink(text, x)}, by \in Destinations :
        LET delta == Len(by) - (c.tail.dest.end - c.tail.dest.start)
        IN SetLinkPart(c, c.tail.dest, by,
               [c EXCEPT !.end = @ + delta,
                         !.tail = [TailAfter(@, delta) EXCEPT !.dest = Resized(c.tail.dest, by)]])

\* PrepareReplaceInlineLinkTitle, PrepareReplaceImageTitle.
SetLinkTitle ==
    \E c \in {x \in document.links : EditableLink(text, x)}, by \in TitleTexts :
        /\ c.tail.title # NoTitle
        /\ LET r == c.tail.title[1]
               delta == Len(by) - (r.end - r.start)
           IN /\ r.start < r.end
              /\ SetLinkPart(c, r, by,
                     [c EXCEPT !.end = @ + delta,
                               !.tail.end = @ + delta, !.tail.title = <<Resized(r, by)>>])

-----------------------------------------------------------------------------
Edit ==
    \/ Retarget
    \/ Rename
    \/ Append_
    \/ AddTitle
    \/ RemoveTitle
    \/ SetDestination
    \/ SetTitle
    \/ RemoveDefinition
    \/ SetLinkLabel
    \/ SetLinkDestination
    \/ SetLinkTitle

Next == edits < MaxEdits /\ Edit

Spec == Init /\ [][Next]_vars

B == INSTANCE Bibliography WITH entries <- view.entries, prose <- view.prose

\* An edit changes the one definition or the one link it is about.  In
\* particular a rename takes all its references along and no others, and
\* neither text that only looks like a link nor an open fence, a title on
\* the next line or a second definition of the key changes where some other
\* link leads.
EditsOneEntry == B!Spec
=============================================================================
