---------------------------- MODULE SectionEdits ----------------------------
(***************************************************************************)
(* Edits of whole sections.  Each Prepare operation computes the patches   *)
(* of its change, applies them to the snapshot, parses the candidate and   *)
(* accepts the change only if the headings of the candidate are where the  *)
(* operation means them to be.  The caller holds what was accepted, may    *)
(* combine two changes (ComposeChanges), and applies one; then it parses   *)
(* the result.                                                             *)
(*                                                                         *)
(* The texts hold no NUL, so a candidate is the plain splice.              *)
(***************************************************************************)
EXTENDS Markdown, Continuity

(***************************************************************************)
(* What ComposeChanges compares beside the patches: the document model as  *)
(* two sequences of views, of the nodes and of the links, without their    *)
(* positions.  What each change does alone to such a sequence has to be    *)
(* what both do together.                                                  *)
(***************************************************************************)
View(d, node) ==
    [kind |-> node.kind, level |-> node.level, bytes |-> Bytes(d.source, node)]

Views(d)     == [k \in DOMAIN d.nodes |-> View(d, d.nodes[k])]
LinkViews(d) == [k \in DOMAIN d.links |-> d.links[k].destination]

(***************************************************************************)
(* newCompositionDelta: what is between the longest common prefix and the  *)
(* longest common suffix of the rest.                                      *)
(***************************************************************************)
CommonPrefix(a, b) ==
    Max({n \in 0..Min({Len(a), Len(b)}) : SubSeq(a, 1, n) = SubSeq(b, 1, n)})

Middle(a, b) ==
    LET prefix == CommonPrefix(a, b)
        suffix == CommonPrefix(Reverse(SubSeq(a, prefix + 1, Len(a))),
                               Reverse(SubSeq(b, prefix + 1, Len(b))))
    IN [start |-> prefix,
        end   |-> Len(a) - suffix,
        text  |-> SubSeq(b, prefix + 1, Len(b) - suffix)]

(***************************************************************************)
(* newCompositionDeltas: views that are as many as before are compared     *)
(* place by place, and every longest run of differences is a delta.        *)
(***************************************************************************)
Differ(a, b, r) == \A i \in (r.start + 1)..r.end : a[i] # b[i]

Runs(a, b) ==
    LET differing == {r \in Ranges(Len(a)) : r.start < r.end /\ Differ(a, b, r)}
    IN {r \in differing :
           ~\E o \in differing : o # r /\ o.start <= r.start /\ r.end <= o.end}

Deltas(a, b) ==
    IF Len(a) # Len(b) THEN <<Middle(a, b)>>
    ELSE LET runs == SetToSeq(Runs(a, b))
         IN [k \in DOMAIN runs |-> [start |-> runs[k].start,
                                    end   |-> runs[k].end,
                                    text  |-> Bytes(b, runs[k])]]

(***************************************************************************)
(* expectedCompositionModel: the deltas of the candidates, which must not  *)
(* meet, applied to the views of the snapshot.                             *)
(***************************************************************************)
DeltasOf(views, candidates) ==
    InOrder(FlattenSeq([i \in DOMAIN candidates |-> Deltas(views, candidates[i])]))

ViewsAgree(views, candidates, together) ==
    LET deltas == DeltasOf(views, candidates) IN
    /\ NeighboursDisjoint(deltas)
    /\ together = Splice(views, deltas)

ModelTrusted(d, candidates, together) == TRUE      \* mutant: patches suffice
ModelAgrees(d, candidates, together) ==
    /\ ViewsAgree(Views(d), [i \in DOMAIN candidates |-> Views(candidates[i])],
                  Views(together))
    /\ ViewsAgree(LinkViews(d), [i \in DOMAIN candidates |-> LinkViews(candidates[i])],
                  LinkViews(together))

-----------------------------------------------------------------------------
CONSTANTS
    InitialTexts,  \* texts that are edited step by step
    ComposedTexts, \* texts whose changes are held together and combined
    Fragments,     \* Markdown given for a section
    NewBodies,     \* Markdown given for a section's body
    MaxPool,       \* bound: operations prepared on one document
    MaxEdits       \* bound: changes applied, step by step

ASSUME TextAssumption ==
    \A s \in InitialTexts \cup ComposedTexts \cup Fragments \cup NewBodies :
        s \in Seq(ToSet(s))

ASSUME BoundsAssumption == MaxPool \in Nat /\ MaxEdits \in Nat

VARIABLES
    doc,     \* the document parsed last
    pool,    \* accepted changes, each with the operations that prepared it
    edits,   \* how many changes were applied
    batch    \* bound: operations held at once

vars == <<doc, pool, edits, batch>>

sections == doc.sections

Targets == DOMAIN sections

Init ==
    /\ \/ batch = 1 /\ \E s \in InitialTexts : doc = Doc(s)
       \/ batch = MaxPool /\ \E s \in ComposedTexts : doc = Doc(s)
    /\ pool = << >>
    /\ edits = 0

(***************************************************************************)
(* newChanges and prepareCandidateChanges.                                 *)
(***************************************************************************)
Patch(start, end, text) == [start |-> start, end |-> end, text |-> text]

Change(patches) ==
    [fingerprint     |-> Sum(doc.source),
     patches         |-> InOrder(patches),
     relocations     |-> {},
     correspondences |-> {}]

Candidate(c) == Doc(Splice(doc.source, c.patches))

Prepared == FlattenSeq([k \in DOMAIN pool |-> pool[k].operations])

MayApply == edits < IF batch = 1 THEN MaxEdits ELSE 1

Hold(operation, c) ==
    /\ Len(Prepared) < batch
    /\ MayApply
    /\ pool' = Append(pool, [operations |-> <<operation>>, change |-> c])
    /\ UNCHANGED <<doc, edits, batch>>

StartsInside(section, r) == Holds(r, section.range.start)

\* sectionSubtreeEndIndex: the first section behind i's subtree.
SubtreeEnd(ss, i) ==
    i + Cardinality({k \in DOMAIN ss : StartsInside(ss[k], ss[i].range)})

(***************************************************************************)
(* validateOriginalSectionHeadings: the sections ss of the snapshot d are  *)
(* the candidate's sections from index first on, with the same heading     *)
(* bytes where the patches move them to.                                   *)
(***************************************************************************)
SameHeading(d, section, other, source, expected) ==
    /\ other.level = section.level
    /\ other.kind = section.kind
    /\ other.heading = expected
    /\ Bytes(source, other.heading) = Bytes(d.source, section.heading)

HeadingsKept(d, candidate, first, ss, patches) ==
    \A k \in DOMAIN ss :
        /\ first + k - 1 \in DOMAIN candidate.sections
        /\ SameHeading(d, ss[k], candidate.sections[first + k - 1], candidate.source,
                       RangeAfterPatches(ss[k].heading, patches))

(***************************************************************************)
(* parseSectionFragment: the Markdown given is one section tree, whole.    *)
(***************************************************************************)
IsFragment(fragment, level) ==
    LET f == Doc(fragment) IN
    /\ f.sections # << >>
    /\ f.sections[1].level = level
    /\ f.sections[1].range = [start |-> 0, end |-> Len(fragment)]

(***************************************************************************)
(* validateInsertedSectionFragment: the fragment's sections are those of   *)
(* the candidate from index first on, shifted by offset.                   *)
(***************************************************************************)
FragmentInserted(candidate, fragment, first, offset) ==
    LET f == Doc(fragment) IN
    \A k \in DOMAIN f.sections :
        /\ first + k - 1 \in DOMAIN candidate.sections
        /\ LET inserted == candidate.sections[first + k - 1]
               given == f.sections[k]
           IN /\ inserted.level = given.level
              /\ inserted.kind = given.kind
              /\ inserted.heading = Shifted(given.heading, offset)
              /\ inserted.range = Shifted(given.range, offset)
              /\ inserted.bodyRange = Shifted(given.bodyRange, offset)

RangeIs(candidate, i, start, length) ==
    /\ i \in DOMAIN candidate.sections
    /\ candidate.sections[i].range = [start |-> start, end |-> start + length]

-----------------------------------------------------------------------------
PrepareRemoveSection(i) ==
    LET section == sections[i]
        patch == Patch(section.range.start, section.range.end, << >>)
        candidate == Candidate(Change(<<patch>>))
        survivors == Picked(sections, {k \in Targets : ~StartsInside(sections[k], section.range)})
    IN /\ Len(candidate.sections) = Len(survivors)
       /\ HeadingsKept(doc, candidate, 1, survivors, <<patch>>)
       /\ Hold([kind |-> "remove", at |-> i], Change(<<patch>>))

PrepareReplaceSection(i, fragment) ==
    LET section == sections[i]
        patch == Patch(section.range.start, section.range.end, fragment)
        candidate == Candidate(Change(<<patch>>))
        count == Len(Doc(fragment).sections)
        after == SubtreeEnd(sections, i)
    IN /\ IsFragment(fragment, section.level)
       /\ Len(candidate.sections) = i - 1 + count + Len(sections) - after + 1
       /\ HeadingsKept(doc, candidate, 1, SubSeq(sections, 1, i - 1), <<patch>>)
       /\ FragmentInserted(candidate, fragment, i, section.range.start)
       /\ HeadingsKept(doc, candidate, i + count, SubSeq(sections, after, Len(sections)), <<patch>>)
       /\ RangeIs(candidate, i, section.range.start, Len(fragment))
       /\ Hold([kind |-> "replace", at |-> i], Change(<<patch>>))

(***************************************************************************)
(* validateSectionInsertionCandidate, shared by the three insertions: the  *)
(* fragment becomes section number index.                                  *)
(***************************************************************************)
InsertionUnchecked(candidate, fragment, index, patch) == TRUE  \* mutant: trusted
InsertionHolds(candidate, fragment, index, patch) ==
    LET count == Len(Doc(fragment).sections) IN
    /\ Len(candidate.sections) = Len(sections) + count
    /\ HeadingsKept(doc, candidate, 1, SubSeq(sections, 1, index - 1), <<patch>>)
    /\ FragmentInserted(candidate, fragment, index, patch.start)
    /\ HeadingsKept(doc, candidate, index + count,
                    SubSeq(sections, index, Len(sections)), <<patch>>)
    /\ RangeIs(candidate, index, patch.start, Len(fragment))

PrepareInsertSection(i, fragment, after) ==
    LET section == sections[i]
        index == IF after THEN SubtreeEnd(sections, i) ELSE i
        at == IF after THEN section.range.end ELSE section.range.start
        patch == Patch(at, at, fragment)
    IN /\ IsFragment(fragment, section.level)
       /\ InsertionHolds(Candidate(Change(<<patch>>)), fragment, index, patch)
       /\ Hold([kind |-> "insert", at |-> i], Change(<<patch>>))

PrepareAppendSectionChild(i, fragment) ==
    LET parent == sections[i]
        index == SubtreeEnd(sections, i)
        patch == Patch(parent.range.end, parent.range.end, fragment)
        candidate == Candidate(Change(<<patch>>))
    IN /\ parent.level < 6
       /\ IsFragment(fragment, parent.level + 1)
       /\ InsertionHolds(candidate, fragment, index, patch)
       /\ index \in DOMAIN candidate.sections
       /\ candidate.sections[index].parent = i
       /\ Hold([kind |-> "child", at |-> i, fragment |-> fragment], Change(<<patch>>))

(***************************************************************************)
(* planSectionMove: the order the sections should end up in, and the       *)
(* indices the moved section and its anchor get.                           *)
(***************************************************************************)
MovePlan(i, anchor, after) ==
    LET movedEnd == SubtreeEnd(sections, i)
        moved == SubSeq(sections, i, movedEnd - 1)
        rest == SubSeq(sections, 1, i - 1)
                  \o SubSeq(sections, movedEnd, Len(sections))
        anchorIndex == IF anchor < i THEN anchor ELSE anchor - Len(moved)
        index == IF after THEN SubtreeEnd(rest, anchorIndex) ELSE anchorIndex
    IN [expected |-> SubSeq(rest, 1, index - 1) \o moved \o SubSeq(rest, index, Len(rest)),
        moved    |-> index,
        anchor   |-> IF index <= anchorIndex THEN anchorIndex + Len(moved)
                     ELSE anchorIndex,
        at       |-> IF after THEN sections[anchor].range.end
                     ELSE sections[anchor].range.start]

(***************************************************************************)
(* validateSectionHeadingSequence: the headings in the expected order.     *)
(***************************************************************************)
HeadingSequence(candidate, expected) ==
    /\ Len(candidate.sections) = Len(expected)
    /\ \A k \in DOMAIN expected :
          LET found == candidate.sections[k] IN
          /\ found.level = expected[k].level
          /\ found.kind = expected[k].kind
          /\ Bytes(candidate.source, found.heading)
                = Bytes(doc.source, expected[k].heading)

(***************************************************************************)
(* validateMovedSectionSubtree: the moved tree as it was, at its new       *)
(* offset.                                                                 *)
(***************************************************************************)
SubtreeMoved(candidate, i, first, offset) ==
    LET from == sections[i].range.start
        rebased(r) == Shifted(r, offset - from)
    IN \A k \in i..(SubtreeEnd(sections, i) - 1) :
          LET moved == candidate.sections[first + k - i] IN
          /\ moved.range = rebased(sections[k].range)
          /\ moved.bodyRange = rebased(sections[k].bodyRange)
          /\ moved.heading = rebased(sections[k].heading)
          /\ k # i => moved.parent = first + sections[k].parent - i

\* movedRangeCandidateOffset
MovedOffset(r, at) == IF at <= r.start THEN at ELSE at - (r.end - r.start)

MoveHolds(candidate, i, plan) ==
    LET r == sections[i].range
        offset == MovedOffset(r, plan.at)
    IN /\ HeadingSequence(candidate, plan.expected)
       /\ SubtreeMoved(candidate, i, plan.moved, offset)
       /\ RangeIs(candidate, plan.moved, offset, r.end - r.start)
       /\ candidate.sections[plan.moved].parent = candidate.sections[plan.anchor].parent

PrepareMoveSection(i, anchor, after) ==
    LET r == sections[i].range
        plan == MovePlan(i, anchor, after)
        patches == <<Patch(r.start, r.end, << >>),
                     Patch(plan.at, plan.at, Bytes(doc.source, r))>>
        change == [Change(patches) EXCEPT
                      !.relocations = {[source |-> r, at |-> plan.at]}]
        operation == [kind |-> "move", at |-> i]
    IN /\ i # anchor
       /\ sections[i].level = sections[anchor].level
       /\ \/ /\ plan.expected = sections
             /\ Hold(operation, Change(<< >>))
          \/ /\ plan.expected # sections
             /\ ~(r.start < plan.at /\ plan.at < r.end)
             /\ Accepted(Len(doc.source), patches)
             /\ MoveHolds(Candidate(change), i, plan)
             /\ Hold(operation, change)

BodyPatch(d, i, body) ==
    Patch(d.sections[i].bodyRange.start, d.sections[i].bodyRange.end, body)

BodyHolds(d, candidate, i, body) ==
    LET start == d.sections[i].bodyRange.start IN
    /\ Len(candidate.sections) = Len(d.sections)
    /\ HeadingsKept(d, candidate, 1, d.sections, <<BodyPatch(d, i, body)>>)
    /\ candidate.sections[i].bodyRange = [start |-> start, end |-> start + Len(body)]

PrepareReplaceSectionBody(i, body) ==
    LET change == Change(<<BodyPatch(doc, i, body)>>)
    IN /\ BodyHolds(doc, Candidate(change), i, body)
       /\ Hold([kind |-> "body", at |-> i], change)

(***************************************************************************)
(* PrepareAppendReferenceDefinition, of a label not defined yet: behind    *)
(* the text and a blank line, which the layout adds if there is none.      *)
(***************************************************************************)
Ended(s)      == Last(s) = "nl"
BlankEnded(s) == Ended(s) /\ (Len(s) = 1 \/ s[Len(s) - 1] = "nl")

AppendLayout(s) ==
    CASE s = << >> \/ BlankEnded(s)   -> << >>
      [] s # << >> /\ ~Ended(s)       -> <<"nl", "nl">>
      [] OTHER                        -> <<"nl">>

DefinitionsOf(d) == {n \in ToSet(d.nodes) : n.kind = "definition"}

PrepareAppendDefinition(label) ==
    LET s == doc.source
        prefix == AppendLayout(s)
        change == Change(<<Patch(Len(s), Len(s), prefix \o <<label, "nl">>)>>)
    IN /\ DefinitionsOf(doc) = {}
       /\ s = << >> \/ "nl" \in ToSet(s)
       /\ \E found \in DefinitionsOf(Candidate(change)) :
             /\ DefinitionsOf(Candidate(change)) = {found}
             /\ found.start = Len(s) + Len(prefix)
       /\ Hold([kind |-> "definition"], change)

(***************************************************************************)
(* ComposeChanges of two held changes: of the same snapshot, with patches  *)
(* that do not meet, and with the document model that both add up to.      *)
(***************************************************************************)
Combined(c, d) ==
    [Change(c.patches \o d.patches) EXCEPT
        !.relocations = c.relocations \cup d.relocations,
        !.correspondences = c.correspondences \cup d.correspondences]

Compose ==
    /\ Len(pool) = 2
    /\ LET c == pool[1].change
           d == pool[2].change
       IN /\ c.fingerprint = Sum(doc.source) /\ d.fingerprint = Sum(doc.source)
          /\ Accepted(Len(doc.source), c.patches \o d.patches)
          /\ ModelAgrees(doc, <<Candidate(c), Candidate(d)>>, Candidate(Combined(c, d)))
          /\ pool' = <<[operations |-> pool[1].operations \o pool[2].operations,
                        change     |-> Combined(c, d)]>>
    /\ UNCHANGED <<doc, edits, batch>>

(***************************************************************************)
(* Apply a change and parse the result; the changes held are then stale.   *)
(***************************************************************************)
Apply(i) ==
    /\ i \in DOMAIN pool
    /\ MayApply
    /\ doc' = Candidate(pool[i].change)
    /\ pool' = << >>
    /\ edits' = edits + 1
    /\ UNCHANGED batch

Next ==
    \/ \E i \in Targets : PrepareRemoveSection(i)
    \/ \E i \in Targets, f \in Fragments : PrepareReplaceSection(i, f)
    \/ \E i \in Targets, f \in Fragments, after \in BOOLEAN :
          PrepareInsertSection(i, f, after)
    \/ \E i \in Targets, f \in Fragments : PrepareAppendSectionChild(i, f)
    \/ \E i, anchor \in Targets, after \in BOOLEAN :
          PrepareMoveSection(i, anchor, after)
    \/ \E i \in Targets, body \in NewBodies : PrepareReplaceSectionBody(i, body)
    \/ \E label \in Definitions : PrepareAppendDefinition(label)
    \/ Compose
    \/ \E i \in 1..MaxPool : Apply(i)

Spec == Init /\ [][Next]_vars

-----------------------------------------------------------------------------
Held == {pool[i].change : i \in DOMAIN pool}

TypeOK ==
    /\ edits \in 0..MaxEdits
    /\ Len(Prepared) <= batch
    /\ \A c \in Held :
          /\ c.fingerprint = Sum(doc.source)
          /\ Accepted(Len(doc.source), c.patches)
          /\ RelocationsBuilt(c)

(***************************************************************************)
(* Every edit that is accepted does to the outline of the document what    *)
(* its name says, and to the text of no other section anything: the        *)
(* checks of a candidate, which look at headings only, are enough, however *)
(* the new text reads once it stands between its neighbours.  Steps that   *)
(* apply one of several changes, combined or not, are left out.  So are    *)
(* documents with a Setext heading whose text begins with a line that is   *)
(* an underline itself (it has nothing in front to underline): a move may  *)
(* bring a paragraph in front of it, whose title it then is, and the bytes *)
(* of the headings, all that is compared, are the same as before.          *)
(***************************************************************************)
UnderlineTitles(d) ==
    \E k \in DOMAIN d.sections :
        LET first == d.sections[k].heading.start + 1
        IN d.source[first] = "=" /\ d.source[first + 1] = "nl"

PreambleOf(d) ==
    IF d.sections = << >> THEN d.source
    ELSE SubSeq(d.source, 1, d.sections[1].range.start)

ForestOf(d) ==
    [k \in DOMAIN d.sections |->
        LET s == d.sections[k]
        IN [level   |-> s.level,
            heading |-> SubSeq(d.source, s.range.start + 1, s.bodyRange.start),
            body    |-> Bytes(d.source, s.bodyRange)]]

O == INSTANCE Outline WITH
        preamble <- PreambleOf(doc),
        forest   <- ForestOf(doc),
        Forests  <- {ForestOf(Doc(f)) : f \in Fragments},
        Bodies   <- NewBodies

ImplementsOutline ==
    O!Init /\ [][batch = 1 /\ ~UnderlineTitles(doc) => O!Next]_(O!vars)

(***************************************************************************)
(* Every heading that a change leaves alone, or moves as a whole, is in    *)
(* the text the change produces, with its kind and its bytes, exactly      *)
(* where mapTargetRange expects it: LocalFragmentContinuity and the        *)
(* synchronisation of a table of contents look nowhere else.  ComposeChanges *)
(* must not combine two changes that are each fine but not together.       *)
(***************************************************************************)
Survives(c, section) ==
    \/ \A i \in DOMAIN c.patches : ~Touches(c.patches[i], section.heading)
    \/ \E m \in c.relocations :
          m.source.start <= section.heading.start /\ section.heading.end <= m.source.end

FoundAgain(c, section) ==
    LET candidate == Candidate(c)
        expected == MapTargetRange(c, section.heading, section.heading)
    IN \E k \in DOMAIN candidate.sections :
          /\ candidate.sections[k].heading = expected
          /\ candidate.sections[k].level = section.level
          /\ candidate.sections[k].kind = section.kind
          /\ Bytes(candidate.source, expected) = Bytes(doc.source, section.heading)

TargetsFound ==
    Targets # {} /\ Ended(doc.source) /\ ~UnderlineTitles(doc) =>
    \A c \in Held : \A i \in Targets :
        Survives(c, sections[i]) => FoundAgain(c, sections[i])

(***************************************************************************)
(* "Semantically interacting prepared mutations fail closed": a section    *)
(* appended to a parent is that parent's child in what a composition       *)
(* produces, as it is when the change is applied alone.                    *)
(***************************************************************************)
ArrivesUnder(c, parent, fragment) ==
    LET candidate == Candidate(c)
        heading == MapTargetRange(c, parent.heading, parent.heading)
    IN \E k \in DOMAIN candidate.sections :
          LET child == candidate.sections[k] IN
          /\ Bytes(candidate.source, child.range) = fragment
          /\ child.parent # 0
          /\ candidate.sections[child.parent].heading = heading

ChildrenArrive ==
    \A k \in DOMAIN pool : \A o \in ToSet(pool[k].operations) :
        o.kind = "child" => ArrivesUnder(pool[k].change, sections[o.at], o.fragment)
=============================================================================
