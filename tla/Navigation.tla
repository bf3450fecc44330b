----------------------------- MODULE Navigation -----------------------------
(***************************************************************************)
(* Anchors of headings, fragments and the links to them, tables of         *)
(* contents kept in the body of a section, and the edits of headings that  *)
(* disturb them all.  A caller prepares such edits next to section edits,  *)
(* asks what a change does to the links (LocalFragmentContinuity), and     *)
(* lets a table be synchronised with what the combined changes produce     *)
(* (ComposeChangesAndSyncTOC).                                             *)
(*                                                                         *)
(* An ATX heading is a marker token and the tokens of its title; escaping  *)
(* of labels and case folding are in Slug.                                 *)
(***************************************************************************)
EXTENDS SectionEdits

CONSTANTS
    Slug,      \* what githubHeadingSlug makes of each title token
    Suffix,    \* the token that is appended for each number: "-1", "-2", ...
    IdOf,      \* the fragment an HTML anchor token stands for
    Titles     \* titles given to a heading

\* strconv.Itoa writes different numbers differently.
ASSUME SuffixAssumption == \A m, n \in DOMAIN Suffix : Suffix[m] = Suffix[n] => m = n

\* Slugs and titles are sequences of tokens.
ASSUME TitleAssumption ==
    /\ \A t \in DOMAIN Slug : Slug[t] \in Seq(ToSet(Slug[t]))
    /\ \A t \in Titles : t \in Seq(ToSet(t))

(***************************************************************************)
(* The mapping of a heading: its content, without marker or underline.     *)
(***************************************************************************)
ContentRange(section) ==
    IF section.kind = "atx"
    THEN [section.heading EXCEPT !.start = @ + 1]
    ELSE [section.heading EXCEPT !.end = @ - 2]

Title(d, i) == Bytes(d.source, ContentRange(d.sections[i]))

(***************************************************************************)
(* HeadingAnchors: the slugs in source order, each made unique by the      *)
(* first suffix that is free; used remembers the last suffix tried.        *)
(***************************************************************************)
githubHeadingSlug(title) ==
    FlattenSeq([k \in DOMAIN title |->
                  IF title[k] \in DOMAIN Slug THEN Slug[title[k]] ELSE << >>])

Suffixed(base, n) == Append(base, Suffix[n])

FreeSuffix(base, used) ==
    Min({n \in (used[base] + 1)..(used[base] + Cardinality(DOMAIN used) + 1) :
            Suffixed(base, n) \notin DOMAIN used})

\* A slug is in use, and no suffix was tried for it.
Using(used, slug) ==
    [s \in DOMAIN used \cup {slug} |-> IF s = slug THEN 0 ELSE used[s]]

RegisterBase(used, base, n) == [used EXCEPT ![base] = n]    \* mutant
Register(used, base, n) ==
    Using([used EXCEPT ![base] = n], Suffixed(base, n))

uniqueHeadingSlug(base, used) ==
    IF base \notin DOMAIN used
    THEN [value |-> base, used |-> Using(used, base)]
    ELSE LET n == FreeSuffix(base, used)
         IN [value |-> Suffixed(base, n), used |-> Register(used, base, n)]

HeadingAnchors(d) ==
    LET add[k \in 0..Len(d.sections)] ==
            IF k = 0 THEN [anchors |-> << >>, used |-> [x \in {} |-> 0]]
            ELSE LET slug == uniqueHeadingSlug(githubHeadingSlug(Title(d, k)),
                                               add[k - 1].used)
                 IN [anchors |-> Append(add[k - 1].anchors, slug.value),
                     used    |-> slug.used]
    IN add[Len(d.sections)].anchors

(***************************************************************************)
(* fragmentCatalog and resolveFragmentFromCatalog.                         *)
(***************************************************************************)
InCode(d, offset) ==
    \E b \in ToSet(d.nodes) : b.kind = "fence" /\ Holds(b, offset)

Catalog(d) ==
    LET anchors == HeadingAnchors(d)
        ids == {i \in DOMAIN d.source : d.source[i] \in DOMAIN IdOf /\ ~InCode(d, i - 1)}
    IN {[kind |-> "heading", value |-> anchors[k], range |-> d.sections[k].heading] :
           k \in DOMAIN anchors}
       \cup {[kind |-> "id", value |-> IdOf[d.source[i]],
              range |-> [start |-> i - 1, end |-> i]] : i \in ids}

Resolve(d, destination) == {t \in Catalog(d) : t.value = destination}

(***************************************************************************)
(* LocalFragmentContinuity: a relationship that resolved is looked for at  *)
(* its mapped offset, and its target at its mapped range.                  *)
(***************************************************************************)
LinkAt(d, offset) == {k \in DOMAIN d.links : d.links[k].offset = offset}

sameFragmentTargetAfterChange(c, before, after) ==
    /\ before.kind = after.kind
    /\ after.range = MapTargetRange(c, before.range, before.range)

FragmentStatus(c, candidate, link, target) ==
    LET offset == MapOffset(c, link.offset)
        found == LinkAt(candidate, offset)
        after == candidate.links[CHOOSE k \in found : TRUE]
        targets == Resolve(candidate, after.destination)
    IN CASE offset = Lost -> "not reported"
         [] offset # Lost /\ found = {} -> "invalid"
         [] OTHER ->
              IF targets = {} THEN "missing"
              ELSE IF Cardinality(targets) > 1 THEN "ambiguous"
              ELSE IF after.destination # link.destination THEN "retargeted"
              ELSE IF sameFragmentTargetAfterChange(c, target, CHOOSE t \in targets : TRUE)
              THEN "preserved" ELSE "target changed"

(***************************************************************************)
(* PrepareRenameHeading and PrepareSetHeadingLevel: part of a heading is   *)
(* replaced, and the change records where the heading will be.             *)
(***************************************************************************)
Rewriting(section, patch) ==
    [Change(<<patch>>) EXCEPT
        !.correspondences =
            {[id        |-> section.heading,
              source    |-> section.heading,
              candidate |-> [section.heading EXCEPT !.end = @ + Delta(patch)],
              owned     |-> {[start |-> patch.start, end |-> patch.end]}]}]

\* validateRenamedHeading: a heading of that level and style starts there.
RenameTrusted(candidate, section) == TRUE      \* mutant: not looked at
RenameHolds(candidate, section) ==
    \E k \in DOMAIN candidate.sections :
        LET renamed == candidate.sections[k] IN
        /\ renamed.level = section.level
        /\ renamed.kind = section.kind
        /\ renamed.heading.start = section.heading.start

PrepareRenameHeading(i, title) ==
    LET section == sections[i]
        content == ContentRange(section)
        change == Rewriting(section, Patch(content.start, content.end, title))
        operation == [kind |-> "rename", at |-> i]
    IN /\ title # << >> /\ "nl" \notin ToSet(title)
       /\ \/ title = Title(doc, i) /\ Hold(operation, Change(<< >>))
          \/ /\ title # Title(doc, i)
             /\ RenameHolds(Candidate(change), section)
             /\ Hold(operation, change)

(***************************************************************************)
(* planHeadingLevelPatch: another marker, another underline, or, from a    *)
(* Setext heading to a level it cannot have, an ATX heading.               *)
(***************************************************************************)
MarkersOf(level) == {m \in DOMAIN Level : Level[m] = level}
UnderlinesOf(level) == {u \in DOMAIN Underline : Underline[u] = level}

LevelPatches(d, section, level) ==
    LET h == section.heading
        content == Bytes(d.source, ContentRange(section))
    IN CASE section.kind = "atx" ->
              {Patch(h.start, h.start + 1, <<m>>) : m \in MarkersOf(level)}
         [] section.kind = "setext" /\ level <= 2 ->
              {Patch(h.end - 1, h.end, <<u>>) : u \in UnderlinesOf(level)}
         [] section.kind = "setext" /\ level > 2 /\ "nl" \notin ToSet(content) ->
              {Patch(h.start, h.end, <<m>> \o content) : m \in MarkersOf(level)}
         [] OTHER -> {}

LevelHolds(candidate, i, level, patch) ==
    LET section == sections[i]
        changed == candidate.sections[i]
    IN /\ Len(candidate.sections) = Len(sections)
       /\ changed.level = level
       /\ changed.kind = IF level > 2 THEN "atx" ELSE section.kind
       /\ changed.heading.start = section.heading.start
       /\ Title(candidate, i) = Title(doc, i)
       /\ \A k \in Targets \ {i} :
             SameHeading(doc, sections[k], candidate.sections[k], candidate.source,
                         RangeAfterPatches(sections[k].heading, <<patch>>))

PrepareSetHeadingLevel(i, level) ==
    LET section == sections[i]
        operation == [kind |-> "level", at |-> i, level |-> level]
    IN \/ level = section.level /\ Hold(operation, Change(<< >>))
       \/ /\ level # section.level
          /\ \E patch \in LevelPatches(doc, section, level) :
                LET change == Rewriting(section, patch) IN
                /\ LevelHolds(Candidate(change), i, level, patch)
                /\ Hold(operation, change)

-----------------------------------------------------------------------------
(***************************************************************************)
(* renderTOC: one entry for each section, nested as the sections are.      *)
(***************************************************************************)
SectionDepth(d) ==
    LET depth[k \in DOMAIN d.sections] ==
            IF d.sections[k].parent = 0 THEN 0 ELSE depth[d.sections[k].parent] + 1
    IN depth

renderTOC(d) ==
    LET anchors == HeadingAnchors(d)
    IN FlattenSeq([k \in DOMAIN d.sections |->
                     <<Bullets[SectionDepth(d)[k] + 1]>> \o Title(d, k)
                       \o <<"](#">> \o anchors[k] \o <<")", "nl">>])

(***************************************************************************)
(* tocBodyProfile: blank lines around entries, none of them more than one  *)
(* deeper than the one before.                                             *)
(***************************************************************************)
EntryDepth(l) == (CHOOSE n \in DOMAIN Bullets : Bullets[n] = l[1]) - 1

TableLines(body) ==
    {r \in Lines(body) : r.start < r.end}

NextLine(body, r) == Min({l.start : l \in {o \in Lines(body) : o.start > r.start}}
                           \cup {Len(body)})

IsTable(body) ==
    LET entries == TableLines(body) IN
    /\ \A r \in entries : IsEntry(Line(body, r))
    /\ \A r \in entries :
          LET previous == {o \in entries : NextLine(body, o) = r.start}
              depth == EntryDepth(Line(body, r))
          IN IF \A o \in entries : r.start <= o.start
             THEN depth = 0
             ELSE \E o \in previous : depth <= EntryDepth(Line(body, o)) + 1

\* tocBodyProfile.render
Rendered(body, table) ==
    LET entries == TableLines(body)
        first == Min({r.start : r \in entries})
        last == Max({NextLine(body, r) : r \in entries})
    IN IF entries = {} THEN body \o table
       ELSE SubSeq(body, 1, first) \o table \o SubSeq(body, last + 1, Len(body))

Body(d, i)       == Bytes(d.source, d.sections[i].bodyRange)
Recognized(d, i) == IsTable(Body(d, i))
SyncedBody(d, i) == Rendered(Body(d, i), renderTOC(d))
Fresh(d, i)      == Recognized(d, i) /\ Body(d, i) = SyncedBody(d, i)

Spliced(d, patch) == Doc(Splice(d.source, <<patch>>))

\* PrepareSyncTOC of any document, with its PrepareReplaceSectionBody.
SyncHolds(d, i) ==
    LET body == SyncedBody(d, i)
    IN Recognized(d, i) /\ BodyHolds(d, Spliced(d, BodyPatch(d, i, body)), i, body)

PrepareSyncTOC(i) ==
    /\ SyncHolds(doc, i)
    /\ Hold([kind |-> "sync", at |-> i],
            Change(<<BodyPatch(doc, i, SyncedBody(doc, i))>>))

(***************************************************************************)
(* PrepareSyncTOCs: several tables of one snapshot, in one change.         *)
(***************************************************************************)
PrepareSyncTOCs(tables) ==
    LET order == Picked([i \in Targets |-> i], tables)
        patches == [k \in DOMAIN order |->
                      BodyPatch(doc, order[k], SyncedBody(doc, order[k]))]
        change == Change(patches)
        candidate == Candidate(change)
    IN /\ \A i \in tables : Recognized(doc, i)
       /\ Accepted(Len(doc.source), patches)
       /\ Len(candidate.sections) = Len(sections)
       /\ HeadingsKept(doc, candidate, 1, sections, patches)
       /\ \A k \in DOMAIN order :
             LET start == patches[k].start + PrefixDelta(patches, k - 1)
             IN candidate.sections[order[k]].bodyRange
                   = [start |-> start, end |-> start + Len(patches[k].text)]
       /\ Hold([kind |-> "syncs", tables |-> tables], change)

(***************************************************************************)
(* ComposeChangesAndSyncTOC: the changes held are combined, the table is   *)
(* found again in the candidate and synchronised there, and the new body   *)
(* becomes a patch of the snapshot's untouched body.                       *)
(***************************************************************************)
Base == IF Len(pool) = 1 THEN pool[1].change
        ELSE Combined(pool[1].change, pool[2].change)

ComposeHolds ==
    /\ Accepted(Len(doc.source), Base.patches)
    /\ Len(pool) = 2 =>
          ModelAgrees(doc, <<Candidate(pool[1].change), Candidate(pool[2].change)>>,
                      Candidate(Base))

TouchesRange(c, r) == \E k \in DOMAIN c.patches : Touches(c.patches[k], r)

MappedUnmoved(c, r) ==
    [start |-> MapUnmovedOffset(c, r.start), end |-> MapUnmovedOffset(c, r.end)]

\* mapTOCCompositionTarget: the section of the candidate that is section i.
TableAgain(c, candidate, i) ==
    LET section == sections[i]
        heading == MapTargetRange(c, section.heading, section.heading)
        body == MappedUnmoved(c, section.bodyRange)
    IN {k \in DOMAIN candidate.sections :
           /\ IndexBuilt(c)
           /\ ~TouchesRange(c, section.bodyRange)
           /\ heading # NoRange
           /\ candidate.sections[k].heading = heading
           /\ candidate.sections[k].bodyRange = body}

SyncedFromSnapshot(candidate, k) ==      \* mutant: the table as it would be now
    Rendered(Body(candidate, k), renderTOC(doc))
SyncedFrom(candidate, k) == SyncedBody(candidate, k)

\* finalizeTOCComposition
Final(c, i, body) ==
    [Change(Append(c.patches, BodyPatch(doc, i, body))) EXCEPT
        !.relocations = c.relocations,
        !.correspondences = c.correspondences]

FinalHolds(c, candidate, i, k) ==
    LET body == SyncedFrom(candidate, k)
        final == Final(c, i, body)
    IN /\ SyncHolds(candidate, k)
       /\ Accepted(Len(doc.source), final.patches)
       /\ Splice(doc.source, final.patches)
             = Splice(candidate.source, <<BodyPatch(candidate, k, body)>>)

ComposeAndSyncTOC(i) ==
    /\ Len(pool) \in {1, 2}
    /\ Recognized(doc, i)
    /\ ComposeHolds
    /\ LET candidate == Candidate(Base) IN
       \E k \in TableAgain(Base, candidate, i) :
          /\ FinalHolds(Base, candidate, i, k)
          /\ pool' = <<[operations |-> Append(Prepared, [kind |-> "final", at |-> i]),
                        change     |-> Final(Base, i, SyncedFrom(candidate, k))]>>
    /\ UNCHANGED <<doc, edits, batch>>

Edit ==
    \/ \E i \in Targets, title \in Titles : PrepareRenameHeading(i, title)
    \/ \E i \in Targets, level \in 1..3 : PrepareSetHeadingLevel(i, level)
    \/ \E i \in Targets : PrepareSyncTOC(i)
    \/ \E tables \in SUBSET Targets : PrepareSyncTOCs(tables)
    \/ \E i \in Targets : ComposeAndSyncTOC(i)
    \/ \E i \in Targets : PrepareRemoveSection(i)
    \/ \E i \in Targets, f \in Fragments, after \in BOOLEAN :
          PrepareInsertSection(i, f, after)
    \/ \E i, anchor \in Targets, after \in BOOLEAN :
          PrepareMoveSection(i, anchor, after)
    \/ \E i \in Targets, body \in NewBodies : PrepareReplaceSectionBody(i, body)

EditNext == Edit \/ Compose \/ \E i \in 1..MaxPool : Apply(i)

NavigationSpec == Init /\ [][EditNext]_vars

-----------------------------------------------------------------------------
(***************************************************************************)
(* The anchor of a heading is the slug of its title or, when that is taken *)
(* by a heading before it, the slug with the least suffix that is free;    *)
(* so no two headings share an anchor, even if a title spells out the      *)
(* suffix another heading got (uniqueHeadingSlug).                         *)
(***************************************************************************)
LeastFree(base, taken) ==
    IF base \notin taken THEN base
    ELSE Suffixed(base, Min({n \in 1..(Cardinality(taken) + 1) :
                                Suffixed(base, n) \notin taken}))

AnchorsLeast ==
    LET anchors == HeadingAnchors(doc) IN
    \A k \in Targets :
        anchors[k] = LeastFree(githubHeadingSlug(Title(doc, k)),
                               {anchors[j] : j \in 1..(k - 1)})

(***************************************************************************)
(* A table that was synchronised is what PrepareSyncTOC would make of the  *)
(* text its own change produces: the anchors it links to are those of the  *)
(* headings as renamed, moved or removed by the same change, and putting   *)
(* the entries into the text has changed none of them.                     *)
(***************************************************************************)
SyncsLast(operations) ==
    \/ Len(operations) = 1 /\ operations[1].kind = "sync"
    \/ Last(operations).kind = "final"

SyncedIsFresh ==
    \A p \in ToSet(pool) : SyncsLast(p.operations) =>
        LET candidate == Candidate(p.change)
            section == sections[Last(p.operations).at]
            heading == MapTargetRange(p.change, section.heading, section.heading)
        IN \E k \in DOMAIN candidate.sections :
              candidate.sections[k].heading = heading /\ Fresh(candidate, k)

(***************************************************************************)
(* Where every token of the text a change produces comes from: the index   *)
(* it had in the snapshot, also when it was relocated; for what a rename   *)
(* or a level change wrote, the heading it wrote that for, as a negative   *)
(* number; 0 for all other new text.                                       *)
(***************************************************************************)
WrittenFor(c, patch) ==
    {k.id.start : k \in {o \in c.correspondences :
                           [start |-> patch.start, end |-> patch.end] \in o.owned}}

OriginOf(c, patch, i) ==
    LET moved == {m \in c.relocations : m.at = patch.start /\ patch.end = patch.start}
        written == WrittenFor(c, patch)
    IN CASE moved # {}                   -> (CHOOSE m \in moved : TRUE).source.start + i
         [] moved = {} /\ written # {}   -> -1 - (CHOOSE n \in written : TRUE)
         [] moved = {} /\ written = {}   -> 0

Origins(c) ==
    Splice([i \in DOMAIN doc.source |-> i],
           [k \in DOMAIN c.patches |->
              [c.patches[k] EXCEPT
                  !.text = [i \in DOMAIN @ |-> OriginOf(c, c.patches[k], i)]]])

\* What stands at r in the candidate is what stood at before in the snapshot.
SameThing(origins, before, r) ==
    \A o \in ToSet(Bytes(origins, r)) :
        o = -1 - before.start \/ (before.start < o /\ o <= before.end)

(***************************************************************************)
(* What LocalFragmentContinuity says of each link that had one target is   *)
(* true of the text: the link is reported if it survived, lost if it is no *)
(* link any more, and "preserved" exactly if it leads to the very heading  *)
(* or anchor it led to, wherever that was moved, however it was renamed.   *)
(***************************************************************************)
TrueStatus(origins, candidate, k, target) ==
    LET at == {i \in DOMAIN origins : origins[i] = doc.links[k].offset + 1}
        found == {n \in DOMAIN candidate.links : candidate.links[n].offset + 1 \in at}
        after == candidate.links[CHOOSE n \in found : TRUE]
        targets == Resolve(candidate, after.destination)
        same == \E t \in targets : /\ t.kind = target.kind
                                   /\ SameThing(origins, target.range, t.range)
    IN CASE at = {}                     -> "not reported"
         [] at # {} /\ found = {}       -> "invalid"
         [] found # {} /\ targets = {}  -> "missing"
         [] found # {} /\ Cardinality(targets) > 1 -> "ambiguous"
         [] OTHER ->
              IF after.destination # doc.links[k].destination THEN "retargeted"
              ELSE IF same THEN "preserved" ELSE "target changed"

ContinuityTruthful ==
    \A c \in Held : IndexBuilt(c) =>
        LET candidate == Candidate(c)
            origins == Origins(c)
        IN \A k \in DOMAIN doc.links :
              LET targets == Resolve(doc, doc.links[k].destination)
                  target == CHOOSE t \in targets : TRUE
              IN Cardinality(targets) = 1 =>
                    FragmentStatus(c, candidate, doc.links[k], target)
                       = TrueStatus(origins, candidate, k, target)

(***************************************************************************)
(* A rename or a change of a level changes one heading: the bodies of all  *)
(* sections and the other headings are read as before, although only       *)
(* validateHeadingLevelCandidate looks at them.                            *)
(***************************************************************************)
Others(forest, i) ==
    [k \in DOMAIN forest |-> IF k = i THEN [body |-> forest[k].body] ELSE forest[k]]

HeadingEditsLocal ==
    \A p \in ToSet(pool) :
        (Len(p.operations) = 1 /\ p.operations[1].kind \in {"rename", "level"}) =>
            LET i == p.operations[1].at
                candidate == Candidate(p.change)
            IN /\ PreambleOf(candidate) = PreambleOf(doc)
               /\ Others(ForestOf(candidate), i) = Others(ForestOf(doc), i)

(***************************************************************************)
(* docs/capabilities.md:92 of ComposeChangesAndSyncTOC: it fails closed    *)
(* when the managed body is directly changed or the target cannot be       *)
(* correlated uniquely.  So a table whose heading and body are in the      *)
(* candidate, untouched and once, is found there.                          *)
(***************************************************************************)
Untouched(origins, candidate, before, r) ==
    /\ Len(Bytes(origins, r)) = before.end - before.start
    /\ SameThing(origins, before, r)

TablesFollow ==
    \A c \in Held : \A i \in Targets :
        LET candidate == Candidate(c)
            origins == Origins(c)
            again == {k \in DOMAIN candidate.sections :
                        /\ Untouched(origins, candidate, sections[i].heading,
                                     candidate.sections[k].heading)
                        /\ Untouched(origins, candidate, sections[i].bodyRange,
                                     candidate.sections[k].bodyRange)}
        IN (Recognized(doc, i) /\ Cardinality(again) = 1) =>
              TableAgain(c, candidate, i) = again
=============================================================================
