------------------------------- MODULE Changes -------------------------------
(***************************************************************************)
(* Prepared changes between the snapshot they were prepared from and the   *)
(* file they are applied to.  A caller parses a text, prepares changes on  *)
(* the snapshot, combines some of them and applies one to what the file    *)
(* holds by then; somebody else may have written it meanwhile.  Prepared   *)
(* changes are values: the caller keeps them across parses and saves.      *)
(*                                                                         *)
(* Which ranges an operation replaces is the operation's business; here    *)
(* any range may be, so the module says what holds of every operation      *)
(* built on newChange, prepareMoveCandidate and the heading edits.         *)
(***************************************************************************)
EXTENDS Continuity

CONSTANTS
    Files,        \* what the file may hold at first, or after another writer
    Texts,        \* replacement texts
    Targets,      \* ranges of the nodes that have content to rewrite
    NoDocument,   \* nothing parsed yet
    MaxPool,      \* bound: changes the caller holds at once
    MaxPatches,   \* bound: patches of one combined change
    MaxWrites,    \* bound: writes to the file, by this caller or another
    MaxSaved      \* bound: length of a text that is written over or written

ASSUME MaxAssumption == {MaxPool, MaxPatches, MaxWrites, MaxSaved} \subseteq Nat

\* The bytes that the texts are made of.
AllBytes ==
    UNION {{t[i] : i \in DOMAIN t} : t \in Files \cup Texts \cup {ReplacementCharacter}}

ASSUME TextAssumption ==
    /\ Files \cup Texts \cup {ReplacementCharacter} \subseteq Seq(AllBytes)
    /\ Targets \subseteq [start : Nat, end : Nat]

VARIABLES
    file,       \* the bytes of the file
    writes,     \* how often it was written
    snapshot,   \* Document.source of the last parse
    pool        \* the prepared changes the caller holds

vars == <<file, writes, snapshot, pool>>

Parsed == snapshot # NoDocument

(***************************************************************************)
(* A splice.ChangeSet.                                                     *)
(***************************************************************************)
ChangeSet(source, patches) ==
    [fingerprint     |-> Sum(source),
     patches         |-> InOrder(patches),
     relocations     |-> {},
     correspondences |-> {}]

Patch(r, text) == [start |-> r.start, end |-> r.end, text |-> text]

Init ==
    /\ file \in Files
    /\ writes = 0
    /\ snapshot = NoDocument
    /\ pool = << >>

(***************************************************************************)
(* Parse takes its own normalised copy of the text.                        *)
(***************************************************************************)
Parse ==
    /\ snapshot' = Normalize(file)
    /\ UNCHANGED <<file, writes, pool>>

Hold(c) ==
    /\ Len(pool) < MaxPool
    /\ pool' = Append(pool, c)
    /\ UNCHANGED <<file, writes, snapshot>>

(***************************************************************************)
(* newChange: one range replaced; nothing to do when it holds the          *)
(* replacement already (unchangedRangeChange).                             *)
(***************************************************************************)
Prepare(r, text) ==
    /\ Parsed
    /\ IF text = Bytes(snapshot, r)
       THEN Hold(ChangeSet(snapshot, << >>))
       ELSE Hold(ChangeSet(snapshot, <<Patch(r, text)>>))

(***************************************************************************)
(* prepareMoveCandidate: the range is removed and its bytes are inserted   *)
(* somewhere else in one change, which remembers the pair.                 *)
(***************************************************************************)
PrepareMove(r, at) ==
    /\ Parsed
    /\ r.start < r.end
    /\ at < r.start \/ at > r.end
    /\ LET patches == <<Patch(r, << >>),
                        Patch([start |-> at, end |-> at], Bytes(snapshot, r))>>
       IN Hold([ChangeSet(snapshot, patches) EXCEPT
                   !.relocations = {[source |-> r, at |-> at]}])

(***************************************************************************)
(* PrepareRenameHeading and PrepareSetHeadingLevel: part of a node is      *)
(* replaced, and the change remembers where the node will be.              *)
(***************************************************************************)
PrepareRewrite(target, content, text) ==
    /\ Parsed
    /\ Valid(target, Len(snapshot))
    /\ target.start <= content.start /\ content.end <= target.end
    /\ content.start < content.end
    /\ text # << >>
    /\ LET p == Patch(content, text) IN
       IF text = Bytes(snapshot, content)
       THEN Hold(ChangeSet(snapshot, << >>))
       ELSE Hold([ChangeSet(snapshot, <<p>>) EXCEPT
                    !.correspondences =
                        {[id        |-> target,
                          source    |-> target,
                          candidate |-> [target EXCEPT !.end = @ + Delta(p)],
                          owned     |-> {content}]}])

(***************************************************************************)
(* composeSourceChanges on the snapshot.  The document-model comparison    *)
(* that follows it may refuse more, never less.                            *)
(***************************************************************************)
CompatibleAnySource(cs) ==         \* mutant: without the fingerprints
    LET patches == cs[1].patches \o cs[2].patches
    IN Accepted(Len(snapshot), patches)

Compatible(cs) ==
    /\ \A i \in DOMAIN cs : cs[i].fingerprint = Sum(snapshot)
    /\ Accepted(Len(snapshot), cs[1].patches \o cs[2].patches)

Combined(cs) ==
    [fingerprint     |-> Sum(snapshot),
     patches         |-> InOrder(cs[1].patches \o cs[2].patches),
     relocations     |-> cs[1].relocations \cup cs[2].relocations,
     correspondences |-> cs[1].correspondences \cup cs[2].correspondences]

Compose ==
    /\ Parsed
    /\ Len(pool) = 2
    /\ Len(pool[1].patches) + Len(pool[2].patches) <= MaxPatches
    /\ Compatible(pool)
    /\ pool' = <<Combined(pool)>>
    /\ UNCHANGED <<file, writes, snapshot>>

(***************************************************************************)
(* Apply to what the file holds now, and write the result back.            *)
(***************************************************************************)
AppliesAnywhere(c, current) ==     \* mutant: only the length is looked at
    \A i \in DOMAIN c.patches : Valid(c.patches[i], Len(Normalize(current)))

Applies(c, current) == c.fingerprint = Sum(Normalize(current))

Result(c, current) == Normalize(Splice(Normalize(current), c.patches))

Writable(f) == Len(Normalize(f)) <= MaxSaved

Save(i) ==
    /\ i \in DOMAIN pool
    /\ writes < MaxWrites /\ Writable(file)
    /\ Applies(pool[i], file)
    /\ file' = Result(pool[i], file)
    /\ writes' = writes + 1
    /\ UNCHANGED <<snapshot, pool>>

\* The caller lets its changes go.
Discard ==
    /\ pool # << >>
    /\ pool' = << >>
    /\ UNCHANGED <<file, writes, snapshot>>

\* Another program writes the file.
Write(f) ==
    /\ writes < MaxWrites /\ Writable(file) /\ Writable(f)
    /\ f # file
    /\ file' = f
    /\ writes' = writes + 1
    /\ UNCHANGED <<snapshot, pool>>

SnapshotOffsets == IF Parsed THEN 0..Len(snapshot) ELSE {}
SnapshotRanges  == IF Parsed THEN Ranges(Len(snapshot)) ELSE {}

Next ==
    \/ Parse
    \/ \E r \in SnapshotRanges, text \in Texts : Prepare(r, text)
    \/ \E r \in SnapshotRanges, at \in SnapshotOffsets : PrepareMove(r, at)
    \/ \E t \in Targets, r \in SnapshotRanges, text \in Texts :
          PrepareRewrite(t, r, text)
    \/ Compose
    \/ \E i \in 1..MaxPool : Save(i)
    \/ Discard
    \/ \E f \in Files : Write(f)

Spec == Init /\ [][Next]_vars

-----------------------------------------------------------------------------
Held == {pool[i] : i \in DOMAIN pool}

\* The text a change was prepared on.
Origin(c) == c.fingerprint

TypeOK ==
    /\ writes \in 0..MaxWrites
    /\ Parsed => Normalize(snapshot) = snapshot
    /\ Len(pool) <= MaxPool
    /\ \A c \in Held : Accepted(Len(Origin(c)), c.patches) /\ RelocationsBuilt(c)

(***************************************************************************)
(* Every byte of the source that a change does not replace is found, in    *)
(* the text the change produces, at the offset MapOffset says, moved or    *)
(* not.  LocalFragmentContinuity finds a relationship again by exactly     *)
(* this offset.                                                            *)
(***************************************************************************)
Replaced(c, offset) ==
    \E i \in DOMAIN c.patches : Holds(c.patches[i], offset)

SurvivorsFollow ==
    \A c \in Held :
        LET result == Result(c, Origin(c)) IN
        \A offset \in 0..(Len(Origin(c)) - 1) :
            IF Replaced(c, offset) /\ Relocated(c, offset) = {}
            THEN MapOffset(c, offset) = Lost
            ELSE /\ MapOffset(c, offset) \in 0..(Len(result) - 1)
                 /\ result[MapOffset(c, offset) + 1] = Origin(c)[offset + 1]

(***************************************************************************)
(* A range that rangeAfterPatches maps has its bytes where it says, whole  *)
(* and unchanged: on this the candidate checks of every edit rest.         *)
(***************************************************************************)
RangesFollow ==
    \A c \in Held :
        LET result == Result(c, Origin(c)) IN
        \A r \in Ranges(Len(Origin(c))) :
            LET after == RangeAfterPatches(r, c.patches) IN
            after # NoRange => /\ Valid(after, Len(result))
                               /\ Bytes(result, after) = Bytes(Origin(c), r)

(***************************************************************************)
(* A node that was rewritten is expected exactly where its rewritten text  *)
(* is, whatever was combined with the rewriting.                           *)
(***************************************************************************)
RewrittenText(c, k) ==
    LET before == HowMany(c.patches,
                          LAMBDA p : p.start < k.source.end /\ ~Touches(p, k.source))
        touching == HowMany(c.patches, LAMBDA p : Touches(p, k.source))
        inside == [i \in 1..touching |->
                     [start |-> c.patches[before + i].start - k.source.start,
                      end   |-> c.patches[before + i].end - k.source.start,
                      text  |-> c.patches[before + i].text]]
    IN Splice(Bytes(Origin(c), k.source), inside)

RewrittenFollow ==
    \A c \in Held : IndexBuilt(c) =>
        \A k \in c.correspondences :
            LET result == Result(c, Origin(c))
                expected == MapTargetRange(c, k.id, k.source)
            IN /\ Valid(expected, Len(result))
               /\ Bytes(result, expected) = RewrittenText(c, k)

(***************************************************************************)
(* Two changes that combine do together what they do one after the other,  *)
(* in either order.                                                        *)
(***************************************************************************)
Rebased(c, first) ==
    [i \in DOMAIN c.patches |->
        LET r == RangeAfterPatches(c.patches[i], first.patches)
        IN [start |-> r.start, end |-> r.end, text |-> c.patches[i].text]]

OneAfterTheOther(first, second) ==
    LET between == Splice(Origin(first), first.patches)
        rest == Rebased(second, first)
    IN IF \A i \in DOMAIN rest : Valid(rest[i], Len(between))
       THEN Normalize(Splice(between, InOrder(rest)))
       ELSE NoDocument

Commute ==
    Parsed /\ Len(pool) = 2 /\ Compatible(pool) =>
        LET together == Result(Combined(pool), snapshot) IN
        /\ OneAfterTheOther(pool[1], pool[2]) = together
        /\ OneAfterTheOther(pool[2], pool[1]) = together

(***************************************************************************)
(* No lost update: a save replaces only bytes its caller has seen, and     *)
(* keeps every other byte the file holds at that moment, however the       *)
(* saves, the parses and the other writer interleave.                      *)
(***************************************************************************)
KeptBytes(s, q) ==
    LET kept == {i \in DOMAIN s : ~\E k \in DOMAIN q : Holds(q[k], i - 1)}
    IN {s[i] : i \in kept}

NoLostUpdate ==
    [][\A i \in DOMAIN pool : Save(i) =>
          LET c == pool[i]
              current == Normalize(file)
          IN /\ \A k \in DOMAIN c.patches :
                   Bytes(current, c.patches[k]) = Bytes(Origin(c), c.patches[k])
             /\ {file'[j] : j \in DOMAIN file'} =
                   KeptBytes(current, c.patches)
                     \cup UNION {{c.patches[k].text[j] : j \in DOMAIN c.patches[k].text}
                                   : k \in DOMAIN c.patches}]_vars
=============================================================================
