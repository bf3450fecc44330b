----------------------------- MODULE Continuity -----------------------------
(***************************************************************************)
(* The correlation of positions across a prepared change, from which       *)
(* LocalFragmentContinuity and the managed table of contents find a        *)
(* relationship or a heading of the snapshot again in the candidate        *)
(* (continuityChangeIndex).  A change records, beside its patches, what    *)
(* it moved (relocations) and which node it rewrote (correspondences).     *)
(***************************************************************************)
EXTENDS Source

Lost == -1      \* the offset does not survive the change

(***************************************************************************)
(* mapUnmovedOffset: behind every patch that starts at or before the       *)
(* offset, unless the last of them replaces it.                            *)
(***************************************************************************)
MapUnmovedOffset(c, offset) ==
    LET after == HowMany(c.patches, LAMBDA p : p.start <= offset) IN
    IF after > 0 /\ offset < c.patches[after].end
    THEN Lost
    ELSE offset + PrefixDelta(c.patches, after)

(***************************************************************************)
(* insertionOffset: where the text a relocation inserts begins.            *)
(***************************************************************************)
InsertionOffsetAfter(c, at) ==      \* mutant: one patch too far
    LET index == HowMany(c.patches, LAMBDA p : p.start <= at) IN
    IF /\ index < Len(c.patches)
       /\ c.patches[index + 1].start = at
       /\ c.patches[index + 1].end = at
    THEN at + PrefixDelta(c.patches, index)
    ELSE Lost

InsertionOffset(c, at) ==
    LET index == HowMany(c.patches, LAMBDA p : p.start < at) IN
    IF /\ index < Len(c.patches)
       /\ c.patches[index + 1].start = at
       /\ c.patches[index + 1].end = at
    THEN at + PrefixDelta(c.patches, index)
    ELSE Lost

Holds(r, offset) == r.start <= offset /\ offset < r.end

\* buildRelocations, and the relocation that holds an offset.
RelocationsBuilt(c) ==
    /\ \A m \in c.relocations : InsertionOffset(c, m.at) # Lost
    /\ \A m, n \in c.relocations :
          m = n \/ m.source.end <= n.source.start \/ n.source.end <= m.source.start

Relocated(c, offset) == {m \in c.relocations : Holds(m.source, offset)}

Moved(c, m, offset) == InsertionOffset(c, m.at) + offset - m.source.start

MapUnmoved(c, offset) == MapUnmovedOffset(c, offset)   \* mutant: forgets moves
MapOffset(c, offset) ==
    IF Relocated(c, offset) # {}
    THEN Moved(c, CHOOSE m \in Relocated(c, offset) : TRUE, offset)
    ELSE MapUnmovedOffset(c, offset)

(***************************************************************************)
(* buildCorrespondences: a node that was rewritten is found where its own  *)
(* operation put it, moved along by the patches in front of it, provided   *)
(* that nothing else touched it.                                           *)
(***************************************************************************)
Touches(p, r) ==
    IF p.start = p.end THEN Holds(r, p.start)
    ELSE p.start < r.end /\ p.end > r.start

OwnedOnly(c, k) ==
    \A i \in DOMAIN c.patches :
        Touches(c.patches[i], k.source) =>
            [start |-> c.patches[i].start, end |-> c.patches[i].end] \in k.owned

CorrespondencesBuilt(c) ==
    /\ \A k, l \in c.correspondences : k.id = l.id => k = l
    /\ \A k \in c.correspondences : OwnedOnly(c, k)

ComposedRangeInPlace(c, k) == k.candidate       \* mutant: not moved along
ComposedRange(c, k) ==
    Shifted(k.candidate,
            PrefixDelta(c.patches,
                        HowMany(c.patches, LAMBDA p : p.start < k.source.start)))

IndexBuilt(c) == RelocationsBuilt(c) /\ CorrespondencesBuilt(c)

(***************************************************************************)
(* mapTargetRange: where the node id, at range r of the source, has to be. *)
(***************************************************************************)
MapTargetRange(c, id, r) ==
    LET rewritten == {k \in c.correspondences : k.id = id}
        moved == {m \in Relocated(c, r.start) : r.end <= m.source.end}
        ends == [start |-> MapUnmovedOffset(c, r.start),
                 end   |-> MapUnmovedOffset(c, r.end)]
    IN CASE rewritten # {} -> ComposedRange(c, CHOOSE k \in rewritten : TRUE)
         [] rewritten = {} /\ moved # {} ->
              LET m == CHOOSE m \in moved : TRUE
              IN Shifted(r, InsertionOffset(c, m.at) - m.source.start)
         [] rewritten = {} /\ moved = {} /\ Lost \notin {ends.start, ends.end}
              /\ ends.start <= ends.end -> ends
         [] OTHER -> NoRange
=============================================================================
