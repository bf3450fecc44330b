------------------------------- MODULE Source -------------------------------
(***************************************************************************)
(* Patches: how internal/source represents a prepared change and applies   *)
(* it.  A text is a sequence of bytes; a range [start, end) counts them    *)
(* from 0, as the code does.                                               *)
(***************************************************************************)
EXTENDS Integers, FiniteSets, SequencesExt

CONSTANTS
    Nul,                    \* the byte U+0000
    ReplacementCharacter    \* the bytes of U+FFFD

ASSUME NulAssumption ==
    \A i \in DOMAIN ReplacementCharacter : ReplacementCharacter[i] # Nul

(***************************************************************************)
(* CommonMark's mandatory preprocessing: every NUL becomes U+FFFD, which   *)
(* is longer, so that whatever counts bytes counts them after it.          *)
(***************************************************************************)
Normalize(s) ==
    FlattenSeq([i \in DOMAIN s |->
                  IF s[i] = Nul THEN ReplacementCharacter ELSE <<s[i]>>])

\* SHA-256, taken as free of collisions: a text is its own fingerprint.
Sum(s) == s

Ranges(n)   == {r \in [start : 0..n, end : 0..n] : r.start <= r.end}
Bytes(s, r) == SubSeq(s, r.start + 1, r.end)
Valid(r, n) == 0 <= r.start /\ r.start <= r.end /\ r.end <= n

Before(p, q) ==
    \/ p.start < q.start
    \/ p.start = q.start /\ p.end < q.end

Overlapping(p, q) == q.start < p.end        \* mutant: shared starts pass
Conflicts(p, q)   == q.start = p.start \/ q.start < p.end

\* sort.Search over a sequence on which a test goes from true to false: how
\* many pass it.
HowMany(q, Test(_)) == Cardinality({i \in DOMAIN q : Test(q[i])})

(***************************************************************************)
(* validatedPatchCopies: the patches sorted, each compared with the one    *)
(* before it.  Which of two patches of one range comes first does not      *)
(* matter: they conflict.                                                  *)
(***************************************************************************)
Inserted(q, p) == InsertAt(q, HowMany(q, LAMBDA r : ~Before(p, r)) + 1, p)

InOrder(patches) ==
    LET sorted[i \in 0..Len(patches)] ==
            IF i = 0 THEN << >> ELSE Inserted(sorted[i - 1], patches[i])
    IN sorted[Len(patches)]

NeighboursDisjoint(q) == \A i \in 2..Len(q) : ~Conflicts(q[i - 1], q[i])

Accepted(n, patches) ==
    /\ \A i \in DOMAIN patches : Valid(patches[i], n)
    /\ NeighboursDisjoint(InOrder(patches))

(***************************************************************************)
(* Apply's loop over the sorted patches, with its cursor.                  *)
(***************************************************************************)
Cursor(q, i) == IF i = 0 THEN 0 ELSE q[i].end

Piece(s, q, i) == SubSeq(s, Cursor(q, i - 1) + 1, q[i].start) \o q[i].text

Splice(s, q) ==
    FlattenSeq([i \in DOMAIN q |-> Piece(s, q, i)])
        \o SubSeq(s, Cursor(q, Len(q)) + 1, Len(s))

-----------------------------------------------------------------------------
(***************************************************************************)
(* Where a range of the source is after patches that do not touch it.      *)
(* rangeAfterPatches: the first patch that starts at or after the end of   *)
(* the range ends the walk; every patch before it has to end before the    *)
(* range starts.                                                           *)
(***************************************************************************)
NoRange == [start |-> -1, end |-> -1]

Shifted(r, delta) == [start |-> r.start + delta, end |-> r.end + delta]

Delta(p) == Len(p.text) - (p.end - p.start)

\* What the first k patches add to the length of the text.
PrefixDelta(q, k) ==
    LET sum[i \in 0..Len(q)] == IF i = 0 THEN 0 ELSE sum[i - 1] + Delta(q[i])
    IN sum[k]

RangeAfterAll(r, q) ==      \* mutant: the walk does not end at the range
    IF \A i \in DOMAIN q : q[i].end <= r.start \/ q[i].start >= r.end
    THEN Shifted(r, PrefixDelta(q, Len(q)))
    ELSE NoRange

RangeAfterPatches(r, q) ==
    LET passed == HowMany(q, LAMBDA p : p.start < r.end) IN
    IF \A i \in 1..passed : q[i].end <= r.start
    THEN Shifted(r, PrefixDelta(q, passed))
    ELSE NoRange
=============================================================================
