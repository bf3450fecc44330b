----------------------------- MODULE Delimiters -----------------------------
(***************************************************************************)
(* Emphasis, strong emphasis and strikethrough: which delimiter runs of a  *)
(* text may open and close, and how the shared resolver of                 *)
(* internal/parser pairs them.                                             *)
(*                                                                         *)
(* A text is a sequence of tokens: the markers "*", "_" and "~"; "a" for   *)
(* any character that is neither space nor punctuation; "." for            *)
(* punctuation; a space " " and a "tab"; "nl", and "\nl" for a backslash   *)
(* before it; "code" for a code span; "\c" for a character c behind a      *)
(* backslash, and "&tab", "&sp" for the two character references the       *)
(* renderer writes.  Offsets count tokens from 0.                          *)
(***************************************************************************)
EXTENDS Integers, Sequences, FiniteSets
LOCAL INSTANCE SequencesExt
LOCAL INSTANCE FiniteSetsExt

Markers == {"*", "_", "~"}
Spaces  == {" ", "tab", "nl"}

\* F of v, where TLC evaluates v once.
Once(v, F(_)) == CHOOSE r \in {F(x) : x \in {v}} : TRUE

Span(a, b)     == [start |-> a, end |-> b]
Within(r, s)   == s.start <= r.start /\ r.end <= s.end
Overlaps(r, s) == r.start < s.end /\ s.start < r.end

-----------------------------------------------------------------------------
(***************************************************************************)
(* Flanking.  A token shows its first character to the run before it and   *)
(* its last one to the run behind it; a code span shows its backticks.     *)
(***************************************************************************)
Class(c) == IF c \in Spaces THEN "space" ELSE IF c = "a" THEN "other" ELSE "punct"

Preceding(t, p) == IF p = 0 THEN "space" ELSE IF t[p] = "\\nl" THEN "space" ELSE Class(t[p])
Following(t, p) == IF p = Len(t) THEN "space" ELSE Class(t[p + 1])

Left(before, after)  == after # "space" /\ (after # "punct" \/ before # "other")
Right(before, after) == before # "space" /\ (before # "punct" \/ after # "other")

CanOpen(before, after, marker) ==
    /\ Left(before, after)
    /\ marker = "_" => ~Right(before, after) \/ before = "punct"

CanClose(before, after, marker) ==
    /\ Right(before, after)
    /\ marker = "_" => ~Left(before, after) \/ after = "punct"

Run(marker, start, end, before, after) ==
    [marker |-> marker, start |-> start, end |-> end,
     open |-> CanOpen(before, after, marker), close |-> CanClose(before, after, marker)]

Width(run) == run.end - run.start

\* collectDelimiterRuns: runs of one marker, those of "~" only up to two long.
RunStarts(t) ==
    SelectSeq([i \in DOMAIN t |-> i - 1],
              LAMBDA p : t[p + 1] \in Markers /\ (p = 0 \/ t[p] # t[p + 1]))

RunStop(t, p) ==
    CHOOSE q \in (p + 1)..Len(t) : /\ q = Len(t) \/ t[q + 1] # t[p + 1]
                                   /\ \A i \in (p + 1)..q : t[i] = t[p + 1]

Runs(t) ==
    LET starts == RunStarts(t)
        run(p) == Once(RunStop(t, p), LAMBDA q :
                      Run(t[p + 1], p, q, Preceding(t, p), Following(t, q)))
    IN SelectSeq([k \in DOMAIN starts |-> run(starts[k])],
                 LAMBDA r : r.marker = "~" => Width(r) <= 2)

-----------------------------------------------------------------------------
(***************************************************************************)
(* DelimiterRunResolver.  What is left of run i is left[i].  Runs that may *)
(* still open are on the stack "active", and a second time, by marker and  *)
(* category, in "index": as references with a version, those whose version *)
(* is no longer the run's being stale.                                     *)
(***************************************************************************)
AnyLength(opener, closer) == FALSE             \* mutant: no rule of three

Modulo3Conflict(opener, closer) ==
    /\ opener.close \/ closer.open
    /\ (Width(opener) + Width(closer)) % 3 = 0
    /\ Width(closer) % 3 # 0

Consumption(opener, openLeft, closer, closeLeft) ==
    IF opener.marker # closer.marker \/ ~opener.open \/ openLeft = 0 THEN 0
    ELSE IF opener.marker = "~"
    THEN IF /\ Width(opener) = Width(closer) /\ Width(opener) <= 2
            /\ openLeft = Width(opener) /\ closeLeft = Width(closer)
         THEN Width(opener) ELSE 0
    ELSE IF Modulo3Conflict(opener, closer) THEN 0
    ELSE IF openLeft >= 2 /\ closeLeft >= 2 THEN 2 ELSE 1

Match(opener, openLeft, closer, closeLeft, use) ==
    [marker |-> opener.marker,
     open   |-> Span(opener.start + openLeft - use, opener.start + openLeft),
     close  |-> Span(closer.end - closeLeft, closer.end - closeLeft + use)]

Categories    == 0..5
Category(run) == (Width(run) % 3) + IF run.close THEN 3 ELSE 0

NewResolver(runs) ==
    [left    |-> [i \in DOMAIN runs |-> Width(runs[i])],
     alive   |-> [i \in DOMAIN runs |-> FALSE],
     version |-> [i \in DOMAIN runs |-> 0],
     active  |-> << >>,
     index   |-> [m \in Markers, c \in Categories |-> << >>],
     matches |-> << >>]

AnyVersion(st, ref) == st.left[ref.run] > 0     \* mutant: versions are ignored

Fresh(st, ref) ==
    /\ ref.version = st.version[ref.run]
    /\ st.alive[ref.run]
    /\ st.left[ref.run] > 0

\* topDelimiterRunCategoryOpener drops the stale references on top.
Swept(st, stack) ==
    LET live == {k \in DOMAIN stack : Fresh(st, stack[k])}
    IN IF live = {} THEN << >> ELSE SubSeq(stack, 1, Max(live))

Sweep(st, marker) ==
    [st EXCEPT !.index = [mc \in Markers \X Categories |->
        IF mc[1] = marker THEN Swept(st, @[mc]) ELSE @[mc]]]

\* nearestDelimiterRunOpener, 0 if there is none: the tops of the categories.
Nearest(runs, st, j) ==
    LET tops == {Last(st.index[runs[j].marker, c]).run :
                    c \in {d \in Categories : st.index[runs[j].marker, d] # << >>}}
    IN Max({0} \cup {i \in tops :
                        Consumption(runs[i], st.left[i], runs[j], st.left[j]) > 0})

Push(runs, st, i) ==
    [st EXCEPT !.index[runs[i].marker, Category(runs[i])] =
        Append(@, [run |-> i, version |-> st.version[i]])]

\* Openers above i can no longer be paired: the pair would cross theirs.
InvalidateAbove(st, i) ==
    [st EXCEPT !.active  = SelectSeq(@, LAMBDA k : k <= i),
               !.alive   = [k \in DOMAIN @ |-> @[k] /\ k <= i],
               !.version = [k \in DOMAIN @ |-> IF st.alive[k] /\ k > i THEN @[k] + 1 ELSE @[k]]]

ConsumeOpener(runs, st, i, use) ==
    Once([st EXCEPT !.left[i] = @ - use, !.version[i] = @ + 1], LAMBDA used :
        IF used.left[i] = 0
        THEN [used EXCEPT !.alive[i] = FALSE, !.active = SelectSeq(@, LAMBDA k : k # i)]
        ELSE Push(runs, used, i))

Pair(runs, st, i, j) ==
    Once(Consumption(runs[i], st.left[i], runs[j], st.left[j]), LAMBDA use :
        [ConsumeOpener(runs, InvalidateAbove(st, i), i, use) EXCEPT
            !.left[j] = @ - use,
            !.matches = Append(@, Match(runs[i], st.left[i], runs[j], st.left[j], use))])

RECURSIVE CloseRun(_, _, _)
CloseRun(runs, st, j) ==
    IF ~runs[j].close \/ st.left[j] = 0 THEN st
    ELSE Once(Sweep(st, runs[j].marker), LAMBDA swept :
             Once(Nearest(runs, swept, j), LAMBDA i :
                 IF i = 0 THEN swept ELSE CloseRun(runs, Pair(runs, swept, i, j), j)))

Activate(runs, st, j) ==
    IF runs[j].open /\ st.left[j] > 0
    THEN Push(runs, [st EXCEPT !.alive[j] = TRUE, !.active = Append(@, j)], j)
    ELSE st

RECURSIVE ResolveFrom(_, _, _)
ResolveFrom(runs, st, j) ==
    IF j > Len(runs) THEN st.matches
    ELSE ResolveFrom(runs, Activate(runs, CloseRun(runs, st, j), j), j + 1)

Resolve(runs) == ResolveFrom(runs, NewResolver(runs), 1)

-----------------------------------------------------------------------------
(***************************************************************************)
(* CommonMark's own procedure, "process emphasis", without an index: look  *)
(* back from each closer through the runs that may still open.             *)
(***************************************************************************)
RECURSIVE ClosePlainly(_, _, _)
ClosePlainly(runs, st, j) ==
    LET fits == {i \in st.openers :
                    Consumption(runs[i], st.left[i], runs[j], st.left[j]) > 0}
    IN IF ~runs[j].close \/ st.left[j] = 0 \/ fits = {} THEN st
       ELSE LET i   == Max(fits)
                use == Consumption(runs[i], st.left[i], runs[j], st.left[j])
            IN ClosePlainly(runs,
                   [left    |-> [st.left EXCEPT ![i] = @ - use, ![j] = @ - use],
                    openers |-> {k \in st.openers : k < i \/ (k = i /\ st.left[i] > use)},
                    matches |-> Append(st.matches,
                                    Match(runs[i], st.left[i], runs[j], st.left[j], use))],
                   j)

RECURSIVE ProcessEmphasis(_, _, _)
ProcessEmphasis(runs, st, j) ==
    IF j > Len(runs) THEN st.matches
    ELSE Once(ClosePlainly(runs, st, j), LAMBDA closed :
             ProcessEmphasis(runs,
                 [closed EXCEPT !.openers = IF runs[j].open /\ closed.left[j] > 0
                                            THEN @ \cup {j} ELSE @],
                 j + 1))

CommonMark(runs) ==
    ProcessEmphasis(runs, [left |-> [i \in DOMAIN runs |-> Width(runs[i])],
                           openers |-> {}, matches |-> << >>], 1)
-----------------------------------------------------------------------------
(***************************************************************************)
(* Topology proofs: does a candidate text pair exactly the delimiters that *)
(* its nodes own?  Two pairs never own the same ones, so sets will do.     *)
(***************************************************************************)
Pairs(runs) == ToSet(Resolve(runs))

TopologyMatches(t, wanted) == Pairs(Runs(t)) = wanted

ShiftSpan(r, n) == Span(r.start + n, r.end + n)
ShiftPair(m, n) == [m EXCEPT !.open = ShiftSpan(@, n), !.close = ShiftSpan(@, n)]

\* DelimiterTopologyMatchesInContext: further pairs lie outside of the text.
MatchesInContext(t, wanted, prefix, suffix) ==
    LET n       == Len(prefix)
        here    == Span(n, n + Len(t))
        shifted == {ShiftPair(m, n) : m \in wanted}
    IN Once(Pairs(Runs(prefix \o t \o suffix)), LAMBDA got :
           /\ shifted \subseteq got
           /\ \A m \in got \ shifted : ~Overlaps(m.open, here) /\ ~Overlaps(m.close, here))

Fences == {<<"*">>, <<"*", "*">>, <<"_">>, <<"_", "_">>, <<"~">>, <<"~", "~">>}

Contexts == {<<f, << >> >> : f \in Fences} \cup {<< << >>, f>> : f \in Fences}
            \cup {<<f, f>> : f \in Fences}

\* canonicalInlineDeferredRecoverable, of a candidate that is invalid alone.
Recoverable(t, wanted) ==
    /\ wanted # {}
    /\ \E c \in Contexts : MatchesInContext(t, wanted, c[1], c[2])

(***************************************************************************)
(* DelimiterTopologyTransferFacts: what an enclosing text can tell of a    *)
(* valid candidate.  Probes put a wider first run, or one more run before  *)
(* it, and look whether the pairs stay.                                    *)
(***************************************************************************)
Saturated(n) == Min({n, 2})

\* The level-one pairs a run opens and closes.
Demand(run, wanted) ==
    LET single == {m \in wanted : m.open.end = m.open.start + 1}
        owns(r) == Within(r, run)
    IN [opens  |-> Saturated(Cardinality({m \in single : owns(m.open)})),
        closes |-> Saturated(Cardinality({m \in single : owns(m.close)}))]

BoundaryRun(t, run) ==
    [marker |-> run.marker, modulo |-> Width(run) % 3, bucket |-> Min({Width(run), 2}),
     before |-> Preceding(t, run.start), after |-> Following(t, run.end)]

Boundary(t, runs, wanted) ==
    LET first == Head(runs)
        last  == Last(runs)
    IN [first |-> BoundaryRun(t, first), last |-> BoundaryRun(t, last),
        firstDemand |-> Demand(first, wanted), lastDemand |-> Demand(last, wanted),
        edges   |-> <<Following(t, 0), Preceding(t, Len(t))>>,
        touches |-> <<first.start = 0, last.end = Len(t)>>,
        single  |-> Len(runs) = 1]

\* A same-marker opener of width w, after a character of class c, joins run 1.
Incoming(t, runs, wanted) ==
    LET first == Head(runs)
        joined(w, c) == Run(first.marker, first.start - w, first.end, c,
                            Following(t, first.end))
    IN {wc \in (1..2) \X {"space", "punct", "other"} :
           Once(joined(wc[1], wc[2]), LAMBDA run :
               /\ run.open
               /\ Pairs(<<run>> \o Tail(runs)) = wanted)}

LeadingRun(marker, category) ==
    Once(IF category % 3 = 0 THEN 3 ELSE category % 3, LAMBDA w :
        [marker |-> marker, start |-> -w - 1, end |-> -1,
         open |-> TRUE, close |-> category >= 3])

Forbidden(runs, wanted, marker, categories) ==
    {c \in categories : Pairs(<<LeadingRun(marker, c)>> \o runs) # wanted}

TransferFacts(t, wanted, withTilde) ==
    Once(Runs(t), LAMBDA runs :
        IF runs = << >> THEN "no runs"
        ELSE [boundary   |-> Boundary(t, runs, wanted),
              incoming   |-> Incoming(t, runs, wanted),
              star       |-> Forbidden(runs, wanted, "*", Categories),
              underscore |-> Forbidden(runs, wanted, "_", Categories),
              tilde      |-> IF withTilde THEN Forbidden(runs, wanted, "~", {1, 2, 4, 5})
                             ELSE {}])
=============================================================================
