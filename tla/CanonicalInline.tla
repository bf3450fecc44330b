-------------------------- MODULE CanonicalInline ---------------------------
(***************************************************************************)
(* CanonicalMarkdown on one paragraph: its inline content is read as a     *)
(* tree, and internal/rendermarkdown writes the tree back.  The markers of *)
(* the text are forgotten, so new ones have to be found for every node,    *)
(* among them those that the parser will pair as the tree asks.  Plans are *)
(* grown from the leaves up, and thinned out on the way.                   *)
(*                                                                         *)
(* Left out: links, images, references, autolinks, raw HTML, math, tables. *)
(***************************************************************************)
EXTENDS Delimiters
LOCAL INSTANCE SequencesExt
LOCAL INSTANCE FiniteSetsExt
LOCAL INSTANCE TLC

CONSTANTS
    Tokens,         \* what may be typed
    MaxLength,      \* how much
    InitialTexts    \* longer texts to start from

VARIABLES
    text,           \* the paragraph as it is written
    tree,           \* its inline content, once it is rendered
    plan            \* how the tree is written: the tree with its markers, or NoPlan

vars == <<text, tree, plan>>

\* A paragraph is never empty, nor is its plan.
NoPlan == << >>
Unread == << >>

-----------------------------------------------------------------------------
(***************************************************************************)
(* Reading: matches are nodes, what lies between them is text, decoded,    *)
(* without the spaces at both ends of a line.                              *)
(***************************************************************************)
Escapes == [m \in Markers \cup {"."} |->
               CASE m = "*" -> "\\*" [] m = "_" -> "\\_" [] m = "~" -> "\\~" [] m = "." -> "\\."]

Decode(c) ==
    CASE c = "&tab" -> "tab" [] c = "&sp" -> " "
      [] c \in {Escapes[m] : m \in DOMAIN Escapes} -> CHOOSE m \in DOMAIN Escapes : Escapes[m] = c
      [] OTHER -> c

Blank == {" ", "tab"}
LineBreaks == {"nl", "\\nl"}

\* semanticLineEnd and semanticInlineSegmentStart.
AtLineEnd(t, p) ==
    \E q \in p..Len(t) : /\ q = Len(t) \/ t[q + 1] = "nl"
                         /\ \A i \in (p + 1)..q : t[i] \in Blank
AtLineStart(t, p) ==
    \E q \in 0..p : /\ q = 0 \/ t[q] \in LineBreaks
                    /\ \A i \in (q + 1)..p : t[i] \in Blank

Trimmed(t, p) == t[p + 1] \in Blank /\ (AtLineEnd(t, p) \/ AtLineStart(t, p))

TextValue(t, p, q) ==
    LET kept == SelectSeq([i \in 1..(q - p) |-> p + i - 1], LAMBDA i : ~Trimmed(t, i))
    IN [k \in DOMAIN kept |-> Decode(t[kept[k] + 1])]

Leaf(kind)           == [kind |-> kind]
Text(value)          == [kind |-> "text", value |-> value]
Node(kind, children) == [kind |-> kind, children |-> children]

BreakKind(t, p) ==
    IF t[p + 1] = "\\nl" \/ (p >= 2 /\ t[p] = " " /\ t[p - 1] = " ") THEN "hard" ELSE "soft"

NodeKind(m) ==
    IF m.marker = "~" THEN "strike"
    ELSE IF m.open.end = m.open.start + 1 THEN "emphasis" ELSE "strong"

\* emitSemanticInlineRegion.
RECURSIVE Region(_, _, _, _)
Region(t, matches, p, end) ==
    LET here == {m \in matches : m.open.start = p}
        stop == CHOOSE q \in (p + 1)..end :
                   /\ \/ q = end \/ t[q + 1] \in LineBreaks \cup {"code"}
                      \/ \E m \in matches : m.open.start = q
                   /\ \A i \in (p + 2)..q : t[i] \notin LineBreaks \cup {"code"}
                   /\ \A m \in matches : m.open.start \notin (p + 1)..(q - 1)
        value == TextValue(t, p, stop)
    IN IF p = end THEN << >>
       ELSE IF here # {}
       THEN LET m == CHOOSE x \in here : TRUE
            IN <<Node(NodeKind(m), Region(t, matches, m.open.end, m.close.start))>>
               \o Region(t, matches, m.close.end, end)
       ELSE IF t[p + 1] = "code" THEN <<Leaf("code")>> \o Region(t, matches, p + 1, end)
       ELSE IF t[p + 1] \in LineBreaks
       THEN <<Leaf(BreakKind(t, p))>> \o Region(t, matches, p + 1, end)
       ELSE (IF value = << >> THEN << >> ELSE <<Text(value)>>) \o Region(t, matches, stop, end)

Parse(t) == Once(Pairs(Runs(t)), LAMBDA matches : Region(t, matches, 0, Len(t)))

Wrappers      == {"emphasis", "strong", "strike"}
IsWrapper(n)  == n.kind \in Wrappers

-----------------------------------------------------------------------------
(***************************************************************************)
(* Writing.  A plan is the tree with a marker or a width on every node,    *)
(* and on every text that ends in a tab before a delimiter how to write    *)
(* that tab: as a reference, or raw.                                       *)
(***************************************************************************)
Repeat(c, n) == [i \in 1..n |-> c]

Delimiter(n) ==
    CASE n.kind = "emphasis" -> Repeat(n.marker, 1)
      [] n.kind = "strong"   -> Repeat(n.marker, 2)
      [] n.kind = "strike"   -> Repeat("~", n.width)

EscapedChar(c) ==
    IF c = "tab" THEN "&tab" ELSE IF c \in DOMAIN Escapes THEN Escapes[c] ELSE c

\* escapeLeadingTextSpaces, at the start of a line or of a node.
LeadingSpaces(value) == Cardinality({i \in DOMAIN value : \A j \in 1..i : value[j] = " "})

Unescaped(value, atStart) == [i \in DOMAIN value |-> EscapedChar(value[i])]  \* mutant

EscapedText(value, atStart) ==
    LET leading == IF atStart THEN LeadingSpaces(value) ELSE 0
    IN [i \in DOMAIN value |-> IF i <= leading THEN "&sp" ELSE EscapedChar(value[i])]

WrittenText(n, atStart) ==
    IF n.tab = "raw" THEN Append(EscapedText(Front(n.value), atStart), "tab")
    ELSE EscapedText(n.value, atStart)

Written(n, atStart) ==
    CASE n.kind = "text" -> WrittenText(n, atStart)
      [] n.kind = "code" -> <<"code">>
      [] n.kind = "soft" -> <<"nl">>
      [] n.kind = "hard" -> <<"\\nl">>

\* emitCanonicalInlineAST: the text so far, and the delimiters its nodes own.
RECURSIVE EmitFrom(_, _, _, _)
EmitFrom(forest, k, atStart, acc) ==
    IF k > Len(forest) THEN acc
    ELSE IF ~IsWrapper(forest[k])
    THEN EmitFrom(forest, k + 1, forest[k].kind \in {"soft", "hard"},
                  [acc EXCEPT !.out = @ \o Written(forest[k], atStart)])
    ELSE Once(Delimiter(forest[k]), LAMBDA d :
         Once(EmitFrom(forest[k].children, 1, TRUE, [acc EXCEPT !.out = @ \o d]), LAMBDA inner :
         EmitFrom(forest, k + 1, FALSE,
             [out   |-> inner.out \o d,
              pairs |-> inner.pairs \cup
                 {[marker |-> d[1],
                   open   |-> Span(Len(acc.out), Len(acc.out) + Len(d)),
                   close  |-> Span(Len(inner.out), Len(inner.out) + Len(d))]}])))

Emit(forest) == EmitFrom(forest, 1, TRUE, [out |-> << >>, pairs |-> {}])

(***************************************************************************)
(* canonicalInlineChoiceBetter.  A plan costs the nodes that repeat the    *)
(* marker of the node they touch from inside, then its strikethroughs of   *)
(* width one, then its raw tabs and its underscores, from left to right.   *)
(***************************************************************************)
IsEmphasis(n) == n.kind \in {"emphasis", "strong"}

\* The nodes from left to right, each with the node around it, if it touches.
RECURSIVE Preorder(_, _, _)
Preorder(forest, k, parent) ==
    IF k > Len(forest) THEN << >>
    ELSE <<[node |-> forest[k], touches |-> k \in {1, Len(forest)}, parent |-> parent]>>
         \o (IF IsWrapper(forest[k])
             THEN Preorder(forest[k].children, 1, forest[k]) ELSE << >>)
         \o Preorder(forest, k + 1, parent)

Repeats(e) ==
    /\ e.touches /\ IsEmphasis(e.node)
    /\ IsEmphasis(e.parent) /\ e.parent.marker = e.node.marker

Count(seq, Test(_)) == Len(SelectSeq(seq, Test))

Cost(forest) ==
    Once(Preorder(forest, 1, Leaf("host")), LAMBDA all :
        [alternation |-> Count(all, Repeats),
         singles |-> Count(all, LAMBDA e : e.node.kind = "strike" /\ e.node.width = 1),
         tabs    |-> LET texts == SelectSeq(all, LAMBDA e : e.node.kind = "text")
                     IN [k \in DOMAIN texts |-> IF texts[k].node.tab = "raw" THEN 1 ELSE 0],
         markers |-> LET ems == SelectSeq(all, LAMBDA e : IsEmphasis(e.node))
                     IN [k \in DOMAIN ems |-> IF ems[k].node.marker = "_" THEN 1 ELSE 0]])

\* Sequences of one length, compared at the first place where they differ.
Less(x, y) == \E k \in DOMAIN x : x[k] < y[k] /\ \A i \in 1..(k - 1) : x[i] = y[i]

Better(x, y) ==
    \/ x.alternation < y.alternation
    \/ /\ x.alternation = y.alternation
       /\ \/ x.singles < y.singles
          \/ /\ x.singles = y.singles
             /\ Less(x.tabs, y.tabs) \/ (x.tabs = y.tabs /\ Less(x.markers, y.markers))

-----------------------------------------------------------------------------
(***************************************************************************)
(* The frontier: what of a node's plans is carried up.  A plan that pairs  *)
(* as it should is known by its facts, and one of each kind is kept; one   *)
(* that some context could still repair is kept whatever it costs; others  *)
(* are dropped.  A tab before a delimiter that is not written yet may turn *)
(* out either way, so the kind also tells what the raw tab would do.       *)
(***************************************************************************)
\* canonicalInlineFrontierLeaf; the tree says where a raw tab is possible.
Plain(n, next) ==
    IF n.kind = "text"
    THEN [kind |-> "text", value |-> n.value, tab |-> "entity", known |-> FALSE,
          option |-> Last(n.value) = "tab" /\ next]
    ELSE n

NextWraps(forest, k) == k < Len(forest) /\ IsWrapper(forest[k + 1])

\* canonicalInlineFrontierPayloadVariants; at most one tab is undecided.
Undecided(forest) ==
    {k \in 1..(Len(forest) - 1) : /\ forest[k].kind = "text"
                                  /\ forest[k].option /\ ~forest[k].known}

Decide(forest, k, tab) == [forest EXCEPT ![k].tab = tab, ![k].known = TRUE]

Variants(forest) ==
    IF Undecided(forest) = {} THEN <<forest>>
    ELSE Once(Max(Undecided(forest)), LAMBDA k :
             <<Decide(forest, k, "entity"), Decide(forest, k, "raw")>>)

\* canonicalInlineEvaluateFrontierCandidate.
Response(forest, withTilde) ==
    Once(Emit(forest), LAMBDA e :
        IF TopologyMatches(e.out, e.pairs)
        THEN [status |-> IF e.pairs = {} THEN "markerless" ELSE "valid",
              facts  |-> TransferFacts(e.out, e.pairs, withTilde)]
        ELSE IF Recoverable(e.out, e.pairs)
        THEN [status |-> "deferred", facts |-> TransferFacts(e.out, e.pairs, FALSE)]
        ELSE [status |-> "invalid"])

\* canonicalInlinePendingRawTabResponse.
Pending(forest) ==
    Once(Last(forest), LAMBDA n :
        IF n.kind = "text" /\ n.option /\ ~n.known
        THEN Response([forest EXCEPT ![Len(forest)].tab = "raw"], TRUE)
        ELSE [status |-> "invalid"])

Candidate(forest, status, key) == [forest |-> forest, status |-> status, key |-> key]

\* What one plan of the larger forest contributes to the next frontier.
Observed(forest, withTilde) ==
    LET variants == Variants(forest)
        seen == [v \in DOMAIN variants |->
                    [forest |-> variants[v], got |-> Response(variants[v], withTilde)]]
        emitted == SelectSeq(seen, LAMBDA s : s.got.status # "invalid")
    IN IF emitted # << >>
       THEN [v \in DOMAIN emitted |->
                Candidate(emitted[v].forest, emitted[v].got.status,
                          IF emitted[v].got.status = "valid"
                          THEN <<emitted[v].got, Pending(emitted[v].forest)>>
                          ELSE << >>)]
       ELSE Once(Pending(forest), LAMBDA p :
                IF p.status = "invalid" THEN << >>
                ELSE <<Candidate(forest, "valid", <<"pending", p>>)>>)

CompetesLoosely(c, d) == c.status = d.status /\ c.status # "deferred"   \* mutant

\* Which of two candidates stays: those of one kind compete on cost.
Competes(c, d) ==
    \/ c.status = "markerless" /\ d.status = "markerless"
    \/ c.status = "valid" /\ d.status = "valid" /\ c.key = d.key

Insert(kept, c) ==
    LET rivals == {k \in DOMAIN kept : Competes(kept[k], c)} IN
    IF rivals = {} THEN Append(kept, c)
    ELSE [k \in DOMAIN kept |->
             IF k \in rivals /\ Better(Cost(c.forest), Cost(kept[k].forest))
             THEN c ELSE kept[k]]

Prune(forests, withTilde) ==
    FoldLeft(Insert, << >>,
             FlattenSeq([k \in DOMAIN forests |-> Observed(forests[k], withTilde)]))

\* canonicalInlineFrontierWrap.
Wraps(n, children) ==
    CASE IsEmphasis(n) -> [v \in 1..2 |-> [kind |-> n.kind, children |-> children,
                                            marker |-> <<"*", "_">>[v]]]
      [] n.kind = "strike" -> [v \in 1..2 |-> [kind |-> "strike", children |-> children,
                                                width |-> 3 - v]]

Forests(candidates) == [k \in DOMAIN candidates |-> candidates[k].forest]

\* canonicalInlineBottomUpChildren and -Node.
RECURSIVE ChildrenFrontier(_, _, _, _), NodePlans(_, _, _)
NodePlans(n, next, withTilde) ==
    IF ~IsWrapper(n) THEN << <<Plain(n, next)>> >>
    ELSE Once(Forests(ChildrenFrontier(n.children, 1, << << >> >>, withTilde)), LAMBDA inner :
             Forests(Prune(FlattenSeq([k \in DOMAIN inner |->
                               [v \in 1..2 |-> <<Wraps(n, inner[k])[v]>>]]), withTilde)))

ChildrenFrontier(forest, k, left, withTilde) ==
    Once(NodePlans(forest[k], NextWraps(forest, k), withTilde), LAMBDA right :
    Once(Prune(FlattenSeq([l \in DOMAIN left |->
                   [r \in DOMAIN right |-> left[l] \o right[r]]]), withTilde), LAMBDA kept :
        IF k = Len(forest) \/ kept = << >> THEN kept
        ELSE ChildrenFrontier(forest, k + 1, Forests(kept), withTilde)))

\* canonicalInlineFinalHostProof.
Proved(c) ==
    /\ c.status # "deferred"
    /\ Once(Emit(c.forest), LAMBDA e : TopologyMatches(e.out, e.pairs))

\* canonicalInlineRenderHost.
RenderHost(forest, withTilde) ==
    LET found == SelectSeq(ChildrenFrontier(forest, 1, << << >> >>, withTilde), Proved)
    IN FoldLeft(LAMBDA best, c :
                   IF best = NoPlan \/ Better(Cost(c.forest), Cost(best)) THEN c.forest ELSE best,
                NoPlan, found)

HasStrike(forest) ==
    \E e \in ToSet(Preorder(forest, 1, Leaf("host"))) : e.node.kind = "strike"

Output(p) == Emit(p).out
-----------------------------------------------------------------------------
(***************************************************************************)
(* The author types a paragraph; the document is rendered; the rendering   *)
(* replaces the text.                                                      *)
(***************************************************************************)
\* Whether the block parser reads the text as one paragraph.
LineOf(t, p) == {q \in DOMAIN t : /\ q > p
                                  /\ \A i \in (p + 1)..q : t[i] \notin LineBreaks}
StartsParagraph(t, p) ==
    /\ p < Len(t) /\ t[p + 1] \notin Blank \cup LineBreaks
    /\ \E q \in LineOf(t, p) : t[q] \notin Markers \cup Blank
    /\ ~(t[p + 1] = "*" /\ p + 1 < Len(t) /\ t[p + 2] \in Blank)
    /\ ~(p + 2 < Len(t) /\ t[p + 1] = "~" /\ t[p + 2] = "~" /\ t[p + 3] = "~")
IsParagraph(t) ==
    /\ StartsParagraph(t, 0)
    /\ \A p \in DOMAIN t : t[p] \in LineBreaks => StartsParagraph(t, p)
    /\ ~Trimmed(t, Len(t) - 1)

Init ==
    /\ text \in InitialTexts
    /\ tree = Unread
    /\ plan = NoPlan

Type(c) ==
    /\ tree = Unread
    /\ Len(text) < MaxLength
    /\ text' = Append(text, c)
    /\ UNCHANGED <<tree, plan>>

Render ==
    /\ tree = Unread
    /\ IsParagraph(text)
    /\ tree' = Parse(text)
    /\ plan' = RenderHost(tree', HasStrike(tree'))
    /\ UNCHANGED text

Adopt ==
    /\ plan # NoPlan
    /\ text' = Output(plan)
    /\ text' # text
    /\ tree' = Unread
    /\ plan' = NoPlan

Next == (\E c \in Tokens : Type(c)) \/ Render \/ Adopt

Spec == Init /\ [][Next]_vars
-----------------------------------------------------------------------------
\* The resolver with its index of openers pairs the runs of every text as
\* CommonMark's search through the delimiter stack does.
ResolverExact == Resolve(Runs(text)) = CommonMark(Runs(text))

\* A rendered paragraph reads as the paragraph that was rendered.
RoundTrip == plan # NoPlan => Parse(Output(plan)) = tree

\* Every way to write the tree.
RECURSIVE AllPlans(_, _)
AllPlans(forest, k) ==
    IF k > Len(forest) THEN {<< >>}
    ELSE LET first == IF IsWrapper(forest[k])
                      THEN {Wraps(forest[k], c)[v] : c \in AllPlans(forest[k].children, 1),
                                                     v \in 1..2}
                      ELSE Once(Plain(forest[k], NextWraps(forest, k)), LAMBDA n :
                               IF n.kind = "text" /\ n.option
                               THEN {n, [n EXCEPT !.tab = "raw"]} ELSE {n})
         IN {<<n>> \o rest : n \in first, rest \in AllPlans(forest, k + 1)}

ReadsBack(p) == Once(Emit(p), LAMBDA e : TopologyMatches(e.out, e.pairs))

\* Thinning the frontier loses nothing: if the tree can be written at all it
\* is, and no way to write it is better than the one that is found.
PruningExact ==
    tree # Unread =>
        \A p \in AllPlans(tree, 1) :
            ReadsBack(p) => plan # NoPlan /\ ~Better(Cost(p), Cost(plan))
=============================================================================
