------------------------------ MODULE Workspace ------------------------------
(***************************************************************************)
(* BuildDocumentGraph, ValidateWorkspace and the repairs it plans.  Both   *)
(* calls ask the caller's resolver about every link that is not local, one *)
(* callback at a time, and both trust nothing it answers: an answer may    *)
(* contradict another one, name a document that is not there, or change    *)
(* from one call to the next.  Documents are snapshots; the files they     *)
(* were parsed from can be written while a call runs and before a repair   *)
(* is applied.                                                             *)
(*                                                                         *)
(* A text is its headings' anchors, its other anchors, its links, the      *)
(* unresolved references in it, and for each heading the anchors that the  *)
(* table of contents below it links to, or NoTable.                        *)
(***************************************************************************)
EXTENDS Graph

CONSTANTS
    Keys,         \* the documents of the workspace
    Files,        \* what each file holds at first
    Texts,        \* what a file may hold
    Names,        \* what anchors and destinations are named
    Writes,       \* the texts another program may write into a file
    Elsewhere,    \* a document key that is in no document set
    NoKey,        \* the empty document key
    NoTable,      \* the body of a heading is no table of contents
    BadFragment,  \* a fragment no anchor can equal: broken escapes
    Fragments,    \* fragments the resolver answers with
    DocumentLists, RootLists, ManagedLists,  \* arguments of the calls
    MaxWrites     \* bound: files written by others

NoFragment == "none"

ASSUME KeyAssumption ==
    /\ {Elsewhere, NoKey} \cap Keys = {}
    /\ NoFragment \notin Fragments \cup Names
    /\ Files \subseteq [Keys -> Texts] /\ Writes \subseteq Texts
    /\ MaxWrites \in Nat

ParsedTexts ==
    {t \in [headings : Seq(Names), ids : Seq(Names),
            links : Seq([local : BOOLEAN, to : Names]),
            tables : Seq(Seq(Names) \cup {NoTable}), unresolved : Nat] :
        Len(t.tables) = Len(t.headings)}

ASSUME TextAssumption == Texts \subseteq ParsedTexts

\* Every argument is a list; what is wrong with it is for the calls to see.
ASSUME ArgumentAssumption ==
    LET AnyKey == Keys \cup {Elsewhere, NoKey}
    IN /\ DocumentLists \subseteq Seq(AnyKey) /\ RootLists \subseteq Seq(AnyKey)
       /\ ManagedLists \subseteq Seq([document : AnyKey, heading : Nat])

VARIABLES
    files,        \* the text in each file
    writes,       \* how many of them others wrote
    call,         \* "none", "graph" or "validate"
    documents,    \* the snapshots of the call, each [key, text]
    options,      \* WorkspaceValidationOptions
    doc, link,    \* the next relationship to look at
    start,        \* edges of the graph before the current document's
    resolved,     \* workspaceValidationState.resolved, by relationship key
    graph,
    diagnostics,
    repairs,      \* the plan, each [document, text, headings]
    result,       \* "none", "graph", "report" or "invalid"
    answers       \* history: what the resolver answered, by source and offset

argVars == <<documents, options>>
vars == <<files, writes, call, argVars, doc, link, start, resolved, graph,
          diagnostics, repairs, result, answers>>

NoOptions == [roots |-> << >>, managed |-> << >>]

(***************************************************************************)
(* linkRelationships of a snapshot: its links, then the entries of its     *)
(* tables.  The offset of a relationship is its place.                     *)
(***************************************************************************)
Local(fragment) == [local |-> TRUE, to |-> fragment]

Entries(text) ==
    FlattenSeq([h \in DOMAIN text.headings |->
        IF text.tables[h] = NoTable THEN << >>
        ELSE [i \in DOMAIN text.tables[h] |-> Local(text.tables[h][i])]])

linkRelationships(text) ==
    LET links == text.links \o Entries(text)
    IN [i \in DOMAIN links |-> [offset |-> i, local |-> links[i].local, to |-> links[i].to]]

fragmentStatus(text, fragment) ==
    LET matches == {h \in DOMAIN text.headings : text.headings[h] = fragment}
        ids == {i \in DOMAIN text.ids : text.ids[i] = fragment}
        count == Cardinality(matches) + Cardinality(ids)
    IN CASE fragment = BadFragment               -> "invalid"
         [] fragment # BadFragment /\ count = 0  -> "missing"
         [] fragment # BadFragment /\ count = 1  -> "resolved"
         [] fragment # BadFragment /\ count > 1  -> "ambiguous"

TextIn(snapshots, key) ==
    snapshots[CHOOSE i \in DOMAIN snapshots : snapshots[i].key = key].text

TextOf(key) == TextIn(documents, key)

Known == {documents[i].key : i \in DOMAIN documents}

TheOnly(S) == CHOOSE x \in S : TRUE

(***************************************************************************)
(* Edges and diagnostics of one relationship.                              *)
(***************************************************************************)
GraphEdge(source, relationship, target, fragment) ==
    [source |-> source, offset |-> relationship.offset, target |-> target,
     fragment |-> fragment,
     found |-> fragment # NoFragment
                 /\ fragmentStatus(TextOf(target), fragment) = "resolved"]

localGraphEdge(source, relationship) ==
    GraphEdge(source, relationship, source, relationship.to)

Diagnostic(kind, source, offset, target, fragment) ==
    [kind |-> kind, source |-> source, offset |-> offset, target |-> target,
     fragment |-> fragment]

\* mutant: an anchor that is there twice is good enough
missingDiagnostic(source, relationship, target, fragment) ==
    LET status == fragmentStatus(TextOf(target), fragment)
    IN IF status \in {"resolved", "ambiguous"} THEN << >>
       ELSE <<Diagnostic(status, source, relationship.offset, target, fragment)>>

fragmentDiagnostic(source, relationship, target, fragment) ==
    LET status == fragmentStatus(TextOf(target), fragment)
    IN IF status = "resolved" THEN << >>
       ELSE <<Diagnostic(status, source, relationship.offset, target, fragment)>>

-----------------------------------------------------------------------------
Init ==
    /\ files \in Files
    /\ writes = 0
    /\ call = "none"
    /\ documents = << >> /\ options = NoOptions
    /\ doc = 1 /\ link = 1 /\ start = 0
    /\ resolved = << >>
    /\ graph = newDocumentGraph(<< >>)
    /\ diagnostics = << >>
    /\ repairs = << >>
    /\ result = "none"
    /\ answers = << >>

(***************************************************************************)
(* newDocumentGraph and validateWorkspaceInputs.                           *)
(***************************************************************************)
ValidDocuments(keys) == Members(keys) \subseteq Keys /\ Distinct(keys)

ValidRoots(keys, roots) == Members(roots) \subseteq Members(keys) /\ Distinct(roots)

validateManagedTOCs(keys, managed) ==
    /\ Distinct(managed)
    /\ \A i \in DOMAIN managed :
          /\ managed[i].document \in Members(keys)
          /\ managed[i].heading \in DOMAIN files[managed[i].document].headings

Begin(kind, keys, chosen) ==
    /\ call = "none"
    /\ call' = kind
    /\ documents' = [i \in DOMAIN keys |-> [key |-> keys[i], text |-> files[keys[i]]]]
    /\ options' = chosen
    /\ doc' = 1 /\ link' = 1 /\ start' = 0
    /\ resolved' = << >>
    /\ graph' = newDocumentGraph(keys)
    /\ diagnostics' = << >>
    /\ repairs' = << >>
    /\ result' = "none"
    /\ answers' = << >>
    /\ UNCHANGED <<files, writes>>

BuildDocumentGraph(keys) ==
    ValidDocuments(keys) /\ Begin("graph", keys, NoOptions)

ValidateWorkspace(keys, roots, managed) ==
    /\ ValidDocuments(keys)
    /\ ValidRoots(keys, roots)
    /\ validateManagedTOCs(keys, managed)
    /\ Begin("validate", keys, [roots |-> roots, managed |-> managed])

\* Arguments that are refused before anything is asked of the resolver.
Refuse(keys, roots, managed) ==
    /\ call = "none" /\ result # "invalid"
    /\ \/ ~ValidDocuments(keys)
       \/ ~ValidRoots(keys, roots)
       \/ ~validateManagedTOCs(keys, managed)
    /\ result' = "invalid"
    /\ documents' = << >> /\ options' = NoOptions
    /\ graph' = newDocumentGraph(<< >>)
    /\ diagnostics' = << >> /\ repairs' = << >> /\ answers' = << >>
    /\ UNCHANGED <<files, writes, call, doc, link, start, resolved>>

(***************************************************************************)
(* A call that fails returns neither graph nor report.                     *)
(***************************************************************************)
Fail ==
    /\ call' = "none"
    /\ result' = "invalid"
    /\ documents' = << >> /\ options' = NoOptions
    /\ doc' = 1 /\ link' = 1 /\ start' = 0
    /\ resolved' = << >>
    /\ graph' = newDocumentGraph(<< >>)
    /\ diagnostics' = << >> /\ repairs' = << >> /\ answers' = << >>
    /\ UNCHANGED <<files, writes>>

Source  == documents[doc].key
Links   == linkRelationships(documents[doc].text)
Running == call # "none" /\ doc \in DOMAIN documents
Asking  == Running /\ link \in DOMAIN Links
Current == Links[link]

Answer(kind, target, fragment) ==
    [kind |-> kind, target |-> target, fragment |-> fragment]

Answers ==
    {Answer(k, t, f) : k \in {"ignore", "missing", "resolved", "unknown"},
                       t \in Keys \cup {Elsewhere, NoKey},
                       f \in Fragments \cup {NoFragment}}

Ignored == Answer("ignore", NoKey, NoFragment)

Record(answer) ==
    answers' = Append(answers, [source |-> Source, offset |-> Current.offset,
                                answer |-> answer])

Advance == link' = link + 1 /\ UNCHANGED <<files, writes, call, argVars, doc, start,
                                           repairs, result>>

(***************************************************************************)
(* appendRelationshipEdges while BuildDocumentGraph runs: the edge is      *)
(* added as soon as the resolver has answered.                             *)
(***************************************************************************)
GraphLocal ==
    /\ call = "graph" /\ Asking /\ Current.local
    /\ graph' = addEdge(graph, localGraphEdge(Source, Current))
    /\ Advance /\ UNCHANGED <<resolved, diagnostics, answers>>

GraphSkip ==
    /\ call = "graph" /\ Asking /\ ~Current.local
    /\ Record(Ignored)
    /\ Advance /\ UNCHANGED <<resolved, graph, diagnostics>>

GraphResolved(answer) ==
    /\ call = "graph" /\ Asking /\ ~Current.local
    /\ answer.kind = "resolved" /\ answer.target \in Known
    /\ graph' = addEdge(graph, GraphEdge(Source, Current, answer.target, answer.fragment))
    /\ Record(answer)
    /\ Advance /\ UNCHANGED <<resolved, diagnostics>>

GraphRejects(answer) ==
    /\ call = "graph" /\ Asking /\ ~Current.local
    /\ answer.kind = "resolved" /\ answer.target \notin Known
    /\ Fail

(***************************************************************************)
(* scanDocumentRelationships: diagnostics first, the resolutions put       *)
(* aside until the document's edges are added.                             *)
(***************************************************************************)
RelationshipByTarget(relationship) == relationship.to      \* mutant
workspaceRelationshipKeyFor(relationship) == <<relationship.offset, relationship.to>>

ScanLocal ==
    /\ call = "validate" /\ Asking /\ Current.local
    /\ diagnostics' = diagnostics \o fragmentDiagnostic(Source, Current, Source, Current.to)
    /\ Advance /\ UNCHANGED <<resolved, graph, answers>>

acceptIgnored(answer) ==
    /\ call = "validate" /\ Asking /\ ~Current.local
    /\ answer = Ignored
    /\ Record(answer)
    /\ Advance /\ UNCHANGED <<resolved, graph, diagnostics>>

acceptMissingResolution(answer) ==
    /\ call = "validate" /\ Asking /\ ~Current.local
    /\ answer.kind = "missing" /\ answer.target \notin Known \cup {NoKey}
    /\ diagnostics' = Append(diagnostics,
            Diagnostic("document", Source, Current.offset, answer.target, answer.fragment))
    /\ Record(answer)
    /\ Advance /\ UNCHANGED <<resolved, graph>>

acceptResolvedResolution(answer) ==
    /\ call = "validate" /\ Asking /\ ~Current.local
    /\ answer.kind = "resolved" /\ answer.target \in Known
    /\ LET key == workspaceRelationshipKeyFor(Current)
           others == Kept(resolved, {r \in Members(resolved) : r.key # key})
       IN resolved' = Append(others, [key |-> key, answer |-> answer])
    /\ diagnostics' = diagnostics \o
            (IF answer.fragment = NoFragment THEN << >>
             ELSE fragmentDiagnostic(Source, Current, answer.target, answer.fragment))
    /\ Record(answer)
    /\ Advance /\ UNCHANGED graph

rejectResolution(answer) ==
    /\ call = "validate" /\ Asking /\ ~Current.local
    /\ \/ answer.kind = "ignore" /\ answer # Ignored
       \/ answer.kind = "missing" /\ answer.target \in Known \cup {NoKey}
       \/ answer.kind = "resolved" /\ answer.target \notin Known
       \/ answer.kind = "unknown"
    /\ Fail

(***************************************************************************)
(* The end of a document: ValidateWorkspace adds its edges now, from the   *)
(* resolutions put aside.                                                  *)
(***************************************************************************)
Resolution(r) ==
    {m.answer : m \in {m \in Members(resolved) : m.key = workspaceRelationshipKeyFor(r)}}

ResolvedEdge(r) ==
    LET answer == TheOnly(Resolution(r))
    IN IF r.local THEN <<localGraphEdge(Source, r)>>
       ELSE IF Resolution(r) = {} THEN << >>
       ELSE <<GraphEdge(Source, r, answer.target, answer.fragment)>>

ResolvedEdges == FlattenSeq([i \in DOMAIN Links |-> ResolvedEdge(Links[i])])

EndDocument ==
    /\ Running /\ link = Len(Links) + 1
    /\ LET g == IF call = "graph" THEN graph ELSE addEdges(graph, ResolvedEdges)
       IN /\ graph' = closeSource(g, Source, start)
          /\ start' = Len(g.edges)
    /\ doc' = doc + 1 /\ link' = 1
    /\ resolved' = << >>
    /\ UNCHANGED <<files, writes, call, argVars, diagnostics, repairs, result, answers>>

EndGraph ==
    /\ call = "graph" /\ doc = Len(documents) + 1
    /\ call' = "none" /\ result' = "graph"
    /\ doc' = 1 /\ start' = 0
    /\ UNCHANGED <<files, writes, argVars, link, resolved, graph, diagnostics, repairs,
                   answers>>

(***************************************************************************)
(* The end of ValidateWorkspace: nothing is asked of the caller any more.  *)
(***************************************************************************)
Stale(text, h)      == text.tables[h] # NoTable /\ text.tables[h] # text.headings

UnresolvedReferences(text) == [n \in 1..text.unresolved |-> n]

appendUnresolvedReferences ==
    LET of(d) == [n \in DOMAIN UnresolvedReferences(d.text) |->
                    Diagnostic("reference", d.key, UnresolvedReferences(d.text)[n], d.key,
                               NoFragment)]
    IN FlattenSeq([i \in DOMAIN documents |-> of(documents[i])])

appendOrphanDiagnostics ==
    LET reachable == reachableFromRoots(graph, options.roots)
        orphans == Kept(graph.keys, Members(graph.keys) \ reachable)
    IN IF options.roots = << >> THEN << >>
       ELSE [i \in DOMAIN orphans |->
               Diagnostic("orphan", orphans[i], 0, orphans[i], NoFragment)]

appendManagedTOCDiagnostics ==
    LET diagnosed(m) == LET text == TextOf(m.document) IN
            CASE text.tables[m.heading] = NoTable -> <<"unrecognized">>
              [] Stale(text, m.heading)           -> <<"stale">>
              [] OTHER                            -> << >>
        of(m) == [i \in DOMAIN diagnosed(m) |->
                    Diagnostic(diagnosed(m)[i], m.document, m.heading, m.document, NoFragment)]
    IN FlattenSeq([i \in DOMAIN options.managed |-> of(options.managed[i])])

StaleTargets ==
    Kept(options.managed,
         {m \in Members(options.managed) : Stale(TextOf(m.document), m.heading)})

\* mutant: one repair holds the first stale table of its document
FirstHeadingOf(targets, key) ==
    {(CHOOSE m \in Members(targets) : m.document = key).heading}

HeadingsOf(targets, key) == {m.heading : m \in {t \in Members(targets) : t.document = key}}

\* One change for each document, in the order its first stale table was met.
prepareManagedTOCRepairs ==
    LET order == appendUnvisited(<< >>, [i \in DOMAIN StaleTargets |-> StaleTargets[i].document])
    IN [i \in DOMAIN order |->
          [document |-> order[i], text |-> TextOf(order[i]),
           headings |-> HeadingsOf(StaleTargets, order[i])]]

Report ==
    /\ call = "validate" /\ doc = Len(documents) + 1
    /\ diagnostics' = diagnostics \o appendUnresolvedReferences
                        \o appendOrphanDiagnostics \o appendManagedTOCDiagnostics
    /\ repairs' = prepareManagedTOCRepairs
    /\ call' = "none" /\ result' = "report"
    /\ doc' = 1 /\ start' = 0
    /\ UNCHANGED <<files, writes, argVars, link, resolved, graph, answers>>

\* The candidate of a repair is refused: the whole call fails.
ReportFails ==
    /\ call = "validate" /\ doc = Len(documents) + 1
    /\ prepareManagedTOCRepairs # << >>
    /\ Fail

(***************************************************************************)
(* The caller applies a repair to what the file holds by then.             *)
(***************************************************************************)
SyncTOCs(text, headings) ==
    [text EXCEPT !.tables = [h \in DOMAIN @ |-> IF h \in headings THEN text.headings ELSE @[h]]]

Applies(repair) == files[repair.document] = repair.text

ApplyRepair(repair) ==
    /\ call = "none"
    /\ Applies(repair)
    /\ files' = [files EXCEPT ![repair.document] = SyncTOCs(@, repair.headings)]
    /\ UNCHANGED <<writes, call, argVars, doc, link, start, resolved, graph, diagnostics,
                   repairs, result, answers>>

Write(key, text) ==
    /\ writes < MaxWrites /\ files[key] # text
    /\ files' = [files EXCEPT ![key] = text]
    /\ writes' = writes + 1
    /\ UNCHANGED <<call, argVars, doc, link, start, resolved, graph, diagnostics, repairs,
                   result, answers>>

Next ==
    \/ \E keys \in DocumentLists : BuildDocumentGraph(keys)
    \/ \E keys \in DocumentLists, roots \in RootLists, managed \in ManagedLists :
          ValidateWorkspace(keys, roots, managed) \/ Refuse(keys, roots, managed)
    \/ GraphLocal \/ GraphSkip \/ ScanLocal
    \/ \E a \in Answers :
          \/ GraphResolved(a) \/ GraphRejects(a) \/ acceptIgnored(a)
          \/ acceptMissingResolution(a) \/ acceptResolvedResolution(a)
          \/ rejectResolution(a)
    \/ EndDocument \/ EndGraph \/ Report \/ ReportFails
    \/ \E i \in DOMAIN repairs : ApplyRepair(repairs[i])
    \/ \E key \in Keys, text \in Writes : Write(key, text)

Spec == Init /\ [][Next]_vars

-----------------------------------------------------------------------------
AskedAbout(source, offset) ==
    {i \in DOMAIN answers : answers[i].source = source /\ answers[i].offset = offset}

AnsweredTo(source, offset) == {answers[i].answer : i \in AskedAbout(source, offset)}

(***************************************************************************)
(* A graph holds one edge for every local link and for every link the      *)
(* resolver resolved, in document and source order, and none for the       *)
(* others; the resolver was asked once about each.  Both indexes agree     *)
(* with the edges: closeSource relies on the edges of a source being next  *)
(* to each other, which ValidateWorkspace has to see to as it goes.        *)
(***************************************************************************)
EdgeFor(source, r) ==
    LET answer == TheOnly(AnsweredTo(source, r.offset))
    IN IF r.local THEN <<localGraphEdge(source, r)>>
       ELSE IF answer.kind # "resolved" THEN << >>
       ELSE <<GraphEdge(source, r, answer.target, answer.fragment)>>

EdgesFor(d) ==
    LET links == linkRelationships(d.text)
    IN FlattenSeq([i \in DOMAIN links |-> EdgeFor(d.key, links[i])])

AskedOnce ==
    \A i \in DOMAIN documents :
        LET links == linkRelationships(documents[i].text) IN
        \A r \in Members(links) :
            Cardinality(AskedAbout(documents[i].key, r.offset)) = IF r.local THEN 0 ELSE 1

GraphExact ==
    result \in {"graph", "report"} =>
        /\ AskedOnce
        /\ graph.edges = FlattenSeq([i \in DOMAIN documents |-> EdgesFor(documents[i])])
        /\ \A k \in Known :
              /\ outgoingEdges(graph, k)
                    = Kept(graph.edges, {e \in Members(graph.edges) : e.source = k})
              /\ Backlinks(graph, k)
                    = Kept(graph.edges, {e \in Members(graph.edges) : e.target = k})

(***************************************************************************)
(* The report and the graph in it tell the same story.  An edge whose      *)
(* fragment was not found is diagnosed once, with its reason, any other    *)
(* edge is not; a link reported missing has no edge; and a document is     *)
(* diagnosed as an orphan, once, if no edges of the graph lead to it from  *)
(* a root.                                                                 *)
(***************************************************************************)
FragmentKinds == {"missing", "ambiguous", "invalid"}

Diagnosed(kinds, source, offset) ==
    Cardinality({i \in DOMAIN diagnostics : /\ diagnostics[i].kind \in kinds
                                            /\ diagnostics[i].source = source
                                            /\ diagnostics[i].offset = offset})

IsOrphan(k) ==
    /\ options.roots # << >>
    /\ k \notin Within(Successors(graph), Members(options.roots))[Cardinality(Known)]

EdgesDiagnosed ==
    \A e \in Members(graph.edges) :
        /\ Diagnosed(FragmentKinds, e.source, e.offset)
              = IF e.found \/ e.fragment = NoFragment THEN 0 ELSE 1
        /\ Diagnosed({"document"}, e.source, e.offset) = 0

DiagnosticsHaveEdges ==
    \A d \in Members(diagnostics) : d.kind \in FragmentKinds =>
        \E e \in Members(graph.edges) :
            /\ e.source = d.source /\ e.offset = d.offset
            /\ e.target = d.target /\ e.fragment = d.fragment

ReportExact ==
    result = "report" =>
        /\ EdgesDiagnosed /\ DiagnosticsHaveEdges
        /\ \A i \in DOMAIN answers :
              Diagnosed({"document"}, answers[i].source, answers[i].offset)
                 = IF answers[i].answer.kind = "missing" THEN 1 ELSE 0
        /\ \A k \in Known : Diagnosed({"orphan"}, k, 0) = IF IsOrphan(k) THEN 1 ELSE 0

(***************************************************************************)
(* Repairs of different documents do not depend on each other: as long as  *)
(* nobody else has written a document, every managed table in it is up to  *)
(* date, or one repair that still applies brings all of them up to date,   *)
(* in whatever order the caller applies the plan.                          *)
(***************************************************************************)
Repaired(repair) == SyncTOCs(repair.text, repair.headings)

RepairsConverge ==
    result = "report" =>
        \A m \in Members(options.managed) :
            LET plan == {r \in Members(repairs) : r.document = m.document}
                untouched == {TextOf(m.document)} \cup {Repaired(r) : r \in plan}
            IN files[m.document] \in untouched =>
                  \/ ~Stale(files[m.document], m.heading)
                  \/ \E r \in plan : Applies(r) /\ ~Stale(Repaired(r), m.heading)
=============================================================================
