------------------------------ MODULE Knowledge ------------------------------
(***************************************************************************)
(* BuildKnowledgeIndex: aliases, tags and logical references that a caller *)
(* lays over a finished graph, and the queries that read both.  The        *)
(* references form a graph of their own over the same documents.           *)
(***************************************************************************)
EXTENDS Workspace

CONSTANTS
    Metadata,      \* argument lists, each element a KnowledgeDocument
    Words,         \* what aliases and tags may be, valid or not
    BadText        \* an alias or tag that is no valid text

ASSUME MetadataAssumption ==
    LET AnyKey == Keys \cup {Elsewhere, NoKey}
    IN Metadata \subseteq Seq([document : AnyKey, aliases : Seq(Words), tags : Seq(Words),
                               references : Seq(AnyKey)])

VARIABLES
    index          \* the KnowledgeIndex built last, or NoIndex

knowledgeVars == <<vars, index>>

NoIndex == [built |-> FALSE]

(***************************************************************************)
(* validateKnowledgeDocument of each document, and what it keeps of the    *)
(* ones before: their keys and their aliases.                              *)
(***************************************************************************)
ValidDocument(g, m) ==
    /\ m.document \in Members(g.keys)
    /\ Members(m.aliases) \cap ({BadText} \cup Members(g.keys)) = {}
    /\ BadText \notin Members(m.tags) /\ Distinct(m.tags)
    /\ Members(m.references) \subseteq Members(g.keys) /\ Distinct(m.references)

AliasesDistinctPerDocument(metadata) ==           \* mutant
    \A i \in DOMAIN metadata : Distinct(metadata[i].aliases)

AliasesDistinct(metadata) ==
    Distinct(FlattenSeq([i \in DOMAIN metadata |-> metadata[i].aliases]))

ValidMetadata(g, metadata) ==
    /\ \A i \in DOMAIN metadata : ValidDocument(g, metadata[i])
    /\ Distinct([i \in DOMAIN metadata |-> metadata[i].document])
    /\ AliasesDistinct(metadata)

(***************************************************************************)
(* addReferences for each source, in the order of the graph's documents.   *)
(***************************************************************************)
addReferences(g, source, targets) ==
    LET edges == [i \in DOMAIN targets |-> [source |-> source, target |-> targets[i]]]
    IN closeSource(addEdges(g, edges), source, Len(g.edges))

NoMetadata == [document |-> NoKey, aliases |-> << >>, tags |-> << >>, references |-> << >>]

MetadataOf(metadata, key) ==
    LET own == {i \in DOMAIN metadata : metadata[i].document = key}
    IN IF own = {} THEN NoMetadata ELSE metadata[TheOnly(own)]

\* Whose references are added, in this order.
SourcesAsGiven(g, metadata) ==                    \* mutant
    [i \in DOMAIN metadata |-> metadata[i].document]

Sources(g, metadata) == g.keys

\* given is history: what the index was built from.
KnowledgeIndex(g, metadata) ==
    LET sources == Sources(g, metadata)
        add[i \in 0..Len(sources)] ==
            IF i = 0 THEN newDocumentGraph(g.keys)
            ELSE addReferences(add[i - 1], sources[i],
                               MetadataOf(metadata, sources[i]).references)
        aliases == UNION {Members(metadata[i].aliases) : i \in DOMAIN metadata}
    IN [built       |-> TRUE,
        given       |-> metadata,
        aliases     |-> [k \in Members(g.keys) |-> MetadataOf(metadata, k).aliases],
        tags        |-> [k \in Members(g.keys) |-> MetadataOf(metadata, k).tags],
        aliasOwners |-> [a \in aliases |->
                            metadata[CHOOSE i \in DOMAIN metadata :
                                        a \in Members(metadata[i].aliases)].document],
        references  |-> add[Len(sources)]]

BuildKnowledgeIndex(metadata) ==
    /\ call = "none" /\ result \in {"graph", "report"}
    /\ index' = IF ValidMetadata(graph, metadata) THEN KnowledgeIndex(graph, metadata)
                ELSE NoIndex
    /\ UNCHANGED vars

(***************************************************************************)
(* Queries.                                                                *)
(***************************************************************************)
References(k)          == k.references.edges
ReferencesFrom(k, key) == outgoingEdges(k.references, key)
ReferencedBy(k, key)   == Backlinks(k.references, key)

DocumentsWithTag(k, tag) ==
    Kept(graph.keys, {d \in Members(graph.keys) : tag \in Members(k.tags[d])})

\* For each document its edges first, then its references.
AllSuccessors(k) ==
    [d \in Members(graph.keys) |->
        Successors(graph)[d] \o Targets(ReferencesFrom(k, d))]

KnowledgeReachableFrom(k, key) == Tail(Search(AllSuccessors(k), <<key>>))

KnowledgeRelated(k, key) ==
    LET related == markRelatedDocuments(graph, key)
                      \cup markRelatedDocuments(k.references, key)
    IN Kept(graph.keys, related \ {key})

KnowledgeInit == Init /\ index = NoIndex

\* A caller that goes on drops the index of the graph it had.
KnowledgeNext ==
    \/ Next /\ index' = NoIndex
    \/ \E metadata \in Metadata : BuildKnowledgeIndex(metadata)

KnowledgeSpec == KnowledgeInit /\ [][KnowledgeNext]_knowledgeVars

-----------------------------------------------------------------------------
(***************************************************************************)
(* Every traversal finds what the edges lead to.  A search from one        *)
(* document, over the edges alone or over edges and references, lists each *)
(* document once, the nearer ones first, and not the one it starts from,   *)
(* even in a cycle.  A search from several roots finds what any of them    *)
(* leads to, the roots included.  The related documents are those that an  *)
(* edge (or a reference) joins to the document in either direction, in the *)
(* order of the graph's documents.                                         *)
(***************************************************************************)
SearchFrom(next, found, key) == IsBreadthFirst(<<key>> \o found, next, {key})

JoinedTo(g, k) ==
    {j \in Known \ {k} :
        \E e \in Members(g.edges) : \/ e.source = k /\ e.target = j
                                    \/ e.source = j /\ e.target = k}

TraversalsExact ==
    result \in {"graph", "report"} =>
        /\ \A k \in Known :
              /\ SearchFrom(Successors(graph), ReachableFrom(graph, k), k)
              /\ RelatedDocuments(graph, k) = Kept(graph.keys, JoinedTo(graph, k))
        /\ \A roots \in RootLists : ValidRoots(graph.keys, roots) =>
              reachableFromRoots(graph, roots)
                 = Within(Successors(graph), Members(roots))[Cardinality(Known)]
        /\ index.built => \A k \in Known :
              /\ SearchFrom(AllSuccessors(index), KnowledgeReachableFrom(index, k), k)
              /\ KnowledgeRelated(index, k)
                    = Kept(graph.keys, JoinedTo(graph, k) \cup JoinedTo(index.references, k))

(***************************************************************************)
(* The index answers from both ends alike: an alias leads to the document  *)
(* that lists it, to no other and never to where a key would; the          *)
(* references of a document are the ones it gave, in its order; all of     *)
(* them together are in the order of the graph's documents, however the    *)
(* metadata was placed, and those to a document are the ones of them that  *)
(* have it as their target.                                                *)
(***************************************************************************)
ReferencesGiven(k) ==
    LET own == {m \in Members(index.given) : m.document = k}
        targets == IF own = {} THEN << >> ELSE TheOnly(own).references
    IN [i \in DOMAIN targets |-> [source |-> k, target |-> targets[i]]]

KnowledgeExact ==
    index.built =>
        /\ \A k \in Known : \A a \in Members(index.aliases[k]) :
              a \in DOMAIN index.aliasOwners /\ index.aliasOwners[a] = k
        /\ \A a \in DOMAIN index.aliasOwners :
              a \notin Known /\ a \in Members(index.aliases[index.aliasOwners[a]])
        /\ References(index)
              = FlattenSeq([i \in DOMAIN graph.keys |-> ReferencesGiven(graph.keys[i])])
        /\ \A k \in Known :
              /\ ReferencesFrom(index, k) = ReferencesGiven(k)
              /\ ReferencedBy(index, k)
                    = Kept(References(index), {e \in Members(References(index)) : e.target = k})
=============================================================================
