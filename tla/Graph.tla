------------------------------- MODULE Graph -------------------------------
(***************************************************************************)
(* DocumentGraph: the documents a caller supplied, the edges between them  *)
(* in document and source order, and the two indexes the queries read -    *)
(* the range of the edges that leave a document, and the positions of the  *)
(* edges that enter it.  The traversals are breadth first over any number  *)
(* of adjacency lists: the knowledge index adds its own to the graph's.    *)
(***************************************************************************)
EXTENDS Integers, FiniteSets, SequencesExt

Members(s) == {s[i] : i \in DOMAIN s}

Distinct(s) == \A i, j \in DOMAIN s : s[i] = s[j] => i = j

\* The elements of s that are in S, in their order.
Kept(s, S) == FlattenSeq([i \in DOMAIN s |-> IF s[i] \in S THEN <<s[i]>> ELSE << >>])

(***************************************************************************)
(* An adjacencyRange, start exclusive; the zero value is an empty range.   *)
(***************************************************************************)
NoEdges == [start |-> 0, end |-> 0]

newDocumentGraph(keys) ==
    [keys      |-> keys,
     edges     |-> << >>,
     outgoing  |-> [k \in Members(keys) |-> NoEdges],
     backlinks |-> [k \in Members(keys) |-> << >>]]

addEdge(g, edge) ==
    [keys      |-> g.keys,
     edges     |-> Append(g.edges, edge),
     outgoing  |-> g.outgoing,
     backlinks |-> [g.backlinks EXCEPT ![edge.target] = Append(@, Len(g.edges) + 1)]]

addEdges(g, edges) ==
    LET add[i \in 0..Len(edges)] ==
            IF i = 0 THEN g ELSE addEdge(add[i - 1], edges[i])
    IN add[Len(edges)]

\* The edges of one source are contiguous: each is visited once.
closeSource(g, key, start) ==
    IF Len(g.edges) = start THEN g
    ELSE [g EXCEPT !.outgoing[key] = [start |-> start, end |-> Len(g.edges)]]

outgoingEdges(g, key) ==
    SubSeq(g.edges, g.outgoing[key].start + 1, g.outgoing[key].end)

Backlinks(g, key) ==
    [i \in DOMAIN g.backlinks[key] |-> g.edges[g.backlinks[key][i]]]

(***************************************************************************)
(* The queue of a search is also its list of visited documents; head is    *)
(* how many of them were expanded.  next[k] is what k leads to, in order.  *)
(***************************************************************************)
appendEvery(queue, targets) == queue \o targets      \* mutant: no visited map

appendUnvisited(queue, targets) ==
    LET add[i \in 0..Len(targets)] ==
            IF i = 0 THEN queue
            ELSE IF targets[i] \in Members(add[i - 1]) THEN add[i - 1]
            ELSE Append(add[i - 1], targets[i])
    IN add[Len(targets)]

Search(next, roots) ==
    LET nodes == DOMAIN next
        expand[head \in 0..Cardinality(nodes)] ==
            IF head = 0 THEN appendUnvisited(<< >>, roots)
            ELSE LET queue == expand[head - 1] IN
                 IF head > Len(queue) THEN queue
                 ELSE appendUnvisited(queue, next[queue[head]])
    IN expand[Cardinality(nodes)]

Targets(edges) == [i \in DOMAIN edges |-> edges[i].target]

Successors(g) == [k \in Members(g.keys) |-> Targets(outgoingEdges(g, k))]

ReachableFrom(g, key)       == Tail(Search(Successors(g), <<key>>))
reachableFromRoots(g, roots) == Members(Search(Successors(g), roots))

markRelatedDocuments(g, key) ==
    Members(Targets(outgoingEdges(g, key)))
        \cup {g.edges[i].source : i \in Members(g.backlinks[key])}

RelatedDocuments(g, key) ==
    Kept(g.keys, markRelatedDocuments(g, key) \ {key})

-----------------------------------------------------------------------------
(***************************************************************************)
(* What a search promises, with no queue in it: the documents at a         *)
(* distance from the roots are those an edge leads to from one nearer.     *)
(***************************************************************************)
Within(next, roots) ==
    LET within[n \in 0..Cardinality(DOMAIN next)] ==
            IF n = 0 THEN roots
            ELSE within[n - 1] \cup UNION {Members(next[k]) : k \in within[n - 1]}
    IN within

Nearer(next, roots, j, k) ==
    \E n \in DOMAIN Within(next, roots) :
        j \in Within(next, roots)[n] /\ k \notin Within(next, roots)[n]

IsBreadthFirst(order, next, roots) ==
    /\ Distinct(order)
    /\ Members(order) = Within(next, roots)[Cardinality(DOMAIN next)]
    /\ \A a, b \in DOMAIN order : Nearer(next, roots, order[a], order[b]) => a < b
=============================================================================
