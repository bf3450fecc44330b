---------------------------- MODULE Scan_proofs -----------------------------
(***************************************************************************)
(* What TLC checks of Scan on six paths, proved for any tree of paths, any *)
(* contents and budgets, and any number of writes during the walk.         *)
(***************************************************************************)
EXTENDS Scan, Loader_proofs

USE DEF Return, Stop

-----------------------------------------------------------------------------
(***************************************************************************)
(* The tree of paths                                                       *)
(***************************************************************************)
\* The recursion along Parent ends, since a parent sorts before its child.
LEMMA AncestorsAre ==
    /\ Ancestors \in [Docs -> SUBSET Docs]
    /\ Ancestors[Root] = {}
    /\ \A p \in Docs \ {Root} : Ancestors[p] = {Parent[p]} \cup Ancestors[Parent[p]]
<1> DEFINE h == [vp \in (SUBSET Docs) \X Docs |-> {Parent[vp[2]]} \cup vp[1]]
           rank == [p \in Docs |-> p]
           IsAncestry(f) == f = [p \in Docs |-> IF p = Root THEN {} ELSE {Parent[p]} \cup f[Parent[p]]]
<1>0. Root \in Docs /\ Parent \in [Docs -> Docs]
  BY PathAssumption
<1>1. ASSUME NEW v \in SUBSET Docs, NEW p \in Docs
      PROVE  h[<<v, p>>] = {Parent[p]} \cup v /\ h[<<v, p>>] \in SUBSET Docs
  BY <1>0
<1>2. Descends(Docs, {Root}, Parent, rank)
  BY PathAssumption, DocsAssumption DEF Descends
<1>3. PICK g : Defines(g, Docs, {Root}, Parent, {}, h)
  <2> HIDE DEF h, rank
  <2> QED
    BY <1>2, RecursionExists
<1>4. g \in [Docs -> SUBSET Docs]
  <2> DEFINE V == SUBSET Docs
             B == {Root}
  <2>1. Keeps(h, V, Docs, B) /\ {} \in V
    BY <1>1 DEF Keeps
  <2> HIDE DEF h, rank, V, B
  <2>2. Descends(Docs, B, Parent, rank) /\ Defines(g, Docs, B, Parent, {}, h)
    BY <1>2, <1>3 DEF B
  <2>3. g \in [Docs -> V]
    BY <2>1, <2>2, RecursionType
  <2> QED
    BY <2>3 DEF V
<1>5. IsAncestry(g)
  <2>1. ASSUME NEW p \in Docs
        PROVE  g[p] = IF p = Root THEN {} ELSE {Parent[p]} \cup g[Parent[p]]
    <3>1. g[p] = IF p \in {Root} THEN {} ELSE h[<<g[Parent[p]], p>>]
      <4> HIDE DEF h
      <4> QED
        BY <1>3 DEF Defines
    <3>2. g[Parent[p]] \in SUBSET Docs
      BY <1>0, <1>4
    <3> HIDE DEF h
    <3> QED
      BY <1>1, <3>1, <3>2
  <2>2. g = [p \in Docs |-> g[p]]
    BY <1>4
  <2> QED
    BY <2>1, <2>2
<1>6. Ancestors = CHOOSE f : IsAncestry(f)
  BY DEF Ancestors
<1>7. IsAncestry(Ancestors)
  <2> HIDE DEF IsAncestry
  <2> QED
    BY <1>5, <1>6
<1>8. Docs \subseteq {p \in Docs : Ancestors[p] \in SUBSET Docs}
  <2> DEFINE S == {p \in Docs : Ancestors[p] \in SUBSET Docs}
  <2>1. ASSUME NEW p \in Docs, \A q \in Docs : q < p => q \in S PROVE p \in S
    <3>1. p # Root => Parent[p] \in S
      BY <2>1, PathAssumption
    <3> QED
      BY <1>0, <1>7, <3>1
  <2>2. \A p \in Docs : (\A q \in Docs : q < p => q \in S) => p \in S
    BY <2>1
  <2> HIDE DEF S
  <2>3. Docs \subseteq S
    BY <2>2, DocsAssumption, NatStrongInduction
  <2> QED
    BY <2>3 DEF S
<1>9. Ancestors = [p \in Docs |-> Ancestors[p]]
  BY <1>7
<1>10. Ancestors \in [Docs -> SUBSET Docs]
  <2> HIDE DEF IsAncestry
  <2> QED
    BY <1>8, <1>9
<1> QED
  BY <1>0, <1>7, <1>10

Line(p) == Ancestors[p] \cup {p}

LEMMA AncestorsBefore ==
    \A p \in Docs : \A a \in Ancestors[p] : a \in Docs /\ a < p
<1> DEFINE S == {p \in Docs : \A a \in Ancestors[p] : a < p}
<1>1. ASSUME NEW p \in Docs, \A q \in Docs : q < p => q \in S PROVE p \in S
  <2>1. CASE p = Root
    BY <2>1, AncestorsAre
  <2>2. CASE p # Root
    <3>1. Parent[p] \in S /\ Parent[p] < p /\ Parent[p] \in Nat /\ p \in Nat
      BY <1>1, <2>2, PathAssumption, DocsAssumption
    <3>2. Ancestors[p] = {Parent[p]} \cup Ancestors[Parent[p]] /\ Ancestors[p] \subseteq Nat
      BY <2>2, AncestorsAre, DocsAssumption
    <3>3. \A a \in Ancestors[Parent[p]] : a < Parent[p]
      BY <3>1
    <3> QED
      BY <3>1, <3>2, <3>3
  <2> QED
    BY <2>1, <2>2
<1>2. \A p \in Docs : (\A q \in Docs : q < p => q \in S) => p \in S
  BY <1>1
<1> HIDE DEF S
<1>3. Docs \subseteq S
  BY <1>2, DocsAssumption, NatStrongInduction
<1> QED
  BY <1>3, AncestorsAre DEF S

\* From a path down to what is below it: an ancestor's parent is an
\* ancestor, and an ancestor has a child on the way.
LEMMA Lineage ==
    /\ \A p \in Docs : \A a \in Ancestors[p] : a # Root => Parent[a] \in Ancestors[p]
    /\ \A p \in Docs : \A a \in Ancestors[p] :
          \E c \in Line(p) : c \in Docs \ {Root} /\ Parent[c] = a
    /\ \A p \in Docs \ {Root} : Root \in Ancestors[p]
<1> DEFINE S == {p \in Docs :
                  /\ \A a \in Ancestors[p] : a # Root => Parent[a] \in Ancestors[p]
                  /\ \A a \in Ancestors[p] :
                        \E c \in Line(p) : c \in Docs \ {Root} /\ Parent[c] = a
                  /\ p # Root => Root \in Ancestors[p]}
<1>1. ASSUME NEW p \in Docs, \A q \in Docs : q < p => q \in S PROVE p \in S
  <2>1. CASE p = Root
    BY <2>1, AncestorsAre
  <2>2. CASE p # Root
    <3> DEFINE d == Parent[p]
    <3>1. d \in S /\ d \in Docs
      BY <1>1, <2>2, PathAssumption
    <3>2. Ancestors[p] = {d} \cup Ancestors[d]
      BY <2>2, AncestorsAre
    <3>3. d # Root => Parent[d] \in Ancestors[d]
      BY <3>1, AncestorsAre
    <3> QED
      BY <2>2, <3>1, <3>2, <3>3 DEF Line
  <2> QED
    BY <2>1, <2>2
<1>2. \A p \in Docs : (\A q \in Docs : q < p => q \in S) => p \in S
  BY <1>1
<1> HIDE DEF S
<1>3. Docs \subseteq S
  BY <1>2, DocsAssumption, NatStrongInduction
<1> QED
  BY <1>3 DEF S

\* Above what is there, there are directories.
LEMMA DirectoriesAbove ==
    ASSUME IsTree(files)
    PROVE  \A p \in Docs : files[p] # Absent => \A a \in Ancestors[p] : files[a] = Directory
<1> DEFINE S == {p \in Docs : files[p] # Absent => \A a \in Ancestors[p] : files[a] = Directory}
<1>1. ASSUME NEW p \in Docs, \A q \in Docs : q < p => q \in S PROVE p \in S
  <2>1. CASE p = Root
    BY <2>1, AncestorsAre
  <2>2. CASE p # Root /\ files[p] # Absent
    <3>1. files[Parent[p]] = Directory /\ Parent[p] \in S
      BY <1>1, <2>2, PathAssumption DEF IsTree
    <3>2. Directory # Absent
      BY DEF Directory, Absent, Empty
    <3> QED
      BY <2>2, <3>1, <3>2, AncestorsAre
  <2> QED
    BY <2>1, <2>2
<1>2. \A p \in Docs : (\A q \in Docs : q < p => q \in S) => p \in S
  BY <1>1
<1> HIDE DEF S
<1>3. Docs \subseteq S
  BY <1>2, DocsAssumption, NatStrongInduction
<1> QED
  BY <1>3 DEF S

-----------------------------------------------------------------------------
(***************************************************************************)
(* Types and control                                                       *)
(***************************************************************************)
Position ==
    /\ pc = "start" => agenda = << >> /\ documents = << >>
    /\ pc = "done" <=> result # "none"

Shape == TypeOK /\ Position

LEMMA ShapeInit == Init => Shape
<1> SUFFICES ASSUME Init PROVE Shape
  OBVIOUS
<1>1. LoaderTypeOK /\ IsTree(files)
  BY EditsAssumption, LimitAssumption DEF Init, LoaderInit, LoaderTypeOK, Results
<1>2. LoadedKeys = {}
  BY DEF Init, LoaderInit, LoadedKeys
<1> QED
  BY <1>1, <1>2 DEF Init, LoaderInit, Shape, TypeOK, Position

LEMMA VisitType ==
    ASSUME Shape, Visiting
    PROVE  /\ pc = "walk" /\ result = "none"
           /\ Entry \in DirEntry /\ Rest \in Seq(DirEntry)
           /\ Len(agenda) \in Nat \ {0} /\ Len(Rest) = Len(agenda) - 1
           /\ 1 \in DOMAIN agenda /\ Entry = agenda[1]
           /\ \A i \in DOMAIN Rest : i + 1 \in DOMAIN agenda /\ Rest[i] = agenda[i + 1]
           /\ \A i \in DOMAIN agenda : i = 1 \/ (i - 1 \in DOMAIN Rest /\ agenda[i] = Rest[i - 1])
<1>1. agenda \in Seq(DirEntry) /\ agenda # << >>
  BY DEF Shape, TypeOK, Visiting
<1>2. pc = "walk" /\ result = "none"
  BY DEF Shape, Position, Visiting
<1> QED
  BY <1>1, <1>2 DEF Entry, Rest

\* The listing of a directory goes in front of what was to be visited next.
Entering(n, q) ==
    /\ n \in Nat
    /\ q \in [1..n -> Children(Entry.path)]
    /\ IsListing(q, Children(Entry.path))
    /\ agenda' \in Seq(DirEntry)
    /\ Len(agenda') = n + Len(Rest)
    /\ \A i \in 1..n : /\ agenda'[i].path = q[i]
                       /\ agenda'[i].isDir <=> files[q[i]] = Directory
    /\ \A i \in DOMAIN Rest : n + i \in DOMAIN agenda' /\ agenda'[n + i] = Rest[i]
    /\ \A i \in DOMAIN agenda' :
          \/ i \in 1..n
          \/ i > n /\ i - n \in DOMAIN Rest /\ agenda'[i] = Rest[i - n]

LEMMA EnterAgenda ==
    ASSUME Shape, Enter
    PROVE  \E n, q : Entering(n, q)
<1>0. Visiting
  BY DEF Enter
<1> DEFINE kids == Children(Entry.path)
<1>1. PICK q \in Sequences(kids) :
         /\ IsListing(q, kids)
         /\ agenda' = VisitFirst([i \in DOMAIN q |->
                         [path |-> q[i], isDir |-> files[q[i]] = Directory]], Rest)
  BY DEF Enter
<1>2. kids \in SUBSET Docs
  BY DEF Children
<1>3. Cardinality(kids) \in Nat
  BY <1>2, DocsAssumption, FS_Subset, FS_CardinalityType
<1>4. PICK n \in Nat : q \in [1..n -> kids]
  BY <1>3 DEF Sequences
<1> DEFINE l == [i \in DOMAIN q |-> [path |-> q[i], isDir |-> files[q[i]] = Directory]]
<1>5. DOMAIN l = 1..n /\ \A i \in 1..n : l[i] \in DirEntry
  BY <1>2, <1>4 DEF DirEntry
<1>6. l \in Seq(DirEntry) /\ Len(l) = n
  <2>1. l = [i \in 1..n |-> l[i]]
    BY <1>4
  <2> HIDE DEF l
  <2> QED
    BY <1>5, <2>1
<1>7. \A i \in 1..n : l[i].path = q[i] /\ (l[i].isDir <=> files[q[i]] = Directory)
  BY <1>4
<1>8. agenda' = l \o Rest
  BY <1>1 DEF VisitFirst
<1>9. Rest \in Seq(DirEntry)
  BY <1>0, VisitType
<1> HIDE DEF l, kids
<1>10. /\ agenda' \in Seq(DirEntry) /\ Len(agenda') = n + Len(Rest)
       /\ \A i \in 1..n : agenda'[i] = l[i]
       /\ \A i \in DOMAIN Rest : n + i \in DOMAIN agenda' /\ agenda'[n + i] = Rest[i]
       /\ \A i \in DOMAIN agenda' :
            \/ i \in 1..n
            \/ i > n /\ i - n \in DOMAIN Rest /\ agenda'[i] = Rest[i - n]
  <2> DEFINE new == l \o Rest
  <2>1. /\ new \in Seq(DirEntry) /\ Len(new) = n + Len(Rest) /\ Len(Rest) \in Nat
        /\ \A i \in 1..(n + Len(Rest)) :
              new[i] = IF i <= n THEN l[i] ELSE Rest[i - n]
    BY <1>6, <1>9
  <2> HIDE DEF new
  <2>2. \A i \in 1..n : new[i] = l[i]
    BY <2>1
  <2>3. \A i \in DOMAIN Rest : n + i \in DOMAIN new /\ new[n + i] = Rest[i]
    BY <1>9, <2>1
  <2>4. \A i \in DOMAIN new :
            \/ i \in 1..n
            \/ i > n /\ i - n \in DOMAIN Rest /\ new[i] = Rest[i - n]
    BY <1>9, <2>1
  <2>5. agenda' = new
    BY <1>8 DEF new
  <2> QED
    BY <2>1, <2>2, <2>3, <2>4, <2>5
<1>11. Entering(n, q)
  BY <1>1, <1>4, <1>7, <1>10 DEF Entering, kids
<1> QED
  BY <1>11

LEMMA ShapeNext == Shape /\ [Next]_vars => Shape'
<1> SUFFICES ASSUME Shape, [Next]_vars PROVE Shape'
  OBVIOUS
<1>types. /\ LoaderTypeOK /\ IsTree(files) /\ agenda \in Seq(DirEntry)
          /\ LoadedKeys \subseteq Markdown /\ touched \subseteq Docs
          /\ pc \in {"start", "walk", "done"}
  BY DEF Shape, TypeOK
<1> USE DEF loaderVars, fsVars
\* A step that returns.
<1>stop. ASSUME NEW r \in Results \ {"none"}, pc # "done", Stop(r) PROVE Shape'
  <2>1. LoaderTypeOK'
    BY <1>types, <1>stop DEF LoaderTypeOK
  <2>2. LoadedKeys' = LoadedKeys
    BY <1>stop DEF LoadedKeys
  <2> QED
    BY <1>types, <1>stop, <2>1, <2>2 DEF Shape, TypeOK, Position, IsTree
\* A step that moves the agenda only.
<1>move. ASSUME UNCHANGED <<fsVars, limits, loaderVars, result, touched>>,
                agenda' \in Seq(DirEntry), pc \in {"start", "walk"}, pc' = "walk"
         PROVE  Shape'
  <2>1. LoaderTypeOK'
    BY <1>types, <1>move DEF LoaderTypeOK
  <2>2. LoadedKeys' = LoadedKeys
    BY <1>move DEF LoadedKeys
  <2> QED
    BY <1>types, <1>move, <2>1, <2>2 DEF Shape, TypeOK, Position, IsTree
<1>1. CASE Refuse
  BY <1>1, <1>stop DEF Refuse, Results, Failures
<1>2. CASE Start
  <2>1. Root \in Docs
    BY PathAssumption
  <2> QED
    BY <1>2, <1>move, <2>1 DEF Start, DirEntry
<1>3. CASE EnterTooDeep
  BY <1>3, <1>stop DEF EnterTooDeep, Visiting, Results, Failures
<1>4. CASE EnterFails
  BY <1>4, <1>stop DEF EnterFails, Visiting, Results, Failures
<1>5. CASE Enter
  <2>1. PICK n, q : Entering(n, q)
    BY <1>5, EnterAgenda
  <2> QED
    BY <1>5, <1>move, <2>1 DEF Enter, Entering, Visiting
<1>6. CASE Ignore
  BY <1>6, <1>move, VisitType DEF Ignore, Visiting
<1>7. CASE Load
  <2>1. Entry.path \in Docs /\ Entry.path \in Markdown /\ Rest \in Seq(DirEntry)
    BY <1>7, VisitType, PathAssumption DEF Load, AtDocument, Visiting
  <2> DEFINE new == [key |-> Entry.path, content |-> files[Entry.path]]
  <2>2. /\ documents' = Append(documents, new) /\ documents' \in Seq(GraphDocument)
        /\ bytes' \in Nat /\ relationships' \in Nat
    BY <1>7, <1>types, <2>1, AddedDocument DEF Load
  <2>3. LoadedKeys' \subseteq Markdown
    <3>1. documents \in Seq(GraphDocument) /\ new.key \in Markdown
      BY <1>types, <2>1 DEF LoaderTypeOK
    <3> HIDE DEF new
    <3>2. \A i \in DOMAIN documents' :
             \/ i \in DOMAIN documents /\ documents'[i] = documents[i]
             \/ documents'[i] = new
      BY <2>2, <3>1
    <3> QED
      BY <1>types, <3>1, <3>2 DEF LoadedKeys
  <2>4. LoaderTypeOK'
    BY <1>7, <1>types, <2>2 DEF Load, LoaderTypeOK
  <2> QED
    BY <1>7, <1>types, <2>1, <2>3, <2>4, VisitType
       DEF Load, AtDocument, Visiting, Shape, TypeOK, Position, IsTree
<1>8. CASE LoadFails
  <2>1. DocumentError(Entry.path) \in Results \ {"none"}
    BY <1>8 DEF LoadFails, DocumentError, AddDocumentError, Results, Failures
  <2> QED
    BY <1>8, <1>stop, <2>1 DEF LoadFails, AtDocument, Visiting
<1>9. CASE Finish
  BY <1>9, <1>stop DEF Finish, Results, Failures
<1>10. CASE Write
  <2>1. PICK p \in Docs, n \in Nodes :
           /\ files' = [q \in Docs |-> IF q = p THEN n
                                       ELSE IF p \in Ancestors[q] THEN Absent ELSE files[q]]
           /\ IsTree(files')
           /\ touched' = touched \cup {q \in Docs : files'[q] # files[q]}
    BY <1>10 DEF Write
  <2>2. files' \in [Docs -> Nodes]
    <3>1. Absent \in Nodes /\ files \in [Docs -> Nodes]
      BY <1>types DEF Absent, Nodes, NonFiles, LoaderTypeOK
    <3> QED
      BY <2>1, <3>1
  <2>3. edits' \in 0..MaxEdits
    BY <1>10, <1>types, EditsAssumption DEF Write, CanEdit, LoaderTypeOK
  <2>4. LoaderTypeOK' /\ LoadedKeys' = LoadedKeys
    BY <1>10, <1>types, <2>2, <2>3 DEF Write, LoaderTypeOK, LoadedKeys
  <2> QED
    BY <1>10, <1>types, <2>1, <2>4 DEF Write, CanEdit, Shape, TypeOK, Position
<1>11. CASE UNCHANGED vars
  BY <1>11 DEF vars, Shape, TypeOK, LoaderTypeOK, LoadedKeys, IsTree, Position
<1> QED
  BY <1>1, <1>2, <1>3, <1>4, <1>5, <1>6, <1>7, <1>8, <1>9, <1>10, <1>11 DEF Next, Walk

-----------------------------------------------------------------------------
(***************************************************************************)
(* The order of the walk: what is still to be visited comes after what was *)
(* loaded, in order, and no entry is below another.                        *)
(***************************************************************************)
Precedes(p, q) == p < q /\ p \notin Ancestors[q]

Ordered ==
    /\ \A i, j \in DOMAIN agenda : i < j => Precedes(agenda[i].path, agenda[j].path)
    /\ \A i \in DOMAIN documents, j \in DOMAIN agenda :
          documents[i].key < agenda[j].path
    /\ WalkOrder

\* The entries of a directory fit between it and what comes after it.
LEMMA ChildrenBefore ==
    ASSUME NEW p \in Docs, NEW c \in Docs \ {Root}, Parent[c] = p
    PROVE  /\ p < c
           /\ \A q \in Docs : Precedes(p, q) => Precedes(c, q)
           /\ \A d \in Docs \ {Root} : Parent[d] = p /\ c < d => Precedes(c, d)
<1>0. Docs \subseteq Nat
  BY DocsAssumption
<1>1. p < c /\ p \in Ancestors[c]
  BY PathAssumption, AncestorsAre
<1>2. ASSUME NEW q \in Docs, Precedes(p, q) PROVE Precedes(c, q)
  <2>1. c \notin Ancestors[q]
    <3> SUFFICES ASSUME c \in Ancestors[q] PROVE FALSE
      OBVIOUS
    <3>1. Parent[c] \in Ancestors[q]
      BY Lineage
    <3> QED
      BY <1>2, <3>1 DEF Precedes
  <2>2. c # q
    BY <1>1, <1>2 DEF Precedes
  <2>3. ~(q < c)
    <3> SUFFICES ASSUME q < c PROVE FALSE
      OBVIOUS
    <3>1. p < q
      BY <1>2 DEF Precedes
    <3>2. p \in Ancestors[q]
      BY <1>1, <3>1, PreorderAssumption
    <3> QED
      BY <1>2, <3>2 DEF Precedes
  <2> QED
    BY <1>0, <2>1, <2>2, <2>3 DEF Precedes
<1>3. ASSUME NEW d \in Docs \ {Root}, Parent[d] = p, c < d PROVE Precedes(c, d)
  <2>1. Ancestors[d] = {p} \cup Ancestors[p]
    BY <1>3, AncestorsAre
  <2>2. \A a \in Ancestors[p] : a < p /\ a \in Docs
    BY AncestorsBefore
  <2>3. c \notin Ancestors[d]
    BY <1>0, <1>1, <2>1, <2>2
  <2> QED
    BY <1>3, <2>3 DEF Precedes
<1> QED
  BY <1>1, <1>2, <1>3

LEMMA OrderedNext == Shape /\ Ordered /\ [Next]_vars => Ordered'
<1> SUFFICES ASSUME Shape, Ordered, [Next]_vars PROVE Ordered'
  OBVIOUS
<1>types. /\ agenda \in Seq(DirEntry) /\ documents \in Seq(GraphDocument)
          /\ \A i \in DOMAIN agenda : agenda[i].path \in Docs
          /\ \A i \in DOMAIN documents : documents[i].key \in Docs
          /\ Docs \subseteq Nat
  <2>1. agenda \in Seq(DirEntry) /\ documents \in Seq(GraphDocument)
    BY DEF Shape, TypeOK, LoaderTypeOK
  <2>2. \A i \in DOMAIN agenda : agenda[i] \in DirEntry
    BY <2>1
  <2>3. \A i \in DOMAIN documents : documents[i] \in GraphDocument
    BY <2>1
  <2> QED
    BY <2>1, <2>2, <2>3, DocsAssumption DEF DirEntry, GraphDocument
<1> USE DEF loaderVars, fsVars
<1>tail. ASSUME Visiting
         PROVE  /\ \A i, j \in DOMAIN Rest : i < j => Precedes(Rest[i].path, Rest[j].path)
                /\ \A i \in DOMAIN Rest : Precedes(Entry.path, Rest[i].path)
                /\ DOMAIN Rest \subseteq Nat
  <2>1. ASSUME NEW i \in DOMAIN Rest, NEW j \in DOMAIN Rest, i < j
        PROVE  Precedes(Rest[i].path, Rest[j].path)
    <3>1. /\ i + 1 \in DOMAIN agenda /\ Rest[i] = agenda[i + 1]
          /\ j + 1 \in DOMAIN agenda /\ Rest[j] = agenda[j + 1]
          /\ i + 1 < j + 1
      BY <1>tail, <2>1, VisitType
    <3> QED
      BY <3>1 DEF Ordered
  <2>2. ASSUME NEW i \in DOMAIN Rest PROVE Precedes(Entry.path, Rest[i].path)
    <3>1. /\ i + 1 \in DOMAIN agenda /\ Rest[i] = agenda[i + 1] /\ 1 < i + 1
          /\ 1 \in DOMAIN agenda /\ Entry = agenda[1]
      BY <1>tail, VisitType
    <3> QED
      BY <3>1 DEF Ordered
  <2> QED
    BY <1>tail, <2>1, <2>2, VisitType
<1>keep. ASSUME UNCHANGED <<agenda, documents>> PROVE Ordered'
  BY <1>keep DEF Ordered, WalkOrder
<1>rest. ASSUME Visiting, agenda' = Rest, documents' = documents PROVE Ordered'
  BY <1>rest, <1>tail, VisitType DEF Ordered, WalkOrder
<1>1. CASE Refuse
  BY <1>1, <1>keep DEF Refuse
<1>2. CASE Start
  <2>1. documents' = << >> /\ DOMAIN agenda' = {1}
    BY <1>2 DEF Start, Shape, Position
  <2> QED
    BY <2>1 DEF Ordered, WalkOrder
<1>3. CASE EnterTooDeep
  BY <1>3, <1>keep DEF EnterTooDeep
<1>4. CASE EnterFails
  BY <1>4, <1>keep DEF EnterFails
<1>5. CASE Enter
  <2>0. Visiting /\ documents' = documents
    BY <1>5 DEF Enter
  <2> DEFINE p == Entry.path
  <2>1. PICK n, q : Entering(n, q)
    BY <1>5, EnterAgenda
  <2>2. p \in Docs
    BY <2>0, <1>types, VisitType
  <2>3. \A i \in 1..n : /\ agenda'[i].path = q[i] /\ q[i] \in Docs \ {Root}
                        /\ Parent[q[i]] = p /\ p < q[i]
    <3>1. \A i \in 1..n : agenda'[i].path = q[i] /\ q[i] \in Children(p)
      BY <2>1 DEF Entering
    <3>2. \A i \in 1..n : q[i] \in Docs \ {Root} /\ Parent[q[i]] = p
      BY <3>1 DEF Children
    <3>3. \A i \in 1..n : p < q[i]
      BY <3>2, <2>2, ChildrenBefore
    <3> QED
      BY <3>1, <3>2, <3>3
  <2>4. \A i \in DOMAIN agenda' :
           \/ i \in 1..n
           \/ i > n /\ i - n \in DOMAIN Rest /\ agenda'[i].path = Rest[i - n].path
    <3>1. \A i \in DOMAIN agenda' :
             \/ i \in 1..n
             \/ i > n /\ i - n \in DOMAIN Rest /\ agenda'[i] = Rest[i - n]
      BY <2>1 DEF Entering
    <3> QED
      BY <3>1
  <2>5. \A i \in DOMAIN Rest : Precedes(p, Rest[i].path) /\ Rest[i].path \in Docs
    BY <1>types, <1>tail, <2>0, VisitType
  <2>6. n \in Nat /\ DOMAIN agenda' \subseteq Nat /\ DOMAIN Rest \subseteq Nat
    BY <2>0, <2>1, VisitType DEF Entering
  <2> HIDE DEF p
  <2>7. ASSUME NEW i \in DOMAIN agenda', NEW j \in DOMAIN agenda', i < j
        PROVE  Precedes(agenda'[i].path, agenda'[j].path)
    <3>1. CASE i \in 1..n /\ j \in 1..n
      <4>1. q[i] < q[j]
        BY <2>1, <2>7, <3>1 DEF Entering, IsListing
      <4> QED
        BY <2>2, <2>3, <3>1, <4>1, ChildrenBefore
    <3>2. CASE i \in 1..n /\ j \notin 1..n
      <4>1. Precedes(p, agenda'[j].path) /\ agenda'[j].path \in Docs
        BY <2>4, <2>5, <3>2
      <4> QED
        BY <2>2, <2>3, <3>2, <4>1, ChildrenBefore
    <3>3. CASE i \notin 1..n
      <4>1. j \notin 1..n
        BY <2>4, <2>6, <2>7, <3>3
      <4>2. /\ i - n \in DOMAIN Rest /\ agenda'[i].path = Rest[i - n].path
            /\ j - n \in DOMAIN Rest /\ agenda'[j].path = Rest[j - n].path
            /\ i - n < j - n
        BY <2>4, <2>6, <2>7, <3>3, <4>1
      <4> QED
        BY <1>tail, <2>0, <4>2
    <3> QED
      BY <3>1, <3>2, <3>3
  <2>8. ASSUME NEW i \in DOMAIN documents, NEW j \in DOMAIN agenda'
        PROVE  documents[i].key < agenda'[j].path
    <3>1. documents[i].key < p
      BY <2>0, VisitType DEF Ordered, p
    <3>2. CASE j \in 1..n
      <4>1. /\ documents[i].key \in Nat /\ p \in Nat /\ q[j] \in Nat /\ p < q[j]
            /\ agenda'[j].path = q[j]
        BY <1>types, <2>2, <2>3, <3>2
      <4> QED
        BY <3>1, <4>1
    <3>3. CASE j \notin 1..n
      <4>1. agenda'[j].path = Rest[j - n].path /\ j - n \in DOMAIN Rest
        BY <2>4, <3>3
      <4> QED
        BY <2>0, <4>1, VisitType DEF Ordered
    <3> QED
      BY <3>2, <3>3
  <2> QED
    BY <2>0, <2>7, <2>8 DEF Ordered, WalkOrder
<1>6. CASE Ignore
  BY <1>6, <1>rest DEF Ignore
<1>7. CASE Load
  <2> DEFINE new == [key |-> Entry.path, content |-> files[Entry.path]]
  <2>0. Visiting /\ agenda' = Rest
    BY <1>7 DEF Load, AtDocument
  <2>1. documents' = Append(documents, new)
    BY <1>7 DEF Load, AddDocument
  <2>2. /\ DOMAIN documents' = DOMAIN documents \cup {Len(documents) + 1}
        /\ \A i \in DOMAIN documents : i < Len(documents) + 1 /\ documents'[i] = documents[i]
        /\ documents'[Len(documents) + 1].key = Entry.path
    BY <1>types, <2>1
  <2>3. \A i \in DOMAIN documents : documents[i].key < Entry.path
    BY <2>0, VisitType DEF Ordered
  <2>4. \A i \in DOMAIN Rest : Entry.path < Rest[i].path
    BY <1>tail, <2>0 DEF Precedes
  <2>5. WalkOrder'
    <3> DEFINE m == Len(documents) + 1
    <3>1. \A i \in DOMAIN documents : i \in Nat /\ ~(m < i) /\ m \in Nat /\ ~(m < m)
      BY <1>types
    <3> QED
      BY <2>2, <2>3, <3>1 DEF Ordered, WalkOrder
  <2>6. \A i \in DOMAIN documents', j \in DOMAIN agenda' : documents'[i].key < agenda'[j].path
    BY <2>0, <2>2, <2>4, VisitType DEF Ordered
  <2>7. \A i, j \in DOMAIN agenda' : i < j => Precedes(agenda'[i].path, agenda'[j].path)
    BY <1>tail, <2>0
  <2> QED
    BY <2>5, <2>6, <2>7 DEF Ordered
<1>8. CASE LoadFails
  BY <1>8, <1>keep DEF LoadFails
<1>9. CASE Finish
  BY <1>9, <1>keep DEF Finish
<1>10. CASE Write
  BY <1>10, <1>keep DEF Write
<1>11. CASE UNCHANGED vars
  BY <1>11, <1>keep DEF vars
<1> QED
  BY <1>1, <1>2, <1>3, <1>4, <1>5, <1>6, <1>7, <1>8, <1>9, <1>10, <1>11 DEF Next, Walk

-----------------------------------------------------------------------------
(***************************************************************************)
(* No document is missed: while the walk goes on, one that nobody touched  *)
(* is loaded, or is to be visited, or is below a directory to be visited.  *)
(***************************************************************************)
Untouched(p) == Line(p) \cap touched = {}

Loaded(p) == \E i \in DOMAIN documents :
    documents[i] = [key |-> p, content |-> files[p]]

Pending(p) == \E i \in DOMAIN agenda :
    /\ agenda[i].path \in Line(p)
    /\ agenda[i].isDir <=> agenda[i].path # p

InReach(p) == IsDocument(p) /\ Untouched(p)

NotMissed ==
    /\ pc = "walk" => \A p \in Docs : InReach(p) => Loaded(p) \/ Pending(p)
    /\ result = "workspace" => \A p \in Docs : InReach(p) => Loaded(p)

LEMMA NotMissedNext == Shape /\ NotMissed /\ [Next]_vars => NotMissed'
<1> SUFFICES ASSUME Shape, NotMissed, [Next]_vars PROVE NotMissed'
  OBVIOUS
<1>types. /\ agenda \in Seq(DirEntry) /\ documents \in Seq(GraphDocument)
          /\ files \in [Docs -> Nodes] /\ IsTree(files) /\ Root \in Docs /\ Root \notin Markdown
          /\ pc = "done" <=> result # "none"
          /\ pc \in {"start", "walk", "done"}
  BY PathAssumption DEF Shape, Position, TypeOK, LoaderTypeOK
<1>kinds. Absent # Directory
  BY DEF Directory, Absent, Empty
<1> USE DEF loaderVars, fsVars
<1>walk. ASSUME UNCHANGED <<files, touched, documents>>, pc = "walk",
                \A p \in Docs : InReach(p) /\ Pending(p) => Loaded(p) \/ Pending(p)'
         PROVE  \A p \in Docs : InReach(p)' => Loaded(p)' \/ Pending(p)'
  BY <1>walk DEF NotMissed, InReach, IsDocument, Untouched, Loaded
<1>fail. ASSUME result' \notin {"none", "workspace"}, pc' = "done" PROVE NotMissed'
  BY <1>fail DEF NotMissed
\* A step of the walk that goes on.
<1>on. ASSUME UNCHANGED <<files, touched, documents, result>>, pc = "walk", pc' = "walk",
              \A p \in Docs : InReach(p) /\ Pending(p) => Pending(p)'
       PROVE  NotMissed'
  BY <1>on, <1>types, <1>walk DEF NotMissed
<1>1. CASE Refuse
  BY <1>1, <1>fail DEF Refuse
<1>2. CASE Start
  <2>1. ASSUME NEW p \in Docs, IsDocument(p) PROVE Pending(p)'
    <3>1. p # Root /\ Root \in Line(p)
      BY <1>types, <2>1, Lineage DEF IsDocument, Line
    <3>2. agenda'[1] = [path |-> Root, isDir |-> TRUE] /\ 1 \in DOMAIN agenda'
      BY <1>2 DEF Start
    <3> QED
      BY <3>1, <3>2 DEF Pending
  <2>2. \A p \in Docs : InReach(p)' => IsDocument(p)
    BY <1>2 DEF Start, InReach, IsDocument
  <2> QED
    BY <1>2, <1>types, <2>1, <2>2 DEF Start, NotMissed
<1>3. CASE EnterTooDeep
  BY <1>3, <1>fail DEF EnterTooDeep
<1>4. CASE EnterFails
  BY <1>4, <1>fail DEF EnterFails
<1>5. CASE Enter
  <2> DEFINE a == Entry.path
  <2>0. Visiting /\ Entry.isDir /\ files[a] = Directory
    BY <1>5 DEF Enter
  <2>1. PICK n, q : Entering(n, q)
    BY <1>5, EnterAgenda
  <2>2. ASSUME NEW p \in Docs, InReach(p), Pending(p) PROVE Pending(p)'
    <3>1. PICK i \in DOMAIN agenda : /\ agenda[i].path \in Line(p)
                                     /\ agenda[i].isDir <=> agenda[i].path # p
      BY <2>2 DEF Pending
    <3>2. CASE i # 1
      <4>1. i - 1 \in DOMAIN Rest /\ Rest[i - 1] = agenda[i]
        BY <2>0, <3>2, VisitType
      <4>2. n + (i - 1) \in DOMAIN agenda' /\ agenda'[n + (i - 1)] = Rest[i - 1]
        BY <2>1, <4>1 DEF Entering
      <4> QED
        BY <3>1, <4>1, <4>2 DEF Pending
    <3>3. CASE i = 1
      <4>1. a \in Line(p) /\ a # p
        BY <2>0, <3>1, <3>3, VisitType
      <4>2. PICK c \in Line(p) : c \in Docs \ {Root} /\ Parent[c] = a
        BY <4>1, Lineage DEF Line
      <4>3. files[p] \notin {Absent, Directory}
        BY <2>2 DEF InReach, IsDocument
      <4>4. c # p => files[c] = Directory
        BY <1>types, <4>2, <4>3, DirectoriesAbove DEF Line
      <4>5. files[c] # Absent /\ (files[c] = Directory <=> c # p)
        BY <1>kinds, <4>3, <4>4
      <4>6. c \in Children(a)
        BY <4>2, <4>5 DEF Children
      <4>7. PICK j \in 1..n : q[j] = c
        BY <2>1, <4>6 DEF Entering, IsListing
      <4>8. j \in DOMAIN agenda' /\ agenda'[j].path = c
            /\ (agenda'[j].isDir <=> files[c] = Directory)
        <5>1. /\ n \in Nat /\ agenda' \in Seq(DirEntry) /\ Len(agenda') = n + Len(Rest)
              /\ Len(Rest) \in Nat
          BY <2>0, <2>1, VisitType DEF Entering
        <5>2. j \in DOMAIN agenda'
          BY <5>1
        <5> QED
          BY <2>1, <4>7, <5>2 DEF Entering
      <4> QED
        BY <4>2, <4>5, <4>8 DEF Pending
    <3> QED
      BY <3>2, <3>3
  <2> QED
    BY <1>5, <1>on, <2>2 DEF Enter, Visiting
<1>6. CASE Ignore
  <2>0. Visiting /\ ~Entry.isDir /\ Entry.path \notin Markdown /\ agenda' = Rest
    BY <1>6 DEF Ignore
  <2>1. ASSUME NEW p \in Docs, InReach(p), Pending(p) PROVE Pending(p)'
    <3>1. PICK i \in DOMAIN agenda : /\ agenda[i].path \in Line(p)
                                     /\ agenda[i].isDir <=> agenda[i].path # p
      BY <2>1 DEF Pending
    <3>2. i # 1
      BY <2>0, <2>1, <3>1, VisitType DEF InReach, IsDocument
    <3>3. i - 1 \in DOMAIN Rest /\ Rest[i - 1] = agenda[i]
      BY <2>0, <3>2, VisitType
    <3> QED
      BY <2>0, <3>1, <3>3 DEF Pending
  <2> QED
    BY <1>6, <1>on, <2>1 DEF Ignore, Visiting
<1>7. CASE Load
  <2> DEFINE k == Entry.path
             new == [key |-> k, content |-> files[k]]
  <2>0. /\ Visiting /\ ~Entry.isDir /\ k \in Markdown /\ agenda' = Rest
        /\ UNCHANGED <<files, touched, result>> /\ pc' = pc
        /\ documents' = Append(documents, new)
    BY <1>7 DEF Load, AtDocument, AddDocument
  <2>1. /\ \A i \in DOMAIN documents : i \in DOMAIN documents' /\ documents'[i] = documents[i]
        /\ Len(documents) + 1 \in DOMAIN documents' /\ documents'[Len(documents) + 1] = new
    BY <1>types, <2>0
  <2>2. \A p \in Docs : Loaded(p) \/ p = k => Loaded(p)'
    BY <2>0, <2>1 DEF Loaded
  <2>3. ASSUME NEW p \in Docs, InReach(p), Pending(p), p # k PROVE Pending(p)'
    <3>1. PICK i \in DOMAIN agenda : /\ agenda[i].path \in Line(p)
                                     /\ agenda[i].isDir <=> agenda[i].path # p
      BY <2>3 DEF Pending
    <3>2. i # 1
      BY <2>0, <2>3, <3>1, VisitType
    <3>3. i - 1 \in DOMAIN Rest /\ Rest[i - 1] = agenda[i]
      BY <2>0, <3>2, VisitType
    <3> QED
      BY <2>0, <3>1, <3>3 DEF Pending
  <2>4. \A p \in Docs : InReach(p)' => InReach(p)
    BY <2>0 DEF InReach, IsDocument, Untouched
  <2>5. pc = "walk" /\ result' = "none"
    BY <2>0, VisitType
  <2> QED
    BY <2>0, <2>2, <2>3, <2>4, <2>5 DEF NotMissed
<1>8. CASE LoadFails
  <2>1. DocumentError(Entry.path) \notin {"none", "workspace"}
    BY <1>8 DEF LoadFails, DocumentError, AddDocumentError
  <2> QED
    BY <1>8, <1>fail, <2>1 DEF LoadFails
<1>9. CASE Finish
  <2>1. \A p \in Docs : ~Pending(p)
    BY <1>9 DEF Finish, WalkEnded, Pending
  <2>2. \A p \in Docs : InReach(p) => Loaded(p)
    BY <1>9, <2>1 DEF Finish, NotMissed
  <2> QED
    BY <1>9, <2>2 DEF Finish, NotMissed, InReach, IsDocument, Untouched, Loaded
<1>10. CASE Write
  <2>1. /\ touched' = touched \cup {q \in Docs : files'[q] # files[q]}
        /\ UNCHANGED <<documents, result, pc, agenda>> /\ result = "none"
    BY <1>10 DEF Write, CanEdit
  <2>2. ASSUME NEW p \in Docs, InReach(p)'
        PROVE  InReach(p) /\ files'[p] = files[p]
    <3>1. p \in Line(p) /\ Line(p) \cap touched' = {}
      BY <2>2 DEF Line, InReach, Untouched
    <3>2. files'[p] = files[p] /\ Line(p) \cap touched = {}
      BY <2>1, <3>1
    <3> QED
      BY <2>2, <3>2 DEF InReach, IsDocument, Untouched
  <2>3. \A p \in Docs : /\ Pending(p) => Pending(p)'
                        /\ Loaded(p) /\ files'[p] = files[p] => Loaded(p)'
    BY <2>1 DEF Pending, Loaded
  <2> QED
    BY <2>1, <2>2, <2>3 DEF NotMissed
<1>11. CASE UNCHANGED vars
  BY <1>11 DEF vars, NotMissed, InReach, IsDocument, Untouched, Loaded, Pending
<1> QED
  BY <1>1, <1>2, <1>3, <1>4, <1>5, <1>6, <1>7, <1>8, <1>9, <1>10, <1>11 DEF Next, Walk

-----------------------------------------------------------------------------
(***************************************************************************)
(* The answer on a file system that stays as it is: what was listed and    *)
(* read is still there, and the counters are the sums over the loaded set. *)
(***************************************************************************)
Remembered ==
    /\ touched = {}
    /\ \A i \in DOMAIN agenda :
          /\ files[agenda[i].path] # Absent
          /\ agenda[i].isDir <=> files[agenda[i].path] = Directory
    /\ \A i \in DOMAIN documents :
          /\ documents[i].content = files[documents[i].key]
          /\ documentDepth(documents[i].key) <= limits.depth
    /\ SumOver(LoadedKeys, Size) = bytes
    /\ SumOver(LoadedKeys, Degree) = relationships

Faithful == edits = 0 => Remembered

IInv == Shape /\ Ordered /\ NotMissed /\ Faithful

LEMMA IInvTypes ==
    ASSUME IInv
    PROVE  /\ agenda \in Seq(DirEntry) /\ documents \in Seq(GraphDocument)
           /\ Len(documents) \in Nat /\ LoaderTypeOK /\ edits \in Nat
           /\ \A i \in DOMAIN agenda : agenda[i].path \in Docs
           /\ \A i \in DOMAIN documents : /\ documents[i].key \in Markdown
                                          /\ documents[i].key \in Docs
                                          /\ documents[i].content.kind = "file"
           /\ LoadedKeys \in SUBSET Docs
<1>1. /\ agenda \in Seq(DirEntry) /\ documents \in Seq(GraphDocument)
      /\ LoaderTypeOK /\ LoadedKeys \subseteq Markdown /\ edits \in Nat
  BY EditsAssumption DEF IInv, Shape, TypeOK, LoaderTypeOK
<1>2. \A i \in DOMAIN agenda : agenda[i] \in DirEntry
  BY <1>1
<1>3. \A i \in DOMAIN documents : documents[i] \in GraphDocument
  BY <1>1
<1>4. \A i \in DOMAIN documents : documents[i].content \in Contents
  BY <1>3 DEF GraphDocument
<1>5. \A i \in DOMAIN documents : documents[i].content.kind = "file"
  BY <1>4, ContentsAssumption
<1>6. \A i \in DOMAIN documents : documents[i].key \in LoadedKeys
  BY DEF LoadedKeys
<1> QED
  BY <1>1, <1>2, <1>5, <1>6, PathAssumption DEF DirEntry

LEMMA FaithfulNext == IInv /\ [Next]_vars => Faithful'
<1> SUFFICES ASSUME IInv, [Next]_vars PROVE Faithful'
  OBVIOUS
<1>0. edits = 0 => Remembered
  BY DEF IInv, Faithful
<1> USE DEF loaderVars, fsVars
<1>same. ASSUME UNCHANGED <<files, edits, limits, documents, bytes, relationships, touched>>,
                edits = 0 => \A i \in DOMAIN agenda' :
                   /\ files[agenda'[i].path] # Absent
                   /\ agenda'[i].isDir <=> files[agenda'[i].path] = Directory
         PROVE  Faithful'
  <2>1. Size' = Size /\ Degree' = Degree /\ LoadedKeys' = LoadedKeys
    BY <1>same DEF Size, Degree, LoadedKeys
  <2> QED
    BY <1>0, <1>same, <2>1 DEF Faithful, Remembered
<1>keep. ASSUME UNCHANGED <<files, edits, limits, documents, bytes, relationships, touched, agenda>>
         PROVE  Faithful'
  BY <1>0, <1>keep, <1>same DEF Remembered
<1>tail. ASSUME Visiting, edits = 0
         PROVE  \A i \in DOMAIN Rest : /\ files[Rest[i].path] # Absent
                                       /\ Rest[i].isDir <=> files[Rest[i].path] = Directory
  BY <1>0, <1>tail, VisitType DEF IInv, Remembered
<1>1. CASE Refuse
  BY <1>1, <1>keep DEF Refuse
<1>2. CASE Start
  <2>1. /\ DOMAIN agenda' = {1} /\ agenda'[1] = [path |-> Root, isDir |-> TRUE]
        /\ files[Root] = Directory
    BY <1>2 DEF Start, IInv, Shape, TypeOK, IsTree
  <2>2. Directory # Absent
    BY DEF Directory, Absent, Empty
  <2> QED
    BY <1>2, <1>same, <2>1, <2>2 DEF Start
<1>3. CASE EnterTooDeep
  BY <1>3, <1>keep DEF EnterTooDeep
<1>4. CASE EnterFails
  BY <1>4, <1>keep DEF EnterFails
<1>5. CASE Enter
  <2>0. Visiting
    BY <1>5 DEF Enter
  <2>1. PICK n, q : Entering(n, q)
    BY <1>5, EnterAgenda DEF IInv
  <2>2. ASSUME edits = 0, NEW i \in DOMAIN agenda'
        PROVE  /\ files[agenda'[i].path] # Absent
               /\ agenda'[i].isDir <=> files[agenda'[i].path] = Directory
    <3>1. CASE i \in 1..n
      <4>1. /\ agenda'[i].path = q[i] /\ q[i] \in Children(Entry.path)
            /\ agenda'[i].isDir <=> files[q[i]] = Directory
        BY <2>1, <3>1 DEF Entering
      <4> QED
        BY <4>1 DEF Children
    <3>2. CASE i \notin 1..n
      <4>1. i - n \in DOMAIN Rest /\ agenda'[i] = Rest[i - n]
        BY <2>1, <3>2 DEF Entering
      <4> QED
        BY <1>tail, <2>0, <2>2, <4>1
    <3> QED
      BY <3>1, <3>2
  <2> QED
    BY <1>5, <1>same, <2>2 DEF Enter
<1>6. CASE Ignore
  BY <1>6, <1>same, <1>tail DEF Ignore
<1>7. CASE Load
  <2> DEFINE k == Entry.path
  <2>0. /\ Visiting /\ agenda' = Rest /\ ~DocTooDeep(k)
        /\ documents' = Append(documents, [key |-> k, content |-> files[k]])
        /\ bytes' = bytes + files[k].size
        /\ relationships' = relationships + Len(files[k].links)
        /\ UNCHANGED <<files, edits, limits, touched>>
    BY <1>7 DEF Load, AtDocument, AddDocument
  <2>1. k \in Docs
    BY <2>0, VisitType, IInvTypes DEF IInv
  <2>2. /\ DOMAIN documents' = DOMAIN documents \cup {Len(documents) + 1}
        /\ \A i \in DOMAIN documents : documents'[i] = documents[i]
        /\ documents'[Len(documents) + 1] = [key |-> k, content |-> files[k]]
    BY <2>0, IInvTypes
  <2>3. LoadedKeys' = LoadedKeys \cup {k}
    BY <2>2 DEF LoadedKeys
  <2>4. k \notin LoadedKeys
    <3>1. \A i \in DOMAIN documents : documents[i].key < k
      BY <2>0, VisitType DEF IInv, Ordered
    <3>2. \A i \in DOMAIN documents : documents[i].key \in Nat
      BY IInvTypes, DocsAssumption
    <3> QED
      BY <3>1, <3>2 DEF LoadedKeys
  <2>5. documentDepth(k) <= limits.depth
    <3>1. Ancestors[k] \in SUBSET Docs
      BY <2>1, AncestorsAre
    <3>2. documentDepth(k) \in Int /\ limits.depth \in Int
      BY <3>1, DocsAssumption, FS_Subset, FS_CardinalityType, IInvTypes
         DEF documentDepth, LoaderTypeOK, Limits
    <3> QED
      BY <2>0, <3>2 DEF DocTooDeep
  <2> HIDE DEF k
  <2>6. Size' = Size /\ Degree' = Degree
    BY <2>0 DEF Size, Degree
  <2>7. ASSUME edits = 0
        PROVE  /\ SumOver(LoadedKeys, Size)' = bytes'
               /\ SumOver(LoadedKeys, Degree)' = relationships'
    <3>0. SumLaws(Size) /\ SumLaws(Degree) /\ k \in Docs \ LoadedKeys /\ LoadedKeys \in SUBSET Docs
      BY <2>1, <2>4, IInvTypes, SizesOfFiles
    <3>1. /\ SumOver(LoadedKeys \cup {k}, Size) = SumOver(LoadedKeys, Size) + Size[k]
          /\ SumOver(LoadedKeys \cup {k}, Degree) = SumOver(LoadedKeys, Degree) + Degree[k]
      BY <3>0 DEF SumLaws
    <3>2. SumOver(LoadedKeys, Size) = bytes /\ SumOver(LoadedKeys, Degree) = relationships
      BY <1>0, <2>7 DEF Remembered
    <3>3. Size[k] = files[k].size /\ Degree[k] = Len(files[k].links)
      BY <2>1, IInvTypes, SizesOfFiles
    <3> QED
      BY <2>0, <2>3, <2>6, <3>1, <3>2, <3>3
  <2>8. ASSUME edits = 0, NEW i \in DOMAIN documents'
        PROVE  /\ documents'[i].content = files'[documents'[i].key]
               /\ documentDepth(documents'[i].key) <= limits'.depth
    BY <1>0, <2>0, <2>2, <2>5, <2>8 DEF Remembered
  <2>9. ASSUME edits = 0 PROVE Remembered'
    BY <1>0, <1>tail, <2>0, <2>7, <2>8, <2>9 DEF Remembered
  <2> QED
    BY <2>0, <2>9 DEF Faithful
<1>8. CASE LoadFails
  BY <1>8, <1>keep DEF LoadFails
<1>9. CASE Finish
  BY <1>9, <1>keep DEF Finish
<1>10. CASE Write
  <2>1. edits' # 0
    BY <1>10, IInvTypes DEF Write
  <2> QED
    BY <2>1 DEF Faithful
<1>11. CASE UNCHANGED vars
  BY <1>11, <1>keep DEF vars
<1> QED
  BY <1>1, <1>2, <1>3, <1>4, <1>5, <1>6, <1>7, <1>8, <1>9, <1>10, <1>11 DEF Next, Walk

LEMMA IInvHolds == Spec => []IInv
<1>1. Init => IInv
  <2> SUFFICES ASSUME Init PROVE IInv
    OBVIOUS
  <2>1. Shape
    BY ShapeInit
  <2>2. SumLaws(Size) /\ SumLaws(Degree)
    BY <2>1, SizesOfFiles DEF Shape, TypeOK
  <2>3. LoadedKeys = {} /\ SumOver({}, Size) = 0 /\ SumOver({}, Degree) = 0
    BY <2>2 DEF Init, LoaderInit, LoadedKeys, SumLaws
  <2> QED
    BY <2>1, <2>3 DEF Init, LoaderInit, IInv, Ordered, WalkOrder, NotMissed, Faithful, Remembered
<1>2. IInv /\ [Next]_vars => IInv'
  BY ShapeNext, OrderedNext, NotMissedNext, FaithfulNext DEF IInv
<1> QED
  BY <1>1, <1>2, PTL DEF Spec

\* Documents come in the order of the walk, and none twice.
THEOREM LoadedInWalkOrder == Spec => []WalkOrder
<1>1. IInv => WalkOrder
  BY DEF IInv, Ordered
<1> QED
  BY <1>1, IInvHolds, PTL

\* A document that nobody touched is in the workspace as it is.
THEOREM UntouchedIsLoaded == Spec => []NeverMissed
<1>1. IInv => NeverMissed
  <2> SUFFICES ASSUME IInv, result = "workspace", NEW p \in Markdown,
                      files[p].kind = "file", (Ancestors[p] \cup {p}) \cap touched = {}
               PROVE  \E i \in DOMAIN documents :
                         documents[i] = [key |-> p, content |-> files[p]]
    BY DEF NeverMissed
  <2>1. files[p] \notin {Absent, Directory}
    BY DEF Absent, Directory, Empty
  <2> QED
    BY <2>1, PathAssumption
       DEF IInv, NotMissed, InReach, IsDocument, Untouched, Line, Loaded
<1> QED
  BY <1>1, IInvHolds, PTL

-----------------------------------------------------------------------------
(***************************************************************************)
(* Each refusal has its reason.                                            *)
(***************************************************************************)
LEMMA LoadedAreDocuments ==
    ASSUME IInv, Remembered
    PROVE  /\ LoadedKeys \in SUBSET AllDocuments
           /\ AllDocuments \in SUBSET Docs
           /\ IsFiniteSet(AllDocuments) /\ Cardinality(AllDocuments) \in Nat
           /\ IsFiniteSet(LoadedKeys)
           /\ Cardinality(LoadedKeys) = Len(documents)
<1>1. LoadedKeys \subseteq AllDocuments
  <2>1. ASSUME NEW i \in DOMAIN documents PROVE documents[i].key \in AllDocuments
    <3>1. files[documents[i].key].kind = "file"
      BY IInvTypes DEF Remembered
    <3> QED
      BY <3>1, IInvTypes DEF AllDocuments, IsDocument, Absent, Directory, Empty
  <2> QED
    BY <2>1 DEF LoadedKeys
<1>2. AllDocuments \in SUBSET Docs
  BY DEF AllDocuments
<1>3. IsFiniteSet(AllDocuments) /\ Cardinality(AllDocuments) \in Nat
  BY <1>2, DocsAssumption, FS_Subset, FS_CardinalityType
<1>4. IsFiniteSet(LoadedKeys) /\ Cardinality(LoadedKeys) = Len(documents)
  <2> DEFINE n == Len(documents)
             f == [i \in 1..n |-> documents[i].key]
  <2>0. n \in Nat /\ DOMAIN documents = 1..n
    BY IInvTypes
  <2>1. \A i, j \in 1..n : f[i] = f[j] => i = j
    <3> SUFFICES ASSUME NEW i \in 1..n, NEW j \in 1..n, f[i] = f[j], i # j PROVE FALSE
      OBVIOUS
    <3>0. i \in DOMAIN documents /\ j \in DOMAIN documents /\ documents[i].key = documents[j].key
      BY <2>0
    <3>1. documents[i].key \in Nat /\ (i < j \/ j < i)
      <4>1. documents[i].key \in Nat
        BY <3>0, IInvTypes, DocsAssumption
      <4> HIDE DEF n, f
      <4>2. i \in Int /\ j \in Int /\ i # j
        BY <2>0
      <4> QED
        BY <4>1, <4>2
    <3>2. documents[i].key < documents[j].key \/ documents[j].key < documents[i].key
      BY <3>0, <3>1 DEF IInv, Ordered, WalkOrder
    <3> QED
      BY <3>0, <3>1, <3>2
  <2>2. LoadedKeys = FirstValues(f, n)
    BY <2>0 DEF LoadedKeys, FirstValues
  <2> HIDE DEF f, n
  <2>3. IsFiniteSet(LoadedKeys) /\ Cardinality(LoadedKeys) = n
    BY <2>0, <2>1, <2>2, DistinctValues
  <2> QED
    BY <2>3 DEF n
<1> QED
  BY <1>1, <1>2, <1>3, <1>4

LEMMA LoadFailsForAReason ==
    ASSUME IInv, Remembered, AtDocument
    PROVE  Warranted(DocumentError(Entry.path))
<1> DEFINE k == Entry.path
           S == LoadedKeys \cup {k}
<1>types. /\ limits.documents \in Int /\ limits.bytes \in Int /\ limits.relationships \in Int
          /\ bytes \in Nat /\ relationships \in Nat
  BY IInvTypes DEF LoaderTypeOK, Limits
<1>1. Visiting /\ k \in Docs /\ k \in Markdown
  BY VisitType, PathAssumption DEF AtDocument, IInv
<1>2. k \in AllDocuments
  BY <1>1, VisitType DEF AtDocument, IInv, Remembered, AllDocuments, IsDocument
<1>3. k \notin LoadedKeys
  <2>1. \A i \in DOMAIN documents : documents[i].key < k
    BY <1>1, VisitType DEF IInv, Ordered
  <2>2. \A i \in DOMAIN documents : documents[i].key \in Nat
    BY IInvTypes, DocsAssumption
  <2> QED
    BY <2>1, <2>2 DEF LoadedKeys
<1>4. S \in SUBSET AllDocuments /\ AllDocuments \in SUBSET Docs /\ LoadedKeys \in SUBSET Docs
  BY <1>2, LoadedAreDocuments
<1>5. /\ SumLaws(Size) /\ SumLaws(Degree)
      /\ Size[k] = files[k].size /\ Degree[k] = Len(files[k].links)
      /\ Size[k] \in Nat /\ Degree[k] \in Nat
  BY <1>1, IInvTypes, SizesOfFiles
<1>6. CASE DocTooDeep(k)
  <2>1. DocumentError(Entry.path) = "depth"
    BY <1>6 DEF DocumentError
  <2>2. documentDepth(k) > limits.depth
    BY <1>6 DEF DocTooDeep
  <2> QED
    BY <1>2, <2>1, <2>2 DEF Warranted
<1>7. CASE ~DocTooDeep(k) /\ ~RoomForDocument
  <2>1. Cardinality(S) = Len(documents) + 1 /\ Cardinality(S) <= Cardinality(AllDocuments)
    <3>1. Cardinality(S) = Len(documents) + 1
      BY <1>3, LoadedAreDocuments, FS_AddElement
    <3>2. Cardinality(S) <= Cardinality(AllDocuments)
      <4> HIDE DEF S
      <4> QED
        BY <1>4, LoadedAreDocuments, FS_Subset
    <3> QED
      BY <3>1, <3>2
  <2>2. Cardinality(AllDocuments) > limits.documents
    BY <1>7, <1>types, <2>1, LoadedAreDocuments, IInvTypes DEF RoomForDocument
  <2>3. DocumentError(Entry.path) = "documents"
    BY <1>7 DEF DocumentError, AddDocumentError
  <2> QED
    BY <2>2, <2>3 DEF Warranted
<1>8. CASE ~DocTooDeep(k) /\ RoomForDocument /\ files[k].kind # "file"
  <2>1. DocumentError(Entry.path) = "io"
    BY <1>8 DEF DocumentError, AddDocumentError
  <2> QED
    BY <1>2, <1>8, <2>1 DEF Warranted
<1>9. CASE ~DocTooDeep(k) /\ RoomForDocument /\ files[k].kind = "file" /\ ~FitsBytes(files[k])
  <2>1. SumOver(LoadedKeys, Size) = bytes
    BY DEF Remembered
  <2>2. SumOver(S, Size) = bytes + Size[k] /\ SumOver(S, Size) <= SumOver(AllDocuments, Size)
    <3> HIDE DEF k
    <3> QED
      BY <1>1, <1>3, <1>4, <1>5, <2>1 DEF SumLaws
  <2>3. Size[k] > limits.bytes - bytes
    BY <1>5, <1>9, <1>types DEF FitsBytes
  <2>4. SumOver(AllDocuments, Size) \in Int
    BY <1>4, <1>5 DEF SumLaws
  <2>5. SumOver(AllDocuments, Size) > limits.bytes
    <3> HIDE DEF S, k
    <3> QED
      BY <1>5, <1>types, <2>2, <2>3, <2>4
  <2>6. DocumentError(Entry.path) = "bytes"
    BY <1>9 DEF DocumentError, AddDocumentError
  <2> QED
    BY <2>5, <2>6 DEF Warranted
<1>10. CASE /\ ~DocTooDeep(k) /\ RoomForDocument /\ files[k].kind = "file"
            /\ FitsBytes(files[k]) /\ ~FitsRelationships(files[k])
  <2>1. SumOver(LoadedKeys, Degree) = relationships
    BY DEF Remembered
  <2>2. /\ SumOver(S, Degree) = relationships + Degree[k]
        /\ SumOver(S, Degree) <= SumOver(AllDocuments, Degree)
    <3> HIDE DEF k
    <3> QED
      BY <1>1, <1>3, <1>4, <1>5, <2>1 DEF SumLaws
  <2>3. Degree[k] > limits.relationships - relationships
    BY <1>5, <1>10, <1>types DEF FitsRelationships
  <2>4. SumOver(AllDocuments, Degree) \in Int
    BY <1>4, <1>5 DEF SumLaws
  <2>5. SumOver(AllDocuments, Degree) > limits.relationships
    <3> HIDE DEF S, k
    <3> QED
      BY <1>5, <1>types, <2>2, <2>3, <2>4
  <2>6. DocumentError(Entry.path) = "relationships"
    BY <1>10 DEF DocumentError, AddDocumentError
  <2> QED
    BY <2>5, <2>6 DEF Warranted
<1>11. CASE /\ ~DocTooDeep(k) /\ RoomForDocument /\ files[k].kind = "file"
            /\ FitsBytes(files[k]) /\ FitsRelationships(files[k])
  <2>1. DocumentError(Entry.path) = "none"
    BY <1>11 DEF DocumentError, AddDocumentError
  <2> QED
    BY <2>1 DEF Warranted
<1> QED
  BY <1>6, <1>7, <1>8, <1>9, <1>10, <1>11

LEMMA AnswerNext == IInv /\ StaticAnswer /\ [Next]_vars => StaticAnswer'
<1> SUFFICES ASSUME IInv, StaticAnswer, [Next]_vars, edits' = 0
             PROVE  Warranted(result)'
  BY DEF StaticAnswer
<1>0. Shape
  BY DEF IInv
<1> USE DEF loaderVars, fsVars
<1>stays. ASSUME NEW r, UNCHANGED <<files, documents, limits>>, Warranted(r)
          PROVE  Warranted(r)'
  <2>1. /\ LoadedKeys' = LoadedKeys /\ Size' = Size /\ Degree' = Degree
        /\ AllDocuments' = AllDocuments
    BY <1>stays DEF LoadedKeys, Size, Degree, AllDocuments, IsDocument
  <2> QED
    BY <1>stays, <2>1 DEF Warranted
<1>open. ASSUME result' = "none" PROVE Warranted(result)'
  BY <1>open DEF Warranted
<1>true. ASSUME edits = 0 PROVE Remembered
  BY <1>true DEF IInv, Faithful
<1>1. CASE Refuse
  BY <1>1 DEF Refuse, Warranted
<1>2. CASE Start
  BY <1>0, <1>2, <1>open DEF Start, Shape, Position
<1>3. CASE EnterTooDeep
  <2>1. Remembered /\ Visiting /\ Entry.isDir /\ DirTooDeep(Entry.path)
    BY <1>3, <1>true DEF EnterTooDeep
  <2>2. Entry.path \in Docs /\ files[Entry.path] = Directory
    BY <1>0, <2>1, VisitType, IInvTypes DEF Remembered
  <2>3. Warranted("depth")
    BY <2>1, <2>2 DEF Warranted, DirTooDeep
  <2> QED
    BY <1>3, <1>stays, <2>3 DEF EnterTooDeep
\* Nothing is moved away from under a walk that nobody disturbs.
<1>4. CASE EnterFails
  <2>1. Remembered /\ Visiting /\ Entry.isDir /\ files[Entry.path] # Directory
    BY <1>4, <1>true DEF EnterFails
  <2> QED
    BY <1>0, <2>1, VisitType DEF Remembered
<1>5. CASE Enter
  BY <1>0, <1>5, <1>open, VisitType DEF Enter
<1>6. CASE Ignore
  BY <1>0, <1>6, <1>open, VisitType DEF Ignore
<1>7. CASE Load
  BY <1>0, <1>7, <1>open, VisitType DEF Load, AtDocument
<1>8. CASE LoadFails
  <2>1. Remembered /\ AtDocument
    BY <1>8, <1>true DEF LoadFails
  <2>2. PICK r : r = DocumentError(Entry.path)
    OBVIOUS
  <2>3. Warranted(r)
    BY <2>1, <2>2, LoadFailsForAReason
  <2>4. Warranted(r)'
    BY <1>8, <1>stays, <2>3 DEF LoadFails
  <2> QED
    BY <1>8, <2>2, <2>4 DEF LoadFails
<1>9. CASE Finish
  <2>1. Remembered /\ pc = "walk" /\ agenda = << >>
    BY <1>9, <1>true DEF Finish, WalkEnded
  <2>2. AllDocuments \subseteq LoadedKeys
    <3>1. ASSUME NEW p \in AllDocuments PROVE p \in LoadedKeys
      <4>1. p \in Docs /\ InReach(p) /\ ~Pending(p)
        BY <2>1 DEF AllDocuments, InReach, Untouched, Remembered, Pending
      <4>2. Loaded(p)
        BY <2>1, <4>1 DEF IInv, NotMissed
      <4> QED
        BY <4>2 DEF Loaded, LoadedKeys
    <3> QED
      BY <3>1
  <2>3. \A p \in LoadedKeys : documentDepth(p) <= limits.depth
    BY <2>1 DEF Remembered, LoadedKeys
  <2>4. Warranted("workspace")
    <3>1. LoadedKeys = AllDocuments
      BY <2>1, <2>2, LoadedAreDocuments
    <3> QED
      BY <2>3, <3>1 DEF Warranted
  <2> QED
    BY <1>9, <1>stays, <2>4 DEF Finish
<1>10. CASE Write
  BY <1>10, <1>open DEF Write, CanEdit
<1>11. CASE UNCHANGED vars
  BY <1>11, <1>stays DEF vars, StaticAnswer
<1> QED
  BY <1>1, <1>2, <1>3, <1>4, <1>5, <1>6, <1>7, <1>8, <1>9, <1>10, <1>11 DEF Next, Walk

\* A walk that nobody disturbs returns the Markdown files there are, and
\* refuses for the reason it names.
THEOREM AnswersAreTheTree == Spec => []StaticAnswer
<1>1. Init => StaticAnswer
  BY DEF Init, LoaderInit, StaticAnswer, Warranted
<1> QED
  BY <1>1, AnswerNext, IInvHolds, PTL DEF Spec

\* However the files change during the walk, the budgets hold for what was read.
THEOREM BudgetsHold == Spec => []WithinBudgets
<1>1. Init => WithinBudgets
  BY NoBudgetUsed DEF Init, LoaderInit
<1>2. IInv /\ WithinBudgets /\ [Next]_vars => WithinBudgets'
  <2> SUFFICES ASSUME IInv, WithinBudgets, [Next]_vars PROVE WithinBudgets'
    OBVIOUS
  <2>1. CASE Load
    <3>1. Entry.path \in Docs /\ AddDocument(Entry.path) /\ limits' = limits
      BY <2>1, VisitType, IInvTypes DEF Load, AtDocument, IInv
    <3> QED
      BY <3>1, BudgetsKept, IInvTypes
  <2>2. CASE UNCHANGED <<loaderVars, limits>>
    BY <2>2 DEF loaderVars, WithinBudgets, BudgetsHeld
  <2>3. CASE Walk /\ ~Load
    <3>1. UNCHANGED <<loaderVars, limits>>
      BY <2>3 DEF Walk, Refuse, Start, EnterTooDeep, EnterFails, Enter, Ignore,
                  LoadFails, Finish, loaderVars
    <3> QED
      BY <2>2, <3>1
  <2> QED
    BY <2>1, <2>2, <2>3 DEF Next, Write, vars
<1> QED
  BY <1>1, <1>2, IInvHolds, PTL DEF Spec

-----------------------------------------------------------------------------
(***************************************************************************)
(* Scan implements Crawl                                                   *)
(***************************************************************************)
Listed(e, p) == e.path = p /\ ~e.isDir

ListedDocuments == {p \in Markdown : \E i \in DOMAIN agenda : Listed(agenda[i], p)}

FrontierListed == Frontier = ListedDocuments

LEMMA FrontierIs == IInv => FrontierListed
<1> SUFFICES ASSUME IInv PROVE FrontierListed
  OBVIOUS
<1>1. ASSUME NEW i \in DOMAIN agenda, NEW p
      PROVE  agenda[i] = [path |-> p, isDir |-> FALSE] <=> Listed(agenda[i], p)
  <2>1. agenda[i] \in DirEntry
    BY IInvTypes
  <2>2. /\ agenda[i].isDir \in BOOLEAN
        /\ agenda[i] = [path |-> agenda[i].path, isDir |-> agenda[i].isDir]
    BY <2>1 DEF DirEntry
  <2> QED
    BY <2>2 DEF Listed
<1> QED
  BY <1>1 DEF FrontierListed, Frontier, ListedDocuments

LEMMA FrontierWillBe == IInv' => FrontierListed'
BY FrontierIs, PTL

LEMMA CrawlStep == IInv /\ IInv' /\ [Next]_vars => [C!CrawlNext]_(C!cvars)
<1> SUFFICES ASSUME IInv, IInv', [Next]_vars PROVE [C!CrawlNext]_(C!cvars)
  OBVIOUS
<1>types. /\ pc = "done" <=> result # "none"
          /\ \A i \in DOMAIN documents : documents[i].key \in Nat
          /\ Docs \subseteq Nat /\ Markdown \subseteq Docs
  BY IInvTypes, DocsAssumption, PathAssumption DEF IInv, Shape, Position
<1> USE DEF loaderVars, fsVars, C!cvars
<1>front. /\ Frontier = {p \in Markdown : \E i \in DOMAIN agenda : Listed(agenda[i], p)}
          /\ Frontier' = {p \in Markdown : \E i \in DOMAIN agenda' : Listed(agenda'[i], p)}
  BY FrontierIs, FrontierWillBe DEF FrontierListed, ListedDocuments
<1>fail. ASSUME UNCHANGED <<agenda, documents>>, pc # "done", result' \notin {"none", "workspace"}
         PROVE  C!Fail
  BY <1>fail, <1>types DEF C!Fail, Answer, Frontier, LoadedKeys
\* A step that moves on to the rest of the agenda.
<1>tail. ASSUME Visiting, agenda' = Rest
         PROVE  \A p : (\E i \in DOMAIN agenda' : Listed(agenda'[i], p))
                   <=> \E i \in DOMAIN agenda : i # 1 /\ Listed(agenda[i], p)
  <2>1. \A i \in DOMAIN Rest : i + 1 \in DOMAIN agenda /\ i + 1 # 1 /\ Rest[i] = agenda[i + 1]
    BY <1>tail, VisitType DEF IInv
  <2>2. \A i \in DOMAIN agenda : i # 1 => i - 1 \in DOMAIN Rest /\ agenda[i] = Rest[i - 1]
    BY <1>tail, VisitType DEF IInv
  <2> QED
    BY <1>tail, <2>1, <2>2
<1>still. ASSUME UNCHANGED <<documents, result>>, Frontier' = Frontier
          PROVE  UNCHANGED C!cvars
  BY <1>still DEF Answer, LoadedKeys
<1>1. CASE Refuse
  BY <1>1, <1>fail DEF Refuse, C!CrawlNext
<1>2. CASE Start
  <2>1. /\ DOMAIN agenda' = {1} /\ agenda'[1] = [path |-> Root, isDir |-> TRUE]
        /\ agenda = << >> /\ UNCHANGED <<documents, result>>
    BY <1>2 DEF Start, IInv, Shape, Position
  <2>2. Frontier' = {} /\ Frontier = {}
    BY <1>front, <2>1 DEF Listed
  <2> QED
    BY <1>still, <2>1, <2>2
<1>3. CASE EnterTooDeep
  BY <1>3, <1>fail DEF EnterTooDeep, Visiting, C!CrawlNext
<1>4. CASE EnterFails
  BY <1>4, <1>fail DEF EnterFails, Visiting, C!CrawlNext
<1>5. CASE Enter
  <2>0. Visiting /\ Entry.isDir /\ UNCHANGED <<documents, result>> /\ result = "none"
    BY <1>5, VisitType DEF Enter, IInv
  <2>1. PICK n, q : Entering(n, q)
    BY <1>5, EnterAgenda DEF IInv
  <2>2. n \in Nat /\ DOMAIN agenda' = 1..(n + Len(Rest)) /\ Len(Rest) \in Nat
    BY <2>0, <2>1, VisitType DEF Entering, IInv
  <2> DEFINE S == {p \in Markdown : \E i \in 1..n : Listed(agenda'[i], p)}
  <2>3. \A i \in DOMAIN Rest : n + i \in DOMAIN agenda' /\ agenda'[n + i] = Rest[i]
    BY <2>1 DEF Entering
  <2>4. \A i \in DOMAIN agenda' : i \in 1..n \/ (i - n \in DOMAIN Rest /\ agenda'[i] = Rest[i - n])
    <3>1. \A i \in DOMAIN agenda' :
             i \in 1..n \/ (i > n /\ i - n \in DOMAIN Rest /\ agenda'[i] = Rest[i - n])
      BY <2>1 DEF Entering
    <3> QED
      BY <3>1
  <2>5. \A i \in 1..n : i \in DOMAIN agenda'
    BY <2>2
  <2>6. \A i \in DOMAIN agenda : i # 1 => i - 1 \in DOMAIN Rest /\ agenda[i] = Rest[i - 1]
    BY <2>0, VisitType DEF IInv
  <2>7. \A i \in DOMAIN Rest : i + 1 \in DOMAIN agenda /\ Rest[i] = agenda[i + 1]
    BY <2>0, VisitType DEF IInv
  <2>8. ~agenda[1].isDir => FALSE
    BY <2>0, VisitType DEF IInv
  <2>9. Frontier' = Frontier \cup S
    <3>1. ASSUME NEW p \in Frontier PROVE p \in Frontier'
      <4>1. PICK i \in DOMAIN agenda : Listed(agenda[i], p)
        BY <1>front
      <4>2. i - 1 \in DOMAIN Rest /\ agenda[i] = Rest[i - 1]
        BY <2>6, <2>8, <4>1 DEF Listed
      <4>3. n + (i - 1) \in DOMAIN agenda' /\ agenda'[n + (i - 1)] = agenda[i]
        BY <2>3, <4>2
      <4> QED
        BY <1>front, <4>1, <4>3
    <3>2. ASSUME NEW p \in Frontier' PROVE p \in Frontier \cup S
      <4>1. PICK i \in DOMAIN agenda' : Listed(agenda'[i], p)
        BY <1>front
      <4>2. CASE i \in 1..n
        BY <1>front, <4>1, <4>2
      <4>3. CASE i - n \in DOMAIN Rest /\ agenda'[i] = Rest[i - n]
        <5>1. (i - n) + 1 \in DOMAIN agenda /\ agenda[(i - n) + 1] = agenda'[i]
          BY <2>7, <4>3
        <5> QED
          BY <1>front, <4>1, <5>1
      <4> QED
        BY <2>4, <4>2, <4>3
    <3>3. S \subseteq Frontier'
      BY <1>front, <2>5
    <3> QED
      BY <3>1, <3>2, <3>3
  <2>10. S \in SUBSET (Docs \ LoadedKeys)
    <3>1. ASSUME NEW p \in S PROVE p \in Docs \ LoadedKeys
      <4>1. PICK i \in 1..n : Listed(agenda'[i], p)
        OBVIOUS
      <4>2. \A j \in DOMAIN documents : documents[j].key < p
        BY <2>0, <2>5, <4>1 DEF Listed, IInv, Ordered
      <4> QED
        BY <1>types, <4>2 DEF LoadedKeys
    <3> QED
      BY <3>1
  <2>11. LoadedKeys' = LoadedKeys /\ Answer = "pending" /\ Answer' = "pending"
    BY <2>0 DEF LoadedKeys, Answer
  <2> HIDE DEF S
  <2> QED
    BY <2>9, <2>10, <2>11 DEF C!CrawlNext, C!Find
<1>6. CASE Ignore
  <2>1. /\ Visiting /\ agenda' = Rest /\ Entry.path \notin Markdown
        /\ UNCHANGED <<documents, result>> /\ Entry = agenda[1]
    BY <1>6, VisitType DEF Ignore, IInv
  <2>2. Frontier' = Frontier
    BY <1>front, <1>tail, <2>1 DEF Listed
  <2> QED
    BY <1>still, <2>1, <2>2
<1>7. CASE Load
  <2> DEFINE k == Entry.path
  <2>1. /\ Visiting /\ agenda' = Rest /\ k \in Markdown /\ ~Entry.isDir
        /\ documents' = Append(documents, [key |-> k, content |-> files[k]])
        /\ result' = result /\ result = "none"
        /\ Entry = agenda[1] /\ 1 \in DOMAIN agenda
    BY <1>7, VisitType DEF Load, AtDocument, AddDocument, IInv
  <2>2. LoadedKeys' = LoadedKeys \cup {k}
    <3>1. /\ DOMAIN documents' = DOMAIN documents \cup {Len(documents) + 1}
          /\ \A i \in DOMAIN documents : documents'[i] = documents[i]
          /\ documents'[Len(documents) + 1].key = k
      BY <2>1, IInvTypes
    <3> QED
      BY <3>1 DEF LoadedKeys
  <2>3. k \in Frontier
    BY <1>front, <2>1 DEF Listed
  <2>4. ASSUME NEW i \in DOMAIN agenda, i # 1 PROVE agenda[i].path # k
    <3>1. i \in 1..Len(agenda) /\ Len(agenda) \in Nat
      BY <2>4, IInvTypes
    <3>2. 1 < i
      BY <2>4, <3>1
    <3>3. k \in Nat
      BY <1>types, <2>1
    <3>4. k < agenda[i].path
      BY <2>1, <2>4, <3>2 DEF IInv, Ordered, Precedes
    <3> QED
      BY <3>3, <3>4
  <2>5. Frontier' = Frontier \ {k}
    <3>1. \A p : (\E i \in DOMAIN agenda' : Listed(agenda'[i], p))
               <=> \E i \in DOMAIN agenda : i # 1 /\ Listed(agenda[i], p)
      BY <1>tail, <2>1
    <3>2. Listed(agenda[1], k) /\ \A p : Listed(agenda[1], p) => p = k
      BY <2>1 DEF Listed
    <3>3. \A i \in DOMAIN agenda : i # 1 => ~Listed(agenda[i], k)
      BY <2>4 DEF Listed
    <3> QED
      BY <1>front, <2>1, <3>1, <3>2, <3>3
  <2> QED
    BY <2>1, <2>2, <2>3, <2>5 DEF C!CrawlNext, C!LoadOne, Answer
<1>8. CASE LoadFails
  <2>1. DocumentError(Entry.path) \notin {"none", "workspace"}
    BY <1>8 DEF LoadFails, DocumentError, AddDocumentError
  <2> QED
    BY <1>8, <1>fail, <2>1 DEF LoadFails, AtDocument, Visiting, C!CrawlNext
<1>9. CASE Finish
  <2>1. /\ agenda = << >> /\ UNCHANGED <<agenda, documents>>
        /\ result = "none" /\ result' = "workspace"
    BY <1>9, <1>types DEF Finish, WalkEnded
  <2>2. Frontier = {} /\ Frontier' = {}
    BY <1>front, <2>1
  <2> QED
    BY <2>1, <2>2 DEF C!CrawlNext, C!Succeed, Answer, LoadedKeys
<1>10. CASE Write
  BY <1>10, <1>still DEF Write, Frontier
<1>11. CASE UNCHANGED vars
  BY <1>11, <1>still DEF vars, Frontier
<1> QED
  BY <1>1, <1>2, <1>3, <1>4, <1>5, <1>6, <1>7, <1>8, <1>9, <1>10, <1>11 DEF Next, Walk

\* Every behaviour of Scan is one of the abstract crawl: what is listed is
\* loaded once, and a workspace is returned only when nothing listed is left.
THEOREM ScanImplementsCrawl == Spec => ImplementsCrawl
<1>1. Init => C!CrawlInit
  BY DEF Init, LoaderInit, C!CrawlInit, Frontier, LoadedKeys, Answer
<1> QED
  BY <1>1, CrawlStep, IInvHolds, PTL DEF Spec, ImplementsCrawl, C!Spec

=============================================================================
