---------------------------- MODULE Follow_proofs ----------------------------
(***************************************************************************)
(* What TLC checks of Follow on three documents, proved for any set of     *)
(* documents, contents, entries and budgets, and any number of writes.     *)
(***************************************************************************)
EXTENDS Follow, Loader_proofs

USE DEF Return

\* What initialQueue makes of valid entries: one item for each, at depth 0.
LEMMA InitialQueueItems ==
    ASSUME TypeOK, ValidCall, NEW q \in Queues, InitialQueue(q)
    PROVE  /\ EntrySet \subseteq Docs
           /\ q \in Seq(Item)
           /\ {q[i].key : i \in DOMAIN q} = EntrySet
           /\ \A i, j \in DOMAIN q : q[i].key = q[j].key => i = j
<1>1. EntrySet \subseteq Docs
  <2>1. entries \in Seq(Docs \cup {BadEntry})
    BY EntryAssumption DEF TypeOK, FollowTypeOK
  <2>2. ASSUME NEW i \in DOMAIN entries PROVE entries[i] \in Docs \cup {BadEntry}
    BY <2>1
  <2> QED
    BY <2>2 DEF ValidCall, EntrySet
<1>2. PICK listing \in Sequences(EntrySet) :
         /\ IsListing(listing, EntrySet)
         /\ q = [i \in DOMAIN listing |-> [key |-> listing[i], depth |-> 0]]
  BY DEF InitialQueue
<1>3. PICK n \in 0..Cardinality(EntrySet) : listing \in [1..n -> EntrySet]
  BY <1>2 DEF Sequences
<1>4. n \in Nat
  <2>1. PICK m \in 0..Len(entries) : q \in [1..m -> [key : EntrySet, depth : {0}]]
    BY DEF Queues
  <2>2. Len(entries) \in Nat
    BY EntryAssumption DEF TypeOK, FollowTypeOK
  <2>3. 1..n = 1..m
    BY <1>2, <1>3, <2>1
  <2> QED
    BY <1>3, <2>1, <2>2, <2>3
<1>5. DOMAIN q = 1..n /\ \A i \in 1..n : q[i] = [key |-> listing[i], depth |-> 0]
  BY <1>2, <1>3
<1>6. q \in [1..n -> Item]
  BY <1>1, <1>2, <1>3, <1>5 DEF Item
<1>7. q \in Seq(Item)
  BY <1>4, <1>6
<1>8. {q[i].key : i \in DOMAIN q} = EntrySet
  BY <1>2, <1>3, <1>5 DEF IsListing
<1>9. ASSUME NEW i \in DOMAIN q, NEW j \in DOMAIN q, q[i].key = q[j].key
      PROVE  i = j
  <2>1. i \in 1..n /\ j \in 1..n /\ listing[i] = listing[j]
    BY <1>5, <1>9
  <2>2. listing[i] \in Nat
    BY <1>1, <1>3, <2>1, DocsAssumption
  <2>3. ~(i < j) /\ ~(j < i)
    BY <1>2, <1>3, <2>1, <2>2 DEF IsListing
  <2> QED
    BY <2>1, <2>3, <1>4
<1> QED
  BY <1>1, <1>7, <1>8, <1>9

-----------------------------------------------------------------------------
(***************************************************************************)
(* Types, and where the loop stands: which document the queue's head is,   *)
(* and that it is the last one loaded while its relationships are followed *)
(***************************************************************************)
Position ==
    /\ pc = "start" => /\ queue = << >> /\ documents = << >> /\ head = 1
                       /\ \A d \in Docs : availability[d] = "unchecked"
    /\ pc = "load" => Len(documents) = head - 1 /\ head <= Len(queue) + 1
    /\ pc = "follow" => Len(documents) = head /\ head <= Len(queue)
    /\ pc = "done" <=> result # "none"

Shape == TypeOK /\ Position

LEMMA ShapeInit == Init => Shape
BY EditsAssumption, LimitAssumption
   DEF Init, LoaderInit, Shape, TypeOK, LoaderTypeOK, FollowTypeOK, Results, Position

\* While a document is followed, its relationships are a sequence of keys
\* and other destinations.
LEMMA LinksType ==
    ASSUME Shape, pc = "follow"
    PROVE  /\ documents[head] \in GraphDocument
           /\ Links \in Seq(Docs \cup {Elsewhere})
           /\ queue[head] \in Item
<1>1. head \in 1..Len(documents) /\ head \in 1..Len(queue)
  BY DEF Shape, Position, TypeOK, LoaderTypeOK, FollowTypeOK
<1>2. documents[head] \in GraphDocument /\ queue[head] \in Item
  BY <1>1 DEF Shape, TypeOK, LoaderTypeOK, FollowTypeOK
<1>3. documents[head].content \in Contents
  BY <1>2 DEF GraphDocument
<1> QED
  BY <1>2, <1>3, ContentsAssumption DEF Links

LEMMA TargetType ==
    ASSUME Shape, AtRelationship
    PROVE  /\ pc = "follow"
           /\ next \in 1..Len(Links)
           /\ Target \in Docs \cup {Elsewhere}
           /\ ~Skippable => Target \in Docs
<1>1. pc = "follow" /\ next \in 1..Len(Links)
  BY LinksType DEF AtRelationship, Shape, TypeOK, FollowTypeOK
<1>2. Target \in Docs \cup {Elsewhere}
  BY <1>1, LinksType DEF Target
<1> QED
  BY <1>1, <1>2 DEF Skippable

\* What addDocument(Current.key) appends.
LEMMA LoadedNode ==
    ASSUME Shape, Load
    PROVE  /\ head \in 1..Len(queue)
           /\ Current \in Item
           /\ files[Current.key] \in Contents
           /\ files[Current.key].size \in Nat
           /\ Len(files[Current.key].links) \in Nat
           /\ documents' = Append(documents,
                               [key |-> Current.key, content |-> files[Current.key]])
<1>1. head \in 1..Len(queue) /\ Current \in Item
  BY DEF Load, Current, Shape, TypeOK, FollowTypeOK
<1>2. files[Current.key] \in Nodes /\ files[Current.key].kind = "file"
  BY <1>1 DEF Load, AddDocument, Item, Shape, TypeOK, LoaderTypeOK
<1> QED
  BY <1>1, <1>2, FileIsContent DEF Load, AddDocument

LEMMA ShapeNext == Shape /\ [Next]_vars => Shape'
<1> SUFFICES ASSUME Shape, [Next]_vars PROVE Shape'
  OBVIOUS
<1> USE DEF Shape, Position, TypeOK, LoaderTypeOK, FollowTypeOK,
            loaderVars, fsVars, args
<1>1. CASE Refuse
  BY <1>1 DEF Refuse, Results, Failures
<1>2. CASE Start
  <2>1. PICK q \in Queues : InitialQueue(q) /\ queue' = q
    BY <1>2 DEF Start
  <2>2. queue' \in Seq(Item) /\ EntrySet \subseteq Docs
    BY <1>2, <2>1, InitialQueueItems DEF Start
  <2>3. Len(queue') \in Nat
    BY <2>2
  <2> QED
    BY <1>2, <2>2, <2>3 DEF Start
<1>3. CASE Load
  <2> HIDE DEF Shape
  <2> DEFINE d == [key |-> Current.key, content |-> files[Current.key]]
  <2>a. documents' = Append(documents, d) /\ d \in GraphDocument
    BY <1>3, LoadedNode DEF GraphDocument, Item
  <2>b. documents \in Seq(GraphDocument) /\ bytes \in Nat /\ relationships \in Nat
    BY DEF Shape
  <2>1. documents' \in Seq(GraphDocument)
    BY <2>a, <2>b
  <2>2. bytes' \in Nat /\ relationships' \in Nat
    BY <1>3, LoadedNode, AddedDocument DEF Load, Item, Shape
  <2>3. Len(documents') = head /\ head <= Len(queue)
    BY <1>3, LoadedNode DEF Load, Shape
  <2> QED
    BY <1>3, <2>1, <2>2, <2>3 DEF Load, Shape
<1>4. CASE LoadFails
  <2>1. AddDocumentError(Current.key) \in Results
    BY DEF AddDocumentError, Results, Failures
  <2> QED
    BY <1>4, <2>1 DEF LoadFails
<1>5. CASE Skip
  BY <1>5 DEF Skip, AtRelationship
<1>6. CASE StatFails
  BY <1>6 DEF StatFails, AtRelationship, Results, Failures
<1>7. CASE TargetMissing
  <2>1. availability' \in [Docs -> {"unchecked", "exists", "missing"}]
    BY <1>7 DEF TargetMissing
  <2> QED
    BY <1>7, <2>1 DEF TargetMissing, AtRelationship
<1>8. CASE TargetTooDeep
  <2>1. availability' \in [Docs -> {"unchecked", "exists", "missing"}]
    BY <1>8 DEF TargetTooDeep
  <2> QED
    BY <1>8, <2>1 DEF TargetTooDeep, AtRelationship, Results, Failures
<1>9. CASE TargetFound
  <2>1. Target \in Docs /\ pc = "follow"
    BY <1>9, TargetType DEF TargetFound
  <2>2. NextDepth \in Nat
    BY <2>1, LinksType DEF NextDepth, Current, Item
  <2>3. queue' \in Seq(Item) /\ Len(queue') = Len(queue) + 1
    BY <1>9, <2>1, <2>2 DEF TargetFound, Item
  <2>4. availability' \in [Docs -> {"unchecked", "exists", "missing"}]
    BY <1>9 DEF TargetFound
  <2> QED
    BY <1>9, <2>1, <2>3, <2>4 DEF TargetFound, Discover
<1>10. CASE Advance
  BY <1>10 DEF Advance
<1>11. CASE Finish
  BY <1>11 DEF Finish, Results
<1>12. CASE Write
  <2>1. PICK d \in Docs, n \in Nodes : files' = [files EXCEPT ![d] = n]
    BY <1>12 DEF Write
  <2>2. files' \in [Docs -> Nodes]
    BY <2>1
  <2>3. edits' \in 0..MaxEdits
    BY <1>12, EditsAssumption DEF Write, CanEdit
  <2> QED
    BY <1>12, <2>2, <2>3 DEF Write, CanEdit, followVars
<1>13. CASE UNCHANGED vars
  BY <1>13 DEF vars, followVars
<1> QED
  BY <1>1, <1>2, <1>3, <1>4, <1>5, <1>6, <1>7, <1>8, <1>9, <1>10, <1>11,
     <1>12, <1>13 DEF Next, Loop

\* Every variable of Follow keeps its type, whatever the file system does.
THEOREM TypeCorrect == Spec => []TypeOK
<1>1. Spec => []Shape
  BY ShapeInit, ShapeNext, PTL DEF Spec
<1> QED
  BY <1>1, PTL DEF Shape

-----------------------------------------------------------------------------
(***************************************************************************)
(* Each document once, and none left out.  The strengthening says what the *)
(* maps hold: discovered is the set of queued keys, and every relationship *)
(* that was looked at led to a discovered key or to a path known missing.  *)
(***************************************************************************)
Accounted(t) == t \in discovered \/ availability[t] = "missing"

Found ==
    /\ discovered = {queue[i].key : i \in DOMAIN queue}
    /\ LoadedOnce
    /\ \A d \in discovered : availability[d] # "missing"
    /\ pc \in {"load", "follow"} \/ result = "workspace" => EntrySet \subseteq discovered
    /\ result = "workspace" => Len(documents) = Len(queue) /\ head = Len(queue) + 1

Covered ==
    \A i \in DOMAIN documents : \A j \in DOMAIN documents[i].content.links :
        /\ documents[i].content.links[j] \in Docs
        /\ i < head \/ j < next
        => Accounted(documents[i].content.links[j])

IInv == Shape /\ Found /\ Covered

LEMMA IInvInit == Init => IInv
<1> SUFFICES ASSUME Init PROVE IInv
  OBVIOUS
<1>1. Shape
  BY ShapeInit
<1>2. Found
  BY DEF Init, LoaderInit, Found, LoadedOnce
<1>3. Covered
  BY DEF Init, LoaderInit, Covered
<1> QED
  BY <1>1, <1>2, <1>3 DEF IInv

LEMMA FoundNext == IInv /\ [Next]_vars => Found'
<1> SUFFICES ASSUME IInv, [Next]_vars PROVE Found'
  OBVIOUS
<1>0. Shape /\ Found /\ Shape'
  BY ShapeNext DEF IInv
<1> USE DEF loaderVars, fsVars, args, EntrySet
<1>types. /\ queue \in Seq(Item) /\ documents \in Seq(GraphDocument)
          /\ head \in Nat \ {0} /\ discovered \subseteq Docs
          /\ availability \in [Docs -> {"unchecked", "exists", "missing"}]
  BY <1>0 DEF Shape, TypeOK, LoaderTypeOK, FollowTypeOK
<1>1. CASE Refuse
  BY <1>0, <1>1 DEF Refuse, Found, LoadedOnce
<1>2. CASE Start
  <2>1. PICK q \in Queues : InitialQueue(q) /\ queue' = q
    BY <1>2 DEF Start
  <2>2. /\ queue' \in Seq(Item)
        /\ discovered' = {queue'[i].key : i \in DOMAIN queue'}
        /\ \A i, j \in DOMAIN queue' : queue'[i].key = queue'[j].key => i = j
    BY <1>0, <1>2, <2>1, InitialQueueItems DEF Start, Shape
  <2>3. documents' = << >> /\ head' = 1 /\ availability' = availability
    BY <1>0, <1>2 DEF Start, Shape, Position
  <2>4. \A d \in discovered' : availability'[d] # "missing"
    BY <1>0, <1>2, <2>1, <2>3, InitialQueueItems DEF Start, Shape, Position
  <2>5. result' # "workspace" /\ discovered' = EntrySet'
    BY <1>0, <1>2 DEF Start, Shape, Position
  <2>6. LoadedOnce'
    <3>1. Len(documents') = 0 /\ Len(queue') \in Nat /\ DOMAIN documents' = {}
      BY <2>2, <2>3
    <3> QED
      BY <2>2, <2>3, <3>1 DEF LoadedOnce
  <2> QED
    BY <2>2, <2>4, <2>5, <2>6 DEF Found
<1>3. CASE Load
  <2>1. /\ documents' = Append(documents,
                     [key |-> queue[head].key, content |-> files[queue[head].key]])
        /\ head \in 1..Len(queue)
    BY <1>0, <1>3, LoadedNode DEF Current
  <2>2. Len(documents) = head - 1
    BY <1>0, <1>3 DEF Load, Shape, Position
  <2>3. Len(documents') = head
    BY <1>types, <2>1, <2>2
  <2>4. \A i \in DOMAIN documents' : documents'[i].key = queue[i].key
    BY <1>0, <1>types, <2>1, <2>2 DEF Found, LoadedOnce
  <2>5. LoadedOnce'
    BY <1>0, <1>3, <1>types, <2>1, <2>3, <2>4 DEF Load, Found, LoadedOnce
  <2>6. result' # "workspace"
    BY <1>0, <1>3 DEF Load, Shape, Position
  <2> QED
    BY <1>0, <1>3, <2>5, <2>6 DEF Load, Found
<1>4. CASE LoadFails
  <2>1. AddDocumentError(Current.key) # "workspace"
    BY DEF AddDocumentError
  <2> QED
    BY <1>0, <1>4, <2>1 DEF LoadFails, Found, LoadedOnce
<1>5. CASE Skip
  BY <1>0, <1>5 DEF Skip, Found, LoadedOnce
<1>6. CASE StatFails
  BY <1>0, <1>6 DEF StatFails, Found, LoadedOnce
<1>7. CASE TargetMissing
  <2>1. Target \notin discovered /\ availability' = [availability EXCEPT ![Target] = "missing"]
    BY <1>7 DEF TargetMissing, Skippable
  <2>2. \A d \in discovered : availability'[d] # "missing"
    BY <1>0, <1>types, <2>1 DEF Found
  <2> QED
    BY <1>0, <1>7, <2>2 DEF TargetMissing, Found, LoadedOnce
<1>8. CASE TargetTooDeep
  <2>1. \A d \in discovered : availability'[d] # "missing"
    BY <1>0, <1>8, <1>types DEF TargetTooDeep, Found
  <2> QED
    BY <1>0, <1>8, <2>1 DEF TargetTooDeep, Found, LoadedOnce
<1>9. CASE TargetFound
  <2>1. Target \in Docs \ discovered
    BY <1>0, <1>9, TargetType DEF TargetFound, Skippable
  <2>2. queue' = Append(queue, [key |-> Target, depth |-> NextDepth])
    BY <1>9 DEF TargetFound
  <2>3. /\ Len(queue') = Len(queue) + 1
        /\ \A i \in DOMAIN queue : queue'[i] = queue[i]
        /\ queue'[Len(queue) + 1].key = Target
        /\ DOMAIN queue' = DOMAIN queue \cup {Len(queue) + 1}
    BY <1>types, <2>2
  <2>4. discovered' = discovered \cup {Target}
    BY <1>9 DEF TargetFound, Discover
  <2>5. discovered' = {queue'[i].key : i \in DOMAIN queue'}
    BY <1>0, <2>3, <2>4 DEF Found
  <2>6. \A i, j \in DOMAIN queue' : queue'[i].key = queue'[j].key => i = j
    BY <1>0, <2>1, <2>3 DEF Found, LoadedOnce
  <2>7. \A d \in discovered' : availability'[d] # "missing"
    BY <1>0, <1>9, <1>types, <2>1, <2>4 DEF TargetFound, Found
  <2>8. DOMAIN documents \subseteq DOMAIN queue
    BY <1>0, <1>types DEF Found, LoadedOnce
  <2>9. LoadedOnce'
    BY <1>0, <1>9, <1>types, <2>3, <2>6, <2>8 DEF TargetFound, Found, LoadedOnce
  <2>10. result' # "workspace"
    BY <1>0, <1>9 DEF TargetFound, AtRelationship, Shape, Position
  <2> QED
    BY <1>0, <1>9, <2>4, <2>5, <2>7, <2>9, <2>10
       DEF TargetFound, AtRelationship, Found
<1>10. CASE Advance
  <2>1. Len(documents) = head /\ head' = head + 1 /\ result' # "workspace"
    BY <1>0, <1>10 DEF Advance, Shape, Position
  <2>2. LoadedOnce'
    BY <1>0, <1>10, <1>types, <2>1 DEF Advance, Found, LoadedOnce
  <2> QED
    BY <1>0, <1>10, <2>1, <2>2 DEF Advance, Found
<1>11. CASE Finish
  <2>1. Len(documents) = Len(queue) /\ head = Len(queue) + 1
    BY <1>0, <1>11, <1>types DEF Finish, Shape, Position
  <2> QED
    BY <1>0, <1>11, <2>1 DEF Finish, Found, LoadedOnce
<1>12. CASE Write
  BY <1>0, <1>12 DEF Write, followVars, Found, LoadedOnce
<1>13. CASE UNCHANGED vars
  BY <1>0, <1>13 DEF vars, followVars, Found, LoadedOnce
<1> QED
  BY <1>1, <1>2, <1>3, <1>4, <1>5, <1>6, <1>7, <1>8, <1>9, <1>10, <1>11,
     <1>12, <1>13 DEF Next, Loop

LEMMA CoveredNext == IInv /\ [Next]_vars => Covered'
<1> SUFFICES ASSUME IInv, [Next]_vars PROVE Covered'
  OBVIOUS
<1>0. Shape /\ Found /\ Covered
  BY DEF IInv
<1> USE DEF loaderVars, fsVars, args
<1>types. /\ queue \in Seq(Item) /\ documents \in Seq(GraphDocument)
          /\ head \in Nat \ {0} /\ next \in Nat \ {0} /\ discovered \subseteq Docs
          /\ availability \in [Docs -> {"unchecked", "exists", "missing"}]
  BY <1>0 DEF Shape, TypeOK, LoaderTypeOK, FollowTypeOK
\* A step that reads no document and moves no index only has to keep what
\* was accounted for.
<1>keep. ASSUME UNCHANGED <<documents, head, next>>,
                \A t \in Docs : Accounted(t) => Accounted(t)'
         PROVE  Covered'
  BY <1>0, <1>keep DEF Covered
\* Looking at one relationship accounts for it.
<1>look. ASSUME UNCHANGED <<documents, head>>, next' = next + 1, AtRelationship,
                \A t \in Docs : Accounted(t) => Accounted(t)',
                \A t \in Docs : t = Target => Accounted(t)'
         PROVE  Covered'
  <2> SUFFICES ASSUME NEW i \in DOMAIN documents,
                      NEW j \in DOMAIN documents[i].content.links,
                      NEW t \in Docs, t = documents[i].content.links[j],
                      i < head \/ j < next + 1
               PROVE  Accounted(t)'
    BY <1>look DEF Covered, Accounted
  <2>1. Len(documents) = head /\ i <= head
    BY <1>0, <1>look, <1>types DEF AtRelationship, Shape, Position
  <2>2. documents[i].content.links \in Seq(Docs \cup {Elsewhere})
    <3>1. documents[i] \in GraphDocument
      BY <1>types
    <3>2. documents[i].content \in Contents
      BY <3>1 DEF GraphDocument
    <3> QED
      BY <3>2, ContentsAssumption
  <2>3. CASE i < head \/ j < next
    BY <1>0, <1>look, <2>3 DEF Covered
  <2>4. CASE i = head /\ j = next
    BY <1>look, <2>4 DEF Target, Links
  <2> QED
    BY <1>types, <2>1, <2>2, <2>3, <2>4
<1>1. CASE Refuse
  BY <1>1, <1>keep DEF Refuse, Accounted
<1>2. CASE Start
  <2>1. documents' = << >>
    BY <1>0, <1>2 DEF Start, Shape, Position
  <2> QED
    BY <2>1 DEF Covered
<1>3. CASE Load
  <2>1. /\ documents' = Append(documents,
                     [key |-> queue[head].key, content |-> files[queue[head].key]])
        /\ Len(documents) = head - 1
    BY <1>0, <1>3, LoadedNode DEF Current, Load, Shape, Position
  <2>2. /\ DOMAIN documents' = DOMAIN documents \cup {head}
        /\ \A i \in DOMAIN documents : i < head /\ documents'[i] = documents[i]
    BY <1>types, <2>1
  <2>3. documents'[head].content.links \in Seq(Docs \cup {Elsewhere})
    <3>1. documents'[head].content = files[Current.key]
      BY <1>types, <2>1 DEF Current
    <3> QED
      BY <1>0, <1>3, <3>1, LoadedNode, ContentsAssumption
  <2>4. head' = head /\ next' = 1 /\ \A t : Accounted(t) <=> Accounted(t)'
    BY <1>3 DEF Load, Accounted
  <2> QED
    BY <1>0, <1>types, <2>2, <2>3, <2>4 DEF Covered
<1>4. CASE LoadFails
  BY <1>4, <1>keep DEF LoadFails, Accounted
<1>5. CASE Skip
  <2>1. \A t \in Docs : t = Target => Accounted(t)'
    BY <1>5, ElsewhereAssumption DEF Skip, Skippable, Accounted
  <2> QED
    BY <1>5, <1>look, <2>1 DEF Skip, Accounted
<1>6. CASE StatFails
  BY <1>6, <1>keep DEF StatFails, Accounted
<1>7. CASE TargetMissing
  <2>1. \A t \in Docs : Accounted(t) => Accounted(t)'
    BY <1>7, <1>types DEF TargetMissing, Accounted
  <2>2. \A t \in Docs : t = Target => Accounted(t)'
    BY <1>7, <1>types DEF TargetMissing, Accounted
  <2> QED
    BY <1>7, <1>look, <2>1, <2>2 DEF TargetMissing
<1>8. CASE TargetTooDeep
  <2>1. \A t \in Docs : Accounted(t) => Accounted(t)'
    BY <1>8, <1>types DEF TargetTooDeep, Exists, Accounted
  <2> QED
    BY <1>8, <1>keep, <2>1 DEF TargetTooDeep
<1>9. CASE TargetFound
  <2>1. \A t \in Docs : Accounted(t) => Accounted(t)'
    BY <1>9, <1>types DEF TargetFound, Exists, Discover, Accounted
  <2>2. \A t \in Docs : t = Target => Accounted(t)'
    BY <1>9 DEF TargetFound, Discover, Accounted
  <2> QED
    BY <1>9, <1>look, <2>1, <2>2 DEF TargetFound
<1>10. CASE Advance
  <2> SUFFICES ASSUME NEW i \in DOMAIN documents,
                      NEW j \in DOMAIN documents[i].content.links,
                      documents[i].content.links[j] \in Docs
               PROVE  Accounted(documents[i].content.links[j])
    BY <1>10 DEF Advance, Covered, Accounted
  <2>1. Len(documents) = head /\ i <= head
    BY <1>0, <1>10, <1>types DEF Advance, Shape, Position
  <2>2. documents[i].content.links \in Seq(Docs \cup {Elsewhere})
    <3>1. documents[i] \in GraphDocument
      BY <1>types
    <3>2. documents[i].content \in Contents
      BY <3>1 DEF GraphDocument
    <3> QED
      BY <3>2, ContentsAssumption
  <2>3. i = head => j < next
    BY <1>10, <1>types, <2>2 DEF Advance, Followed, Links
  <2> QED
    BY <1>0, <1>types, <2>1, <2>3 DEF Covered
<1>11. CASE Finish
  BY <1>11, <1>keep DEF Finish, Accounted
<1>12. CASE Write
  BY <1>12, <1>keep DEF Write, followVars, Accounted
<1>13. CASE UNCHANGED vars
  BY <1>13, <1>keep DEF vars, followVars, Accounted
<1> QED
  BY <1>1, <1>2, <1>3, <1>4, <1>5, <1>6, <1>7, <1>8, <1>9, <1>10, <1>11,
     <1>12, <1>13 DEF Next, Loop

LEMMA IInvHolds == Spec => []IInv
<1>1. IInv /\ [Next]_vars => IInv'
  BY ShapeNext, FoundNext, CoveredNext DEF IInv
<1> QED
  BY IInvInit, <1>1, PTL DEF Spec

\* No document is loaded twice, cycles or not, and the workspace is the
\* loaded prefix of the queue.
THEOREM EachDocumentOnce == Spec => []LoadedOnce
<1>1. IInv => LoadedOnce
  BY DEF IInv, Found
<1> QED
  BY <1>1, IInvHolds, PTL

\* A returned workspace leaves out no local target that was there when it
\* was looked for.
THEOREM WorkspaceClosed == Spec => []Closed
<1>1. IInv => Closed
  <2> SUFFICES ASSUME IInv PROVE Closed
    OBVIOUS
  <2>0. Shape /\ Found /\ Covered
    BY DEF IInv
  <2>types. /\ queue \in Seq(Item) /\ documents \in Seq(GraphDocument)
            /\ head \in Nat \ {0}
    BY <2>0 DEF Shape, TypeOK, LoaderTypeOK, FollowTypeOK
  <2>1. ASSUME result = "workspace" PROVE discovered \subseteq LoadedKeys
    <3>1. DOMAIN documents = DOMAIN queue
      BY <2>0, <2>types, <2>1 DEF Found
    <3> QED
      BY <2>0, <3>1 DEF Found, LoadedOnce, LoadedKeys
  <2>2. ASSUME result = "workspace", NEW i \in DOMAIN documents,
               NEW t \in Targets(documents[i].content)
        PROVE  Settled(t)
    <3>1. PICK j \in DOMAIN documents[i].content.links :
             t = documents[i].content.links[j] /\ t \in Docs
      BY DEF Targets
    <3>2. i < head
      BY <2>0, <2>types, <2>2 DEF Found
    <3> QED
      BY <2>0, <2>1, <2>2, <3>1, <3>2 DEF Covered, Accounted, Settled
  <2>3. result = "workspace" => EntrySet \subseteq LoadedKeys
    BY <2>0, <2>1 DEF Found
  <2> QED
    BY <2>0, <2>2, <2>3 DEF Closed, Found
<1> QED
  BY <1>1, IInvHolds, PTL

-----------------------------------------------------------------------------
(***************************************************************************)
(* The budgets                                                             *)
(***************************************************************************)
\* However the files change meanwhile, the counters are the sums over what was
\* read, and stay within the limits of the call.
THEOREM BudgetsHold == Spec => []WithinBudgets
<1>1. Init => WithinBudgets
  BY NoBudgetUsed DEF Init, LoaderInit
<1>2. Shape /\ WithinBudgets /\ [Next]_vars => WithinBudgets'
  <2> SUFFICES ASSUME Shape, WithinBudgets, [Next]_vars PROVE WithinBudgets'
    OBVIOUS
  <2>1. CASE Load
    <3>1. Current.key \in Docs /\ AddDocument(Current.key) /\ limits' = limits
      BY <2>1, LoadedNode DEF Load, Item, args
    <3> QED
      BY <3>1, BudgetsKept DEF Shape, TypeOK
  <2>2. CASE UNCHANGED <<loaderVars, limits>>
    BY <2>2 DEF loaderVars, WithinBudgets, BudgetsHeld
  <2>3. CASE Loop /\ ~Load
    <3>1. UNCHANGED <<loaderVars, limits>>
      BY <2>3 DEF Loop, Refuse, Start, LoadFails, Skip, StatFails, TargetMissing,
                  TargetTooDeep, TargetFound, Advance, Finish, loaderVars, args
    <3> QED
      BY <2>2, <3>1
  <2> QED
    BY <2>1, <2>2, <2>3 DEF Next, Write, vars, args
<1>3. Spec => []Shape
  BY ShapeInit, ShapeNext, PTL DEF Spec
<1> QED
  BY <1>1, <1>2, <1>3, PTL DEF Spec

-----------------------------------------------------------------------------
(***************************************************************************)
(* Depths.  Breadth first means that the depths never fall along the queue *)
(* and that nothing queued is more than one hop beyond the head; so the    *)
(* first path found to a document is a shortest one.                       *)
(***************************************************************************)
Rising == \A i, j \in DOMAIN queue : i <= j => queue[i].depth <= queue[j].depth

OneHopAhead ==
    pc \in {"load", "follow"} /\ head <= Len(queue) =>
        \A i \in DOMAIN queue : queue[i].depth <= queue[head].depth + 1

Near == Rising /\ OneHopAhead /\ ShortestDepth

LEMMA NearNext == IInv /\ Near /\ [Next]_vars => Near'
<1> SUFFICES ASSUME IInv, Near, [Next]_vars PROVE Near'
  OBVIOUS
<1>0. Shape /\ Found /\ Covered /\ Rising /\ OneHopAhead /\ ShortestDepth /\ Shape'
  BY ShapeNext DEF IInv, Near
<1> USE DEF loaderVars, fsVars, args
<1>types. /\ queue \in Seq(Item) /\ documents \in Seq(GraphDocument)
          /\ head \in Nat \ {0} /\ Len(queue) \in Nat
          /\ \A i \in DOMAIN queue : queue[i].depth \in Nat
  <2>1. /\ queue \in Seq(Item) /\ documents \in Seq(GraphDocument) /\ head \in Nat \ {0}
    BY <1>0 DEF Shape, TypeOK, LoaderTypeOK, FollowTypeOK
  <2>2. \A i \in DOMAIN queue : queue[i] \in Item
    BY <2>1
  <2> QED
    BY <2>1, <2>2 DEF Item
\* A step that leaves the queue, the documents, the head and the call alone.
<1>keep. ASSUME UNCHANGED <<queue, documents, head, limits, entries>>,
                pc' \in {"load", "follow"} => pc \in {"load", "follow"}
         PROVE  Near'
  <2>1. Rising' /\ OneHopAhead'
    BY <1>0, <1>keep DEF Rising, OneHopAhead
  <2>2. ShortestDepth'
    BY <1>0, <1>keep DEF ShortestDepth, ReadLink, Targets, EntrySet
  <2> QED
    BY <2>1, <2>2 DEF Near
<1>1. CASE Refuse
  BY <1>1, <1>keep DEF Refuse
<1>2. CASE Start
  <2>1. PICK q \in Queues : InitialQueue(q) /\ queue' = q
    BY <1>2 DEF Start
  <2>2. /\ queue' \in Seq(Item)
        /\ {queue'[i].key : i \in DOMAIN queue'} = EntrySet
    BY <1>0, <1>2, <2>1, InitialQueueItems DEF Start, Shape
  <2>3. \A i \in DOMAIN queue' : queue'[i].depth = 0
    BY <2>1 DEF InitialQueue
  <2>4. documents' = << >> /\ head' = 1 /\ limits' = limits /\ entries' = entries
    BY <1>0, <1>2 DEF Start, Shape, Position
  <2>5. limits.depth >= 0
    BY <1>2 DEF Start, ValidCall, ValidLimits
  <2>6. Rising' /\ OneHopAhead'
    BY <2>2, <2>3, <2>4 DEF Rising, OneHopAhead
  <2>7. ShortestDepth'
    <3>1. \A i \in DOMAIN queue' : queue'[i].key \in EntrySet'
      BY <2>2, <2>4 DEF EntrySet
    <3>2. \A d, t : ~ReadLink(d, t)'
      BY <2>4 DEF ReadLink
    <3>3. \A i \in DOMAIN queue' : queue'[i].depth <= limits'.depth
      BY <2>3, <2>4, <2>5
    <3> QED
      BY <2>3, <3>1, <3>2, <3>3 DEF ShortestDepth
  <2> QED
    BY <2>6, <2>7 DEF Near
<1>3. CASE Load
  <2> DEFINE new == [key |-> queue[head].key, content |-> files[queue[head].key]]
  <2>1. /\ documents' = Append(documents, new)
        /\ head \in 1..Len(queue) /\ UNCHANGED <<queue, head, limits, entries>>
        /\ Len(documents) = head - 1
        /\ pc = "load" /\ pc' = "follow"
    BY <1>0, <1>3, LoadedNode DEF Current, Load, Shape, Position
  <2>2. /\ DOMAIN documents' = DOMAIN documents \cup {head}
        /\ \A i \in DOMAIN documents : documents'[i] = documents[i]
        /\ documents'[head] = new
    BY <1>types, <2>1
  <2>3. \A i \in DOMAIN queue : queue[i].depth <= queue[head].depth + 1
    BY <1>0, <1>types, <2>1 DEF OneHopAhead
  <2>4. \A d, t : ReadLink(d, t) => ReadLink(d, t)'
    BY <2>2 DEF ReadLink, Targets
  <2>5. \A d, t : ReadLink(d, t)' => ReadLink(d, t) \/ d = queue[head].key
    BY <2>2 DEF ReadLink, Targets
  <2>6. ASSUME NEW i \in DOMAIN queue, NEW j \in DOMAIN queue,
               ReadLink(queue[j].key, queue[i].key)'
        PROVE  queue[i].depth <= queue[j].depth + 1
    <3>1. CASE ReadLink(queue[j].key, queue[i].key)
      BY <1>0, <3>1 DEF ShortestDepth
    <3>2. CASE queue[j].key = queue[head].key
      <4>1. j = head
        BY <1>0, <2>1, <3>2, <1>types DEF Found, LoadedOnce
      <4> QED
        BY <2>3, <4>1
    <3> QED
      BY <2>1, <2>5, <2>6, <3>1, <3>2
  <2>7. ShortestDepth'
    <3>1. \A i \in DOMAIN queue' : queue'[i].depth <= limits'.depth
      BY <1>0, <2>1 DEF ShortestDepth
    <3>2. \A i \in DOMAIN queue' :
             \/ queue'[i].depth = 0 /\ queue'[i].key \in EntrySet'
             \/ \E j \in 1..(i - 1) : /\ ReadLink(queue[j].key, queue[i].key)'
                                      /\ queue'[i].depth = queue'[j].depth + 1
      BY <1>0, <2>1, <2>4 DEF ShortestDepth, EntrySet
    <3>3. \A i, j \in DOMAIN queue' :
             ReadLink(queue[j].key, queue[i].key)' => queue'[i].depth <= queue'[j].depth + 1
      BY <2>1, <2>6
    <3> QED
      BY <2>1, <3>1, <3>2, <3>3 DEF ShortestDepth
  <2>8. Rising' /\ OneHopAhead'
    BY <1>0, <2>1, <2>3 DEF Rising, OneHopAhead
  <2> QED
    BY <2>7, <2>8 DEF Near
<1>4. CASE LoadFails
  BY <1>4, <1>keep DEF LoadFails
<1>5. CASE Skip
  BY <1>5, <1>keep DEF Skip
<1>6. CASE StatFails
  BY <1>6, <1>keep DEF StatFails
<1>7. CASE TargetMissing
  BY <1>7, <1>keep DEF TargetMissing
<1>8. CASE TargetTooDeep
  BY <1>8, <1>keep DEF TargetTooDeep
<1>9. CASE TargetFound
  <2> DEFINE n == Len(queue) + 1
  <2>1. /\ Target \in Docs \ discovered /\ next \in 1..Len(Links)
        /\ pc = "follow" /\ pc' = "follow"
        /\ availability[Target] # "missing"
    BY <1>0, <1>9, TargetType DEF TargetFound, Skippable, AtRelationship, Exists
  <2>2. /\ queue' = Append(queue, [key |-> Target, depth |-> NextDepth])
        /\ UNCHANGED <<documents, head, limits, entries>>
        /\ NextDepth <= limits.depth
        /\ head \in 1..Len(queue) /\ Len(documents) = head
        /\ NextDepth = queue[head].depth + 1
    BY <1>0, <1>9, <2>1, <1>types
       DEF TargetFound, WithinDepth, NextDepth, Current, Shape, Position
  <2>3. /\ DOMAIN queue' = DOMAIN queue \cup {n} /\ Len(queue') = n
        /\ \A i \in DOMAIN queue : i < n /\ queue'[i] = queue[i]
        /\ queue'[n].key = Target /\ queue'[n].depth = queue[head].depth + 1
    BY <1>types, <2>2
  <2>4. \A i \in DOMAIN queue : queue[i].depth <= queue[head].depth + 1
    BY <1>0, <2>1, <2>2 DEF OneHopAhead
  <2>5. Rising' /\ OneHopAhead'
    <3>1. Rising'
      BY <1>0, <1>types, <2>2, <2>3, <2>4 DEF Rising
    <3>2. OneHopAhead'
      BY <1>types, <2>2, <2>3, <2>4 DEF OneHopAhead
    <3> QED
      BY <3>1, <3>2
  <2>6. ReadLink(queue[head].key, Target)
    <3>1. head \in DOMAIN documents /\ documents[head].key = queue[head].key
      <4>1. head \in DOMAIN documents
        BY <1>types, <2>2
      <4> QED
        BY <1>0, <4>1 DEF Found, LoadedOnce
    <3>2. Target \in Targets(documents[head].content)
      <4>1. documents[head].content.links \in Seq(Docs \cup {Elsewhere})
        BY <1>0, <2>1, LinksType DEF Links
      <4> QED
        BY <2>1, <4>1 DEF Target, Targets, Links
    <3> QED
      BY <3>1, <3>2 DEF ReadLink
  <2>7. \A d, t : ReadLink(d, t)' <=> ReadLink(d, t)
    BY <2>2 DEF ReadLink, Targets
  \* Nobody who was followed before the head links to what is new.
  <2>8. ASSUME NEW j \in DOMAIN queue, ReadLink(queue[j].key, Target)
        PROVE  j = head
    <3>1. PICK i \in DOMAIN documents :
             documents[i].key = queue[j].key /\ Target \in Targets(documents[i].content)
      BY <2>8 DEF ReadLink
    <3>2. i \in DOMAIN queue /\ i <= head
      BY <1>types, <2>2, <3>1
    <3>3. i = j
      BY <1>0, <3>1, <3>2 DEF Found, LoadedOnce
    <3>4. ~(i < head)
      <4> SUFFICES ASSUME i < head PROVE FALSE
        OBVIOUS
      <4>1. PICK l \in DOMAIN documents[i].content.links :
               documents[i].content.links[l] = Target
        BY <3>1 DEF Targets
      <4>2. Accounted(Target)
        BY <1>0, <2>1, <4>1 DEF Covered
      <4> QED
        BY <2>1, <4>2 DEF Accounted
    <3> QED
      BY <1>types, <3>2, <3>3, <3>4
  \* What is new is linked from nowhere it could be further from.
  <2>9. ASSUME NEW i \in DOMAIN queue', NEW j \in DOMAIN queue',
               ReadLink(queue'[j].key, queue'[i].key)
        PROVE  queue'[i].depth <= queue'[j].depth + 1
    <3>1. CASE i \in DOMAIN queue /\ j \in DOMAIN queue
      BY <1>0, <2>3, <2>9, <3>1 DEF ShortestDepth
    <3>2. CASE i = n /\ j \in DOMAIN queue
      <4>1. j = head
        BY <2>3, <2>8, <2>9, <3>2
      <4> QED
        BY <1>types, <2>2, <2>3, <3>2, <4>1
    <3>3. CASE j = n
      <4>1. PICK k \in DOMAIN documents : documents[k].key = Target
        BY <2>3, <2>9, <3>3 DEF ReadLink
      <4>2. k \in DOMAIN queue /\ queue[k].key = Target
        BY <1>0, <1>types, <2>2, <4>1 DEF Found, LoadedOnce
      <4> QED
        BY <1>0, <2>1, <4>2 DEF Found
    <3> QED
      BY <2>3, <2>9, <3>1, <3>2, <3>3
  <2>10. ASSUME NEW i \in DOMAIN queue'
         PROVE  \/ queue'[i].depth = 0 /\ queue'[i].key \in EntrySet
                \/ \E j \in 1..(i - 1) : /\ ReadLink(queue'[j].key, queue'[i].key)
                                         /\ queue'[i].depth = queue'[j].depth + 1
    <3>1. CASE i \in DOMAIN queue
      <4>1. \A j \in 1..(i - 1) : j \in DOMAIN queue
        BY <1>types, <3>1
      <4> QED
        BY <1>0, <2>3, <3>1, <4>1 DEF ShortestDepth
    <3>2. CASE i = n
      <4>1. head \in 1..(i - 1) /\ head \in DOMAIN queue
        BY <1>types, <2>2, <3>2
      <4> QED
        BY <2>3, <2>6, <3>2, <4>1
    <3> QED
      BY <2>3, <3>1, <3>2
  <2>11. \A i \in DOMAIN queue' : queue'[i].depth <= limits'.depth
    BY <1>0, <2>2, <2>3 DEF ShortestDepth
  <2>12. ShortestDepth'
    <3>1. EntrySet' = EntrySet
      BY <2>2 DEF EntrySet
    <3> QED
      BY <2>7, <2>9, <2>10, <2>11, <3>1 DEF ShortestDepth
  <2> QED
    BY <2>5, <2>12 DEF Near
<1>10. CASE Advance
  <2>1. /\ UNCHANGED <<queue, documents, limits, entries>>
        /\ head' = head + 1 /\ pc = "follow" /\ pc' = "load" /\ head \in 1..Len(queue)
    BY <1>0, <1>10, <1>types DEF Advance, Shape, Position
  <2>2. ShortestDepth'
    BY <1>0, <2>1 DEF ShortestDepth, ReadLink, Targets, EntrySet
  <2>3. OneHopAhead'
    <3> SUFFICES ASSUME head + 1 <= Len(queue), NEW i \in DOMAIN queue
                 PROVE  queue[i].depth <= queue[head + 1].depth + 1
      BY <2>1 DEF OneHopAhead
    <3>1. queue[i].depth <= queue[head].depth + 1
      BY <1>0, <2>1 DEF OneHopAhead
    <3>2. head + 1 \in DOMAIN queue /\ head \in DOMAIN queue
      BY <1>types, <2>1
    <3>3. queue[head].depth <= queue[head + 1].depth
      BY <1>0, <1>types, <3>2 DEF Rising
    <3> QED
      BY <1>types, <3>1, <3>2, <3>3
  <2>4. Rising'
    BY <1>0, <2>1 DEF Rising
  <2> QED
    BY <2>2, <2>3, <2>4 DEF Near
<1>11. CASE Finish
  BY <1>11, <1>keep DEF Finish
<1>12. CASE Write
  BY <1>12, <1>keep DEF Write, followVars
<1>13. CASE UNCHANGED vars
  BY <1>13, <1>keep DEF vars, followVars
<1> QED
  BY <1>1, <1>2, <1>3, <1>4, <1>5, <1>6, <1>7, <1>8, <1>9, <1>10, <1>11,
     <1>12, <1>13 DEF Next, Loop

\* MaxDepth bounds hops: an item's depth is that of a shortest path to it.
THEOREM DepthsAreShortest == Spec => []ShortestDepth
<1>1. Init => Near
  BY DEF Init, LoaderInit, Near, Rising, OneHopAhead, ShortestDepth
<1>2. Near => ShortestDepth
  BY DEF Near
<1> QED
  BY <1>1, <1>2, NearNext, IInvHolds, PTL DEF Spec

-----------------------------------------------------------------------------
(***************************************************************************)
(* The answer on a file system that stays as it is.  Faithful says that    *)
(* what was read, and what was answered about paths, is still true, and    *)
(* that the counters are the sums over the loaded set.                     *)
(***************************************************************************)
EntriesFirst == \A i \in DOMAIN queue : queue[i].key \in EntrySet => queue[i].depth = 0

Remembered ==
    /\ \A i \in DOMAIN documents : documents[i].content = files[documents[i].key]
    /\ \A d \in Docs : /\ availability[d] = "exists" => StatExists(files[d])
                       /\ availability[d] = "missing" => StatMissing(files[d])
    /\ \A i \in DOMAIN queue : queue[i].key \in EntrySet \/ Followable(queue[i].key)
    /\ SumOver(LoadedKeys, Size) = bytes
    /\ SumOver(LoadedKeys, Degree) = relationships

Faithful == EntriesFirst /\ (edits = 0 => Remembered)

\* The hops that the layers are made of.
Hop(d, t) == t \in Targets(files[d]) /\ Followable(t)

LEMMA LayerIs ==
    ASSUME EntrySet \subseteq Docs
    PROVE  /\ Layer \in [Nat -> SUBSET Docs]
           /\ Layer[0] = EntrySet
           /\ \A n \in Nat : Layer[n + 1] =
                 Layer[n] \cup {t \in Docs : \E d \in Layer[n] : Hop(d, t)}
<1> DEFINE more(L) == {t \in Docs : Followable(t) /\ \E d \in L : t \in Targets(files[d])}
           h == [vn \in (SUBSET Docs) \X Nat |-> vn[1] \cup more(vn[1])]
<1>1. ASSUME NEW v \in SUBSET Docs, NEW n \in Nat
      PROVE  h[<<v, n>>] = v \cup more(v) /\ h[<<v, n>>] \in SUBSET Docs
  OBVIOUS
<1>2. PICK g \in [Nat -> SUBSET Docs] : Steps(g, Nat, EntrySet, h)
  <2>1. IsInitial(Nat)
    BY DEF IsInitial
  <2> HIDE DEF h
  <2> QED
    BY <1>1, <2>1, StepsExist
<1>3. ASSUME NEW n \in Nat
      PROVE  g[n] = IF n = 0 THEN EntrySet ELSE g[n - 1] \cup more(g[n - 1])
  <2>1. g[n] = IF n = 0 THEN EntrySet ELSE h[<<g[n - 1], n>>]
    BY <1>2 DEF Steps
  <2>2. n # 0 => g[n - 1] \in SUBSET Docs
    OBVIOUS
  <2> HIDE DEF h, more
  <2> QED
    BY <1>1, <2>1, <2>2
<1> DEFINE IsLayer(f) == f = [n \in Nat |-> IF n = 0 THEN EntrySet
              ELSE f[n - 1] \cup {t \in Docs : Followable(t) /\ \E d \in f[n - 1] : t \in Targets(files[d])}]
<1>4. IsLayer(g)
  <2>1. g = [n \in Nat |-> g[n]]
    OBVIOUS
  <2> QED
    BY <1>3, <2>1
<1>5. Layer = CHOOSE f : IsLayer(f)
  BY DEF Layer
<1>6. IsLayer(Layer)
  <2> HIDE DEF IsLayer
  <2> QED
    BY <1>4, <1>5
<1>7. Layer[0] = EntrySet /\ \A n \in Nat : Layer[n + 1] = Layer[n] \cup more(Layer[n])
  <2>1. \A n \in Nat : n + 1 # 0 /\ n + 1 \in Nat /\ (n + 1) - 1 = n
    OBVIOUS
  <2> QED
    BY <1>6, <2>1
<1>8. Nat \subseteq {n \in Nat : Layer[n] \in SUBSET Docs}
  <2> DEFINE S == {n \in Nat : Layer[n] \in SUBSET Docs}
  <2>1. 0 \in S
    BY <1>7
  <2>2. \A n \in Nat : n \in S => n + 1 \in S
    BY <1>7
  <2> HIDE DEF S
  <2>3. Nat \subseteq S
    BY <2>1, <2>2, NatSetInduction
  <2> QED
    BY <2>3 DEF S
<1>9. Layer \in [Nat -> SUBSET Docs]
  <2>1. Layer = [n \in Nat |-> Layer[n]]
    BY <1>6
  <2> HIDE DEF IsLayer
  <2> QED
    BY <1>8, <2>1
<1>10. \A n \in Nat : more(Layer[n]) = {t \in Docs : \E d \in Layer[n] : Hop(d, t)}
  BY DEF Hop
<1> QED
  BY <1>7, <1>9, <1>10

LEMMA LayersGrow ==
    ASSUME EntrySet \subseteq Docs, NEW m \in Nat, NEW n \in Nat, m <= n
    PROVE  Layer[m] \subseteq Layer[n]
<1> DEFINE S == {k \in Nat : m <= k => Layer[m] \subseteq Layer[k]}
<1>1. \A k \in Nat : Layer[k] \subseteq Layer[k + 1]
  BY LayerIs
<1>2. 0 \in S
  OBVIOUS
<1>3. ASSUME NEW k \in Nat, k \in S PROVE k + 1 \in S
  <2>1. m <= k + 1 => m <= k \/ m = k + 1
    OBVIOUS
  <2> QED
    BY <1>1, <1>3, <2>1
<1>4. Nat \subseteq S
  <2> HIDE DEF S
  <2> QED
    BY <1>2, <1>3, NatSetInduction
<1> QED
  BY <1>4

-----------------------------------------------------------------------------
LEMMA FaithfulNext == IInv /\ Faithful /\ [Next]_vars => Faithful'
<1> SUFFICES ASSUME IInv, Faithful, [Next]_vars PROVE Faithful'
  OBVIOUS
<1>0. Shape /\ Found /\ EntriesFirst /\ (edits = 0 => Remembered)
  BY DEF IInv, Faithful
<1> USE DEF loaderVars, fsVars, args
<1>types. /\ queue \in Seq(Item) /\ documents \in Seq(GraphDocument)
          /\ head \in Nat \ {0} /\ discovered \subseteq Docs /\ edits \in Nat
          /\ availability \in [Docs -> {"unchecked", "exists", "missing"}]
          /\ LoaderTypeOK
  BY <1>0, EditsAssumption DEF Shape, TypeOK, LoaderTypeOK, FollowTypeOK
\* A step that leaves the loaded documents and the files alone.
<1>sums. ASSUME UNCHANGED <<files, documents, bytes, relationships>>, Remembered
         PROVE  /\ SumOver(LoadedKeys, Size)' = bytes'
                /\ SumOver(LoadedKeys, Degree)' = relationships'
  <2>1. Size' = Size /\ Degree' = Degree /\ LoadedKeys' = LoadedKeys
    BY <1>sums DEF Size, Degree, LoadedKeys
  <2> QED
    BY <1>sums, <2>1 DEF Remembered
<1>same. ASSUME UNCHANGED <<files, edits, documents, bytes, relationships, queue, entries>>,
                edits = 0 => \A d \in Docs :
                   /\ availability'[d] = "exists" => StatExists(files[d])
                   /\ availability'[d] = "missing" => StatMissing(files[d])
         PROVE  Faithful'
  <2>1. EntriesFirst'
    BY <1>0, <1>same DEF EntriesFirst, EntrySet
  <2>2. ASSUME edits = 0 PROVE Remembered'
    BY <1>0, <1>same, <1>sums, <2>2 DEF Remembered, EntrySet, Followable
  <2> QED
    BY <1>same, <2>1, <2>2 DEF Faithful
<1>keep. ASSUME UNCHANGED <<files, edits, documents, bytes, relationships, queue,
                            entries, availability>>
         PROVE  Faithful'
  BY <1>0, <1>keep, <1>same DEF Remembered
<1>1. CASE Refuse
  BY <1>1, <1>keep DEF Refuse
<1>2. CASE Start
  <2>1. PICK q \in Queues : InitialQueue(q) /\ queue' = q
    BY <1>2 DEF Start
  <2>2. {queue'[i].key : i \in DOMAIN queue'} = EntrySet
    BY <1>0, <1>2, <2>1, InitialQueueItems DEF Start, Shape
  <2>3. \A i \in DOMAIN queue' : queue'[i].depth = 0
    BY <2>1 DEF InitialQueue
  <2>4. /\ UNCHANGED <<files, edits, documents, bytes, relationships, entries, availability>>
        /\ EntrySet' = EntrySet
    BY <1>2 DEF Start, EntrySet
  <2>5. EntriesFirst'
    BY <2>3 DEF EntriesFirst
  <2>6. ASSUME edits = 0 PROVE Remembered'
    BY <1>0, <1>sums, <2>2, <2>4, <2>6 DEF Remembered
  <2> QED
    BY <2>4, <2>5, <2>6 DEF Faithful
<1>3. CASE Load
  <2> DEFINE k == queue[head].key
  <2>1. /\ documents' = Append(documents, [key |-> k, content |-> files[k]])
        /\ head \in 1..Len(queue) /\ Len(documents) = head - 1
        /\ UNCHANGED <<files, edits, queue, entries, availability>>
        /\ k \in Docs
        /\ bytes' = bytes + files[k].size
        /\ relationships' = relationships + Len(files[k].links)
    BY <1>0, <1>3, LoadedNode DEF Load, Current, Shape, Position, AddDocument, Item
  <2>2. /\ DOMAIN documents' = DOMAIN documents \cup {head}
        /\ \A i \in DOMAIN documents : documents'[i] = documents[i]
        /\ documents'[head] = [key |-> k, content |-> files[k]]
    BY <1>types, <2>1
  <2>3. LoadedKeys' = LoadedKeys \cup {k}
    BY <2>2 DEF LoadedKeys
  <2>4. k \in Docs \ LoadedKeys
    <3>1. ASSUME NEW i \in DOMAIN documents, documents[i].key = k PROVE FALSE
      <4>1. i \in DOMAIN queue /\ i < head /\ queue[i].key = k
        BY <1>0, <1>types, <2>1, <3>1 DEF Found, LoadedOnce
      <4> QED
        BY <1>0, <1>types, <2>1, <4>1 DEF Found, LoadedOnce
    <3> QED
      BY <2>1, <3>1 DEF LoadedKeys
  <2>5. LoadedKeys \in SUBSET Docs
    <3>1. \A i \in DOMAIN documents : documents[i].key \in Docs
      <4>1. \A i \in DOMAIN documents : documents[i] \in GraphDocument
        BY <1>types
      <4> QED
        BY <4>1 DEF GraphDocument
    <3> QED
      BY <3>1 DEF LoadedKeys
  <2>6. Size' = Size /\ Degree' = Degree
    BY <2>1 DEF Size, Degree
  <2>7. ASSUME edits = 0
        PROVE  /\ SumOver(LoadedKeys, Size)' = bytes'
               /\ SumOver(LoadedKeys, Degree)' = relationships'
    <3> HIDE DEF k
    <3>1. /\ SumOver(LoadedKeys \cup {k}, Size) = SumOver(LoadedKeys, Size) + Size[k]
          /\ SumOver(LoadedKeys \cup {k}, Degree) = SumOver(LoadedKeys, Degree) + Degree[k]
      BY <1>types, <2>4, <2>5, SizesOfFiles DEF SumLaws
    <3>2. SumOver(LoadedKeys, Size) = bytes /\ SumOver(LoadedKeys, Degree) = relationships
      BY <1>0, <2>7 DEF Remembered
    <3>3. Size[k] = files[k].size /\ Degree[k] = Len(files[k].links)
      BY <1>types, <2>1, SizesOfFiles
    <3> QED
      BY <2>1, <2>3, <2>6, <3>1, <3>2, <3>3
  <2>8. EntriesFirst'
    BY <1>0, <2>1 DEF EntriesFirst, EntrySet
  <2>9. ASSUME edits = 0, NEW i \in DOMAIN documents'
        PROVE  documents'[i].content = files'[documents'[i].key]
    BY <1>0, <2>1, <2>2, <2>9 DEF Remembered
  <2>10. ASSUME edits = 0 PROVE Remembered'
    BY <1>0, <2>1, <2>7, <2>9, <2>10 DEF Remembered, EntrySet, Followable
  <2> QED
    BY <2>1, <2>8, <2>10 DEF Faithful
<1>4. CASE LoadFails
  BY <1>4, <1>keep DEF LoadFails
<1>5. CASE Skip
  BY <1>5, <1>keep DEF Skip
<1>6. CASE StatFails
  BY <1>6, <1>keep DEF StatFails
<1>7. CASE TargetMissing
  <2>1. Missing(Target) /\ availability' = [availability EXCEPT ![Target] = "missing"]
    BY <1>7 DEF TargetMissing
  <2>2. edits = 0 => StatMissing(files[Target])
    BY <1>0, <1>7, <2>1, TargetType DEF TargetMissing, Missing, Remembered
  <2> QED
    BY <1>0, <1>7, <1>types, <1>same, <2>1, <2>2 DEF TargetMissing, Remembered
<1>8. CASE TargetTooDeep
  <2>1. Exists(Target) /\ availability' = [availability EXCEPT ![Target] = "exists"]
    BY <1>8 DEF TargetTooDeep
  <2>2. edits = 0 => StatExists(files[Target])
    BY <1>0, <1>8, <2>1, TargetType DEF TargetTooDeep, Exists, Remembered
  <2> QED
    BY <1>0, <1>8, <1>types, <1>same, <2>1, <2>2 DEF TargetTooDeep, Remembered
<1>9. CASE TargetFound
  <2>1. /\ Target \in Docs \ discovered
        /\ Exists(Target) /\ availability' = [availability EXCEPT ![Target] = "exists"]
        /\ queue' = Append(queue, [key |-> Target, depth |-> NextDepth])
        /\ UNCHANGED <<files, edits, documents, bytes, relationships, entries>>
        /\ EntrySet \subseteq discovered
    BY <1>0, <1>9, TargetType
       DEF TargetFound, Skippable, AtRelationship, Found
  <2>2. edits = 0 => StatExists(files[Target])
    BY <1>0, <2>1 DEF Exists, Remembered
  <2>3. /\ DOMAIN queue' = DOMAIN queue \cup {Len(queue) + 1}
        /\ \A i \in DOMAIN queue : queue'[i] = queue[i]
        /\ queue'[Len(queue) + 1].key = Target
    BY <1>types, <2>1
  <2>4. EntrySet' = EntrySet
    BY <2>1 DEF EntrySet
  <2>5. EntriesFirst'
    BY <1>0, <2>1, <2>3, <2>4 DEF EntriesFirst
  <2>6. ASSUME edits = 0 PROVE Remembered'
    <3>1. \A d \in Docs : /\ availability'[d] = "exists" => StatExists(files[d])
                          /\ availability'[d] = "missing" => StatMissing(files[d])
      BY <1>0, <1>types, <2>1, <2>2, <2>6 DEF Remembered
    <3>2. \A i \in DOMAIN queue' : queue'[i].key \in EntrySet \/ Followable(queue'[i].key)
      BY <1>0, <2>2, <2>3, <2>6 DEF Remembered, Followable
    <3>3. \A i \in DOMAIN documents : documents[i].content = files[documents[i].key]
      BY <1>0, <2>6 DEF Remembered
    <3> QED
      BY <1>0, <1>sums, <2>1, <2>4, <2>6, <3>1, <3>2, <3>3 DEF Remembered, Followable
  <2> QED
    BY <2>1, <2>5, <2>6 DEF Faithful
<1>10. CASE Advance
  BY <1>10, <1>keep DEF Advance
<1>11. CASE Finish
  BY <1>11, <1>keep DEF Finish
<1>12. CASE Write
  <2>1. edits' # 0
    BY <1>12, <1>types DEF Write
  <2>2. EntriesFirst'
    BY <1>0, <1>12 DEF Write, followVars, EntriesFirst, EntrySet
  <2> QED
    BY <2>1, <2>2 DEF Faithful
<1>13. CASE UNCHANGED vars
  BY <1>13, <1>keep DEF vars, followVars
<1> QED
  BY <1>1, <1>2, <1>3, <1>4, <1>5, <1>6, <1>7, <1>8, <1>9, <1>10, <1>11,
     <1>12, <1>13 DEF Next, Loop

-----------------------------------------------------------------------------
\* The state all of the answers are given in.
Settling == IInv /\ Near /\ Faithful /\ Remembered /\ pc \in {"load", "follow"}

LEMMA SettlingTypes ==
    ASSUME Settling
    PROVE  /\ queue \in Seq(Item) /\ documents \in Seq(GraphDocument)
           /\ Len(queue) \in Nat /\ Len(documents) \in Nat /\ Len(documents) <= Len(queue)
           /\ head \in Nat \ {0}
           /\ \A i \in DOMAIN queue : queue[i].key \in Docs /\ queue[i].depth \in Nat
           /\ \A i \in DOMAIN documents : i \in DOMAIN queue /\ documents[i].key = queue[i].key
           /\ EntrySet \subseteq discovered /\ discovered \subseteq Docs
           /\ discovered = {queue[i].key : i \in DOMAIN queue}
           /\ LoadedKeys \subseteq discovered
           /\ LoaderTypeOK
<1>0. Shape /\ Found
  BY DEF Settling, IInv
<1>1. /\ queue \in Seq(Item) /\ documents \in Seq(GraphDocument)
      /\ head \in Nat \ {0} /\ discovered \subseteq Docs /\ LoaderTypeOK
  BY <1>0 DEF Shape, TypeOK, LoaderTypeOK, FollowTypeOK
<1>2. Len(queue) \in Nat /\ Len(documents) \in Nat /\ Len(documents) <= Len(queue)
  BY <1>0, <1>1 DEF Found, LoadedOnce
<1>3. \A i \in DOMAIN queue : queue[i].key \in Docs /\ queue[i].depth \in Nat
  <2>1. \A i \in DOMAIN queue : queue[i] \in Item
    BY <1>1
  <2> QED
    BY <2>1 DEF Item
<1>4. \A i \in DOMAIN documents : i \in DOMAIN queue /\ documents[i].key = queue[i].key
  BY <1>0, <1>1, <1>2 DEF Found, LoadedOnce
<1>5. /\ discovered = {queue[i].key : i \in DOMAIN queue}
      /\ EntrySet \subseteq discovered
  BY <1>0 DEF Found, Settling
<1>6. LoadedKeys \subseteq discovered
  BY <1>4, <1>5 DEF LoadedKeys
<1> QED
  BY <1>1, <1>2, <1>3, <1>4, <1>5, <1>6

\* What is queued was reached in as many hops as its depth says.
LEMMA QueuedIsReached ==
    ASSUME Settling
    PROVE  \A i \in DOMAIN queue : queue[i].key \in Layer[queue[i].depth]
<1> DEFINE S == {i \in DOMAIN queue : queue[i].key \in Layer[queue[i].depth]}
<1>0. EntrySet \subseteq Docs /\ DOMAIN queue \in SUBSET Nat
  BY SettlingTypes
<1>1. ASSUME NEW i \in DOMAIN queue, \A j \in DOMAIN queue : j < i => j \in S
      PROVE  queue[i].key \in Layer[queue[i].depth]
  <2>1. CASE queue[i].key \in EntrySet
    <3>1. Layer[0] = EntrySet
      BY <1>0, LayerIs
    <3>2. queue[i].depth = 0
      BY <2>1 DEF Settling, Faithful, EntriesFirst
    <3> QED
      BY <2>1, <3>1, <3>2
  <2>2. CASE queue[i].key \notin EntrySet
    <3>1. PICK j \in 1..(i - 1) : /\ ReadLink(queue[j].key, queue[i].key)
                                  /\ queue[i].depth = queue[j].depth + 1
      BY <2>2 DEF Settling, Near, ShortestDepth
    <3>2. j \in DOMAIN queue /\ j < i
      BY SettlingTypes, <3>1
    <3>3. queue[j].key \in Layer[queue[j].depth]
      BY <1>1, <3>2
    <3>4. queue[i].key \in Targets(files[queue[j].key])
      BY <3>1 DEF ReadLink, Settling, Remembered
    <3>5. Followable(queue[i].key)
      BY <2>2 DEF Settling, Remembered
    <3>6. queue[i].key \in Docs /\ queue[j].depth \in Nat
      BY SettlingTypes, <3>2
    <3>7. queue[i].key \in Layer[queue[j].depth + 1]
      BY <1>0, <3>3, <3>4, <3>5, <3>6, LayerIs DEF Hop
    <3> QED
      BY <3>1, <3>7
  <2> QED
    BY <2>1, <2>2
<1>2. DOMAIN queue \subseteq S
  <2>1. \A i \in DOMAIN queue : (\A j \in DOMAIN queue : j < i => j \in S) => i \in S
    BY <1>1
  <2> HIDE DEF S
  <2> QED
    BY <1>0, <2>1, NatStrongInduction
<1> QED
  BY <1>2

\* A queue without repetition is no longer than there are documents, and no
\* depth is beyond its position.
LEMMA QueueIsShort ==
    ASSUME Settling
    PROVE  /\ IsFiniteSet(discovered)
           /\ Cardinality(discovered) = Len(queue)
           /\ \A n \in 0..Len(queue) :
                /\ IsFiniteSet({queue[i].key : i \in 1..n})
                /\ Cardinality({queue[i].key : i \in 1..n}) = n
           /\ Cardinality(Docs) \in Nat
           /\ \A i \in DOMAIN queue : queue[i].depth < i
<1>0. DOMAIN queue = 1..Len(queue) /\ DOMAIN queue \in SUBSET Nat
  BY SettlingTypes
<1>1. ASSUME NEW n \in 0..Len(queue)
      PROVE  /\ IsFiniteSet({queue[i].key : i \in 1..n})
             /\ Cardinality({queue[i].key : i \in 1..n}) = n
  <2> DEFINE f == [i \in 1..n |-> queue[i].key]
  <2>1. \A i, j \in 1..n : f[i] = f[j] => i = j
    <3>1. \A i \in 1..n : i \in DOMAIN queue
      BY <1>0, SettlingTypes
    <3> QED
      BY <3>1 DEF Settling, IInv, Found, LoadedOnce
  <2>2. {queue[i].key : i \in 1..n} = FirstValues(f, n)
    BY DEF FirstValues
  <2> HIDE DEF f
  <2>3. n \in Nat
    BY SettlingTypes
  <2> QED
    BY <2>1, <2>2, <2>3, DistinctValues
<1>2. IsFiniteSet(discovered) /\ Cardinality(discovered) = Len(queue)
  <2>1. Len(queue) \in 0..Len(queue) /\ discovered = {queue[i].key : i \in 1..Len(queue)}
    BY <1>0, SettlingTypes
  <2> QED
    BY <1>1, <2>1
<1>3. Cardinality(Docs) \in Nat
  BY DocsAssumption, FS_CardinalityType
<1> DEFINE S == {i \in DOMAIN queue : queue[i].depth < i}
<1>4. ASSUME NEW i \in DOMAIN queue, \A j \in DOMAIN queue : j < i => j \in S
      PROVE  queue[i].depth < i
  <2>1. CASE queue[i].depth = 0
    BY <1>0, <2>1
  <2>2. CASE queue[i].depth # 0
    <3>1. PICK j \in 1..(i - 1) : queue[i].depth = queue[j].depth + 1
      BY <2>2 DEF Settling, Near, ShortestDepth
    <3>2. j \in DOMAIN queue /\ j < i /\ queue[j].depth \in Nat
      BY SettlingTypes, <3>1
    <3>3. queue[j].depth < j
      BY <1>4, <3>2
    <3> QED
      BY <1>0, <3>1, <3>2, <3>3
  <2> QED
    BY <2>1, <2>2
<1>5. DOMAIN queue \subseteq S
  <2>1. \A i \in DOMAIN queue : (\A j \in DOMAIN queue : j < i => j \in S) => i \in S
    BY <1>4
  <2> HIDE DEF S
  <2> QED
    BY <1>0, <2>1, NatStrongInduction
<1>6. \A i \in DOMAIN queue : queue[i].depth < i
  BY <1>5
<1> HIDE DEF S
<1> QED
  BY <1>1, <1>2, <1>3, <1>6

LEMMA DiscoveredIsReachable ==
    ASSUME Settling
    PROVE  /\ discovered \subseteq Reachable
           /\ Reachable \subseteq Docs /\ IsFiniteSet(Reachable)
           /\ Cardinality(Reachable) \in Nat
           /\ \A n \in 0..Len(queue) : n <= Cardinality(Reachable)
<1>0. EntrySet \subseteq Docs /\ Cardinality(Docs) \in Nat /\ IsFiniteSet(Docs)
  BY SettlingTypes, QueueIsShort, DocsAssumption
<1>1. Len(queue) <= Cardinality(Docs)
  <2>1. discovered \in SUBSET Docs
    BY SettlingTypes
  <2>2. Cardinality(discovered) <= Cardinality(Docs)
    BY <1>0, <2>1, FS_Subset
  <2> QED
    BY <2>2, QueueIsShort
<1>2. ASSUME NEW i \in DOMAIN queue PROVE queue[i].key \in Reachable
  <2>1. queue[i].depth \in Nat /\ queue[i].depth < i /\ i \in 1..Len(queue) /\ Len(queue) \in Nat
    BY SettlingTypes, QueueIsShort
  <2>2. queue[i].depth <= Cardinality(Docs)
    BY <1>0, <1>1, <2>1
  <2>3. Layer[queue[i].depth] \subseteq Layer[Cardinality(Docs)]
    BY <1>0, <2>1, <2>2, LayersGrow
  <2> QED
    BY <2>3, QueuedIsReached DEF Reachable
<1>3. discovered \subseteq Reachable
  BY <1>2, SettlingTypes
<1>4. Reachable \in SUBSET Docs
  BY <1>0, LayerIs DEF Reachable
<1>5. IsFiniteSet(Reachable) /\ Cardinality(Reachable) \in Nat
  BY <1>0, <1>4, FS_Subset, FS_CardinalityType
<1>6. Len(queue) <= Cardinality(Reachable)
  <2>1. discovered \in SUBSET Reachable
    BY <1>3
  <2>2. Cardinality(discovered) <= Cardinality(Reachable)
    BY <1>5, <2>1, FS_Subset
  <2> QED
    BY <2>2, QueueIsShort
<1>7. \A n \in 0..Len(queue) : n <= Cardinality(Reachable)
  BY <1>5, <1>6, SettlingTypes
<1> QED
  BY <1>3, <1>4, <1>5, <1>7

-----------------------------------------------------------------------------
\* The hops of a document whose relationships were all looked at lead to
\* what is queued.
LEMMA HopsAreFound ==
    ASSUME Settling, NEW i \in DOMAIN documents, i < head,
           NEW t \in Docs, Hop(documents[i].key, t)
    PROVE  t \in discovered
<1>1. t \in Targets(documents[i].content) /\ StatExists(files[t])
  BY DEF Hop, Settling, Remembered, Followable
<1>2. PICK j \in DOMAIN documents[i].content.links : documents[i].content.links[j] = t
  BY <1>1 DEF Targets
<1>3. t \in discovered \/ availability[t] = "missing"
  BY <1>2 DEF Settling, IInv, Covered, Accounted
<1>4. availability[t] = "missing" => StatMissing(files[t])
  BY DEF Settling, Remembered
<1> QED
  BY <1>1, <1>3, <1>4 DEF StatExists, StatMissing

LEMMA LoadedIsReachable ==
    ASSUME Settling, pc = "load", head > Len(queue)
    PROVE  LoadedKeys = Reachable
<1>1. Len(documents) = Len(queue) /\ \A i \in DOMAIN documents : i < head
  BY SettlingTypes DEF Settling, IInv, Shape, Position
<1>2. LoadedKeys = discovered
  <2>1. DOMAIN documents = DOMAIN queue
    BY <1>1, SettlingTypes
  <2> QED
    BY <2>1, SettlingTypes DEF LoadedKeys
<1> DEFINE S == {n \in Nat : Layer[n] \subseteq discovered}
<1>0. EntrySet \subseteq Docs /\ discovered \subseteq Docs /\ EntrySet \subseteq discovered
  BY SettlingTypes
<1>3. 0 \in S
  BY <1>0, LayerIs
<1>4. ASSUME NEW n \in Nat, n \in S PROVE n + 1 \in S
  <2>1. ASSUME NEW t \in Docs, NEW d \in Layer[n], Hop(d, t) PROVE t \in discovered
    <3>1. PICK i \in DOMAIN documents : documents[i].key = d
      BY <1>2, <1>4, <2>1 DEF LoadedKeys
    <3> QED
      BY <1>1, <2>1, <3>1, HopsAreFound
  <2> QED
    BY <1>0, <1>4, <2>1, LayerIs
<1>5. Nat \subseteq S
  <2> HIDE DEF S
  <2> QED
    BY <1>3, <1>4, NatSetInduction
<1>6. Cardinality(Docs) \in Nat
  BY QueueIsShort
<1>7. Reachable \subseteq discovered
  BY <1>5, <1>6 DEF Reachable
<1> QED
  BY <1>2, <1>7, DiscoveredIsReachable

\* When the head's relationships are followed, everything within its depth
\* is queued.
LEMMA NearerIsFound ==
    ASSUME Settling, pc = "follow"
    PROVE  /\ head \in DOMAIN queue
           /\ Layer[queue[head].depth] \subseteq discovered
<1>0. EntrySet \subseteq Docs /\ discovered \subseteq Docs /\ EntrySet \subseteq discovered
  BY SettlingTypes
<1>1. head \in DOMAIN queue /\ Len(documents) = head /\ queue[head].depth \in Nat
  BY SettlingTypes DEF Settling, IInv, Shape, Position
<1> DEFINE near(n) == {queue[i].key : i \in {j \in DOMAIN queue : queue[j].depth <= n}}
           S == {n \in Nat : n <= queue[head].depth => Layer[n] \subseteq near(n)}
<1>2. 0 \in S
  <2>1. ASSUME NEW d \in EntrySet PROVE d \in near(0)
    <3>1. PICK i \in DOMAIN queue : queue[i].key = d
      BY SettlingTypes
    <3>2. queue[i].depth = 0
      BY <3>1 DEF Settling, Faithful, EntriesFirst
    <3> QED
      BY <3>1, <3>2
  <2> QED
    BY <1>0, <2>1, LayerIs
<1>3. ASSUME NEW n \in Nat, n \in S, n + 1 <= queue[head].depth
      PROVE  Layer[n + 1] \subseteq near(n + 1)
  <2>0. n < queue[head].depth /\ Layer[n] \subseteq near(n)
    BY <1>1, <1>3
  <2>1. near(n) \subseteq near(n + 1)
    BY SettlingTypes
  <2>2. ASSUME NEW t \in Docs, NEW d \in Layer[n], Hop(d, t) PROVE t \in near(n + 1)
    <3>1. PICK j \in DOMAIN queue : queue[j].key = d /\ queue[j].depth <= n
      BY <2>0
    <3>2. j < head
      <4>1. j \in Nat /\ head \in Nat /\ queue[j].depth \in Nat
        BY <1>1, <3>1, SettlingTypes
      <4>2. head <= j => queue[head].depth <= queue[j].depth
        BY <1>1 DEF Settling, Near, Rising
      <4> QED
        BY <1>1, <2>0, <3>1, <4>1, <4>2
    <3>3. j \in DOMAIN documents /\ documents[j].key = d
      BY <1>1, <3>1, <3>2, SettlingTypes
    <3>4. t \in discovered
      BY <2>2, <3>2, <3>3, HopsAreFound
    <3>5. PICK i \in DOMAIN queue : queue[i].key = t
      BY <3>4, SettlingTypes
    <3>6. ReadLink(queue[j].key, queue[i].key)
      BY <2>2, <3>1, <3>3, <3>5 DEF ReadLink, Hop, Settling, Remembered
    <3>7. queue[i].depth <= queue[j].depth + 1
      BY <3>6 DEF Settling, Near, ShortestDepth
    <3>8. queue[i].depth <= n + 1
      BY <3>1, <3>7, SettlingTypes
    <3> QED
      BY <3>5, <3>8
  <2> QED
    BY <1>0, <2>0, <2>1, <2>2, LayerIs
<1>4. Nat \subseteq S
  <2>1. \A n \in Nat : n \in S => n + 1 \in S
    BY <1>3
  <2> HIDE DEF S
  <2> QED
    BY <1>2, <2>1, NatSetInduction
<1>5. Layer[queue[head].depth] \subseteq near(queue[head].depth)
  BY <1>1, <1>4
<1>6. near(queue[head].depth) \subseteq discovered
  BY SettlingTypes
<1> QED
  BY <1>1, <1>5, <1>6

-----------------------------------------------------------------------------
(***************************************************************************)
(* Each refusal has its reason.                                            *)
(***************************************************************************)
LEMMA LoadFailsForAReason ==
    ASSUME Settling, pc = "load", head <= Len(queue)
    PROVE  Warranted(AddDocumentError(Current.key))
<1> DEFINE k == queue[head].key
           S == LoadedKeys \cup {k}
<1>types. /\ limits.documents \in Int /\ limits.bytes \in Int /\ limits.relationships \in Int
          /\ bytes \in Nat /\ relationships \in Nat
  BY SettlingTypes DEF LoaderTypeOK, Limits
<1>1. head \in DOMAIN queue /\ Len(documents) = head - 1 /\ k \in Docs
  BY SettlingTypes DEF Settling, IInv, Shape, Position
<1>2. k \in Reachable /\ LoadedKeys \subseteq Reachable
  BY <1>1, SettlingTypes, DiscoveredIsReachable
<1>3. k \notin LoadedKeys
  <2>1. ASSUME NEW i \in DOMAIN documents, documents[i].key = k PROVE FALSE
    <3>1. i \in DOMAIN queue /\ i < head /\ queue[i].key = k
      BY <1>1, <2>1, SettlingTypes
    <3> QED
      BY <1>1, <3>1 DEF Settling, IInv, Found, LoadedOnce
  <2> QED
    BY <2>1 DEF LoadedKeys
<1>4. S \in SUBSET Reachable /\ Reachable \in SUBSET Docs /\ LoadedKeys \in SUBSET Docs
  BY <1>2, DiscoveredIsReachable
<1>5. SumLaws(Size) /\ SumLaws(Degree) /\ Size[k] = files[k].size /\ Degree[k] = Len(files[k].links)
      /\ Size[k] \in Nat /\ Degree[k] \in Nat
  BY <1>1, SettlingTypes, SizesOfFiles
<1>6. CASE ~RoomForDocument
  <2>1. head <= Cardinality(Reachable)
    BY <1>1, SettlingTypes, DiscoveredIsReachable
  <2>2. Cardinality(Reachable) > limits.documents
    BY <1>1, <1>6, <1>types, <2>1, DiscoveredIsReachable, SettlingTypes DEF RoomForDocument
  <2>3. AddDocumentError(Current.key) = "documents"
    BY <1>6 DEF AddDocumentError
  <2> QED
    BY <2>2, <2>3 DEF Warranted
<1>7. CASE RoomForDocument /\ files[k].kind # "file"
  <2>1. AddDocumentError(Current.key) = "io"
    BY <1>7 DEF AddDocumentError, Current
  <2> QED
    BY <1>2, <1>7, <2>1 DEF Warranted
<1>8. CASE RoomForDocument /\ files[k].kind = "file" /\ ~FitsBytes(files[k])
  <2>1. SumOver(LoadedKeys, Size) = bytes
    BY DEF Settling, Remembered
  <2>2. SumOver(S, Size) = bytes + Size[k] /\ SumOver(S, Size) <= SumOver(Reachable, Size)
    <3> HIDE DEF k
    <3> QED
      BY <1>1, <1>3, <1>4, <1>5, <2>1 DEF SumLaws
  <2>3. Size[k] > limits.bytes - bytes
    BY <1>5, <1>8, <1>types DEF FitsBytes
  <2>4. SumOver(Reachable, Size) \in Int
    BY <1>4, <1>5 DEF SumLaws
  <2>5. SumOver(Reachable, Size) > limits.bytes
    <3> HIDE DEF S, k
    <3> QED
      BY <1>5, <1>types, <2>2, <2>3, <2>4
  <2>6. AddDocumentError(Current.key) = "bytes"
    BY <1>8 DEF AddDocumentError, Current
  <2> QED
    BY <2>5, <2>6 DEF Warranted
<1>9. CASE RoomForDocument /\ files[k].kind = "file" /\ FitsBytes(files[k])
             /\ ~FitsRelationships(files[k])
  <2>1. SumOver(LoadedKeys, Degree) = relationships
    BY DEF Settling, Remembered
  <2>2. SumOver(S, Degree) = relationships + Degree[k] /\ SumOver(S, Degree) <= SumOver(Reachable, Degree)
    <3> HIDE DEF k
    <3> QED
      BY <1>1, <1>3, <1>4, <1>5, <2>1 DEF SumLaws
  <2>3. Degree[k] > limits.relationships - relationships
    BY SMTT(40), <1>5, <1>9, <1>types DEF FitsRelationships
  <2>4. SumOver(Reachable, Degree) \in Int
    BY <1>4, <1>5 DEF SumLaws
  <2>5. SumOver(Reachable, Degree) > limits.relationships
    <3> HIDE DEF S, k
    <3> QED
      BY <1>5, <1>types, <2>2, <2>3, <2>4
  <2>6. AddDocumentError(Current.key) = "relationships"
    BY <1>9 DEF AddDocumentError, Current
  <2> QED
    BY <2>5, <2>6 DEF Warranted
<1>10. CASE RoomForDocument /\ files[k].kind = "file" /\ FitsBytes(files[k])
             /\ FitsRelationships(files[k])
  <2>1. AddDocumentError(Current.key) = "none"
    BY <1>10 DEF AddDocumentError, Current
  <2> QED
    BY <2>1 DEF Warranted
<1> QED
  BY <1>6, <1>7, <1>8, <1>9, <1>10

\* The relationship being looked at starts at a document that is reachable.
LEMMA HeadIsReachable ==
    ASSUME Settling, AtRelationship, Target \in Docs
    PROVE  /\ head \in DOMAIN queue /\ queue[head].key \in Reachable
           /\ Target \in Targets(files[queue[head].key])
<1>1. /\ pc = "follow" /\ next \in 1..Len(Links) /\ Shape
      /\ Links \in Seq(Docs \cup {Elsewhere})
  BY TargetType, LinksType DEF AtRelationship, Settling, IInv
<1>2. head \in DOMAIN queue /\ head \in DOMAIN documents
  BY <1>1, SettlingTypes DEF Shape, Position
<1>3. Links = files[queue[head].key].links
  BY <1>2, SettlingTypes DEF Links, Settling, Remembered
<1>4. Target \in Targets(files[queue[head].key])
  BY <1>1, <1>3 DEF Target, Targets
<1> QED
  BY <1>2, <1>4, SettlingTypes, DiscoveredIsReachable

LEMMA TooDeepForAReason ==
    ASSUME Settling, AtRelationship, ~Skippable, Exists(Target), ~WithinDepth
    PROVE  Reachable # Layer[limits.depth]
<1>1. pc = "follow" /\ Target \in Docs \ discovered
  BY TargetType DEF Settling, IInv, AtRelationship, Skippable
<1>2. StatExists(files[Target])
  BY <1>1 DEF Exists, Settling, Remembered
<1>3. head \in DOMAIN queue /\ Layer[queue[head].depth] \subseteq discovered
  BY <1>1, NearerIsFound
<1>4. queue[head].depth = limits.depth
  <2>1. queue[head].depth <= limits.depth /\ ~(queue[head].depth + 1 <= limits.depth)
    BY <1>3 DEF WithinDepth, NextDepth, Current, Settling, Near, ShortestDepth
  <2>2. queue[head].depth \in Nat /\ limits.depth \in Int
    BY <1>3, SettlingTypes DEF LoaderTypeOK, Limits
  <2> QED
    BY <2>1, <2>2
<1> DEFINE D == queue[head].depth
<1>5. D \in Nat /\ EntrySet \subseteq Docs /\ D < head /\ head <= Len(queue) /\ Len(queue) \in Nat
      /\ Cardinality(Docs) \in Nat
  BY <1>3, SettlingTypes, QueueIsShort
<1>6. Target \in Layer[D + 1]
  <2>1. queue[head].key \in Layer[D]
    BY <1>3, QueuedIsReached
  <2>2. Hop(queue[head].key, Target)
    BY <1>1, <1>2, HeadIsReachable DEF Hop, Followable
  <2> HIDE DEF D
  <2> QED
    BY <1>1, <1>5, <2>1, <2>2, LayerIs
<1>7. D + 1 <= Cardinality(Docs)
  <2>1. Reachable \in SUBSET Docs /\ IsFiniteSet(Docs) /\ Cardinality(Reachable) \in Nat
    BY DiscoveredIsReachable, DocsAssumption
  <2>2. Cardinality(Reachable) <= Cardinality(Docs)
    BY <2>1, FS_Subset
  <2>3. D + 1 <= Cardinality(Reachable)
    <3> HIDE DEF D
    <3>0. head \in Nat
      BY SettlingTypes
    <3>1. D + 1 \in 0..Len(queue)
      BY <1>5, <3>0
    <3> QED
      BY <3>1, DiscoveredIsReachable
  <2> HIDE DEF D
  <2> QED
    BY <1>5, <2>1, <2>2, <2>3
<1>8. Target \in Reachable
  <2> HIDE DEF D
  <2>1. Layer[D + 1] \subseteq Layer[Cardinality(Docs)]
    BY <1>5, <1>7, LayersGrow
  <2> QED
    BY <1>6, <2>1 DEF Reachable
<1> QED
  BY <1>1, <1>3, <1>4, <1>8

-----------------------------------------------------------------------------
\* A load that nobody disturbs returns the reachable documents, and refuses
\* for the reason it names.
LEMMA AnswerNext ==
    IInv /\ Near /\ Faithful /\ StaticAnswer /\ [Next]_vars => StaticAnswer'
<1> SUFFICES ASSUME IInv, Near, Faithful, StaticAnswer, [Next]_vars, edits' = 0
             PROVE  Warranted(result)'
  BY DEF StaticAnswer
<1>0. Shape
  BY DEF IInv
<1> USE DEF loaderVars, fsVars, args
\* An answer that was right stays right.
<1>stays. ASSUME NEW r, UNCHANGED <<files, documents, entries, limits>>, Warranted(r)
          PROVE  Warranted(r)'
  <2>1. EntrySet' = EntrySet /\ LoadedKeys' = LoadedKeys /\ Size' = Size /\ Degree' = Degree
    BY <1>stays DEF EntrySet, LoadedKeys, Size, Degree
  <2>2. Layer' = Layer
    BY <1>stays, <2>1, Zenon DEF Layer, Followable
  <2>3. Reachable' = Reachable
    BY <2>2 DEF Reachable
  <2> QED
    BY <1>stays, <2>1, <2>2, <2>3 DEF Warranted
<1>open. ASSUME result' = "none" PROVE Warranted(result)'
  BY <1>open DEF Warranted
<1>settling. ASSUME pc \in {"load", "follow"}, edits = 0 PROVE Settling
  BY <1>settling DEF Settling, Faithful
<1>1. CASE Refuse
  BY <1>1 DEF Refuse, Warranted
<1>2. CASE Start
  BY <1>0, <1>2, <1>open DEF Start, Shape, Position
<1>3. CASE Load
  BY <1>0, <1>3, <1>open DEF Load, Shape, Position
<1>4. CASE LoadFails
  <2>1. Settling /\ head <= Len(queue) /\ pc = "load"
    BY <1>4, <1>settling DEF LoadFails
  <2>2. Warranted(AddDocumentError(Current.key))
    BY <2>1, LoadFailsForAReason
  <2>3. PICK r : r = AddDocumentError(Current.key)
    OBVIOUS
  <2>4. Warranted(r)'
    BY <1>4, <1>stays, <2>2, <2>3 DEF LoadFails
  <2> QED
    BY <1>4, <2>3, <2>4 DEF LoadFails
<1>5. CASE Skip
  BY <1>0, <1>5, <1>open DEF Skip, AtRelationship, Shape, Position
<1>6. CASE StatFails
  <2>1. Settling /\ AtRelationship /\ files[Target].kind = "forbidden" /\ ~Skippable
    BY <1>6, <1>settling DEF StatFails, AtRelationship
  <2>2. Target \in Docs
    BY <1>0, <2>1, TargetType
  <2>3. Warranted("io")
    BY <2>1, <2>2, HeadIsReachable DEF Warranted
  <2> QED
    BY <1>6, <1>stays, <2>3 DEF StatFails
<1>7. CASE TargetMissing
  BY <1>0, <1>7, <1>open DEF TargetMissing, AtRelationship, Shape, Position
<1>8. CASE TargetTooDeep
  <2>1. Settling
    BY <1>8, <1>settling DEF TargetTooDeep, AtRelationship
  <2>2. Warranted("depth")
    BY <1>8, <2>1, TooDeepForAReason DEF TargetTooDeep, Warranted
  <2> QED
    BY <1>8, <1>stays, <2>2 DEF TargetTooDeep
<1>9. CASE TargetFound
  BY <1>0, <1>9, <1>open DEF TargetFound, AtRelationship, Shape, Position
<1>10. CASE Advance
  BY <1>0, <1>10, <1>open DEF Advance, Shape, Position
<1>11. CASE Finish
  <2>1. Settling
    BY <1>11, <1>settling DEF Finish
  <2>2. Warranted("workspace")
    BY <1>11, <2>1, LoadedIsReachable DEF Finish, Warranted
  <2> QED
    BY <1>11, <1>stays, <2>2 DEF Finish
<1>12. CASE Write
  BY <1>12, <1>open DEF Write, CanEdit
<1>13. CASE UNCHANGED vars
  BY <1>13, <1>stays DEF vars, followVars, StaticAnswer
<1> QED
  BY <1>1, <1>2, <1>3, <1>4, <1>5, <1>6, <1>7, <1>8, <1>9, <1>10, <1>11,
     <1>12, <1>13 DEF Next, Loop

\* A call that nobody disturbs returns the documents that links lead to from the
\* entries, within the depth limit, and refuses for the reason it names.
THEOREM AnswersAreReachability == Spec => []StaticAnswer
<1>1. Init => Near /\ StaticAnswer
  BY DEF Init, LoaderInit, Near, Rising, OneHopAhead, ShortestDepth, StaticAnswer, Warranted
<1>2. Init => Faithful
  <2> SUFFICES ASSUME Init PROVE Faithful
    OBVIOUS
  <2>1. LoaderTypeOK
    BY ShapeInit DEF Shape, TypeOK
  <2>2. LoadedKeys = {} /\ SumOver({}, Size) = 0 /\ SumOver({}, Degree) = 0
    BY <2>1, SizesOfFiles DEF Init, LoaderInit, LoadedKeys, SumLaws
  <2> QED
    BY <2>2 DEF Init, LoaderInit, Faithful, EntriesFirst, Remembered
<1>3. Spec => []IInv
  BY IInvHolds
<1> QED
  BY <1>1, <1>2, <1>3, NearNext, FaithfulNext, AnswerNext, PTL DEF Spec

-----------------------------------------------------------------------------
(***************************************************************************)
(* Follow implements Crawl                                                 *)
(***************************************************************************)
LEMMA CrawlStep == IInv /\ [Next]_vars => [C!CrawlNext]_(C!cvars)
<1> SUFFICES ASSUME IInv, [Next]_vars PROVE [C!CrawlNext]_(C!cvars)
  OBVIOUS
<1>0. Shape /\ Found
  BY DEF IInv
<1>types. /\ queue \in Seq(Item) /\ documents \in Seq(GraphDocument)
          /\ head \in Nat \ {0} /\ discovered \subseteq Docs
  BY <1>0 DEF Shape, TypeOK, LoaderTypeOK, FollowTypeOK
<1> USE DEF loaderVars, fsVars, args, C!cvars
\* A step that leaves the queue and the documents alone shows in the answer only.
<1>same. ASSUME UNCHANGED <<queue, documents>>
         PROVE  Frontier' = Frontier /\ LoadedKeys' = LoadedKeys
  BY <1>same DEF Frontier, LoadedKeys
<1>still. ASSUME UNCHANGED <<queue, documents, result>>
          PROVE  UNCHANGED C!cvars
  BY <1>same, <1>still DEF Answer
<1>fail. ASSUME UNCHANGED <<queue, documents>>, result = "none",
                result' \notin {"none", "workspace"}
         PROVE  C!Fail
  BY <1>same, <1>fail DEF C!Fail, Answer
<1>1. CASE Refuse
  BY <1>0, <1>1, <1>fail DEF Refuse, Shape, Position, C!CrawlNext
<1>2. CASE Start
  <2>1. PICK q \in Queues : InitialQueue(q) /\ queue' = q
    BY <1>2 DEF Start
  <2>2. /\ EntrySet \subseteq Docs
        /\ queue' \in Seq(Item)
        /\ {queue'[i].key : i \in DOMAIN queue'} = EntrySet
    BY <1>0, <1>2, <2>1, InitialQueueItems DEF Start, Shape
  <2>3. /\ queue = << >> /\ documents = << >> /\ documents' = << >>
        /\ result = "none" /\ result' = "none"
    BY <1>0, <1>2 DEF Start, Shape, Position
  <2>4. Frontier = {} /\ LoadedKeys = {} /\ LoadedKeys' = {}
    BY <2>3 DEF Frontier, LoadedKeys
  <2>5. DOMAIN queue' = (Len(documents') + 1)..Len(queue')
    BY <2>2, <2>3
  <2>6. Frontier' = EntrySet
    BY <2>2, <2>5 DEF Frontier
  <2> QED
    BY <2>2, <2>3, <2>4, <2>6 DEF C!CrawlNext, C!Find, Answer
<1>3. CASE Load
  <2> DEFINE k == queue[head].key
  <2>1. /\ documents' = Append(documents, [key |-> k, content |-> files[k]])
        /\ head \in 1..Len(queue) /\ queue' = queue
        /\ Len(documents) = head - 1
    BY <1>0, <1>3, LoadedNode DEF Load, Current, Shape, Position
  <2>2. result = "none" /\ result' = "none"
    BY <1>0, <1>3 DEF Load, Shape, Position
  <2>3. LoadedKeys' = LoadedKeys \cup {k}
    <3>1. /\ DOMAIN documents' = DOMAIN documents \cup {Len(documents) + 1}
          /\ \A i \in DOMAIN documents : documents'[i] = documents[i]
          /\ documents'[Len(documents) + 1].key = k
      BY <1>types, <2>1
    <3> QED
      BY <3>1 DEF LoadedKeys
  <2>4. Frontier = {queue[i].key : i \in head..Len(queue)}
    BY <1>types, <2>1 DEF Frontier
  <2>5. Frontier' = {queue[i].key : i \in (head + 1)..Len(queue)}
    BY <1>types, <2>1 DEF Frontier
  <2>6. \A i \in (head + 1)..Len(queue) : queue[i].key # k
    BY <1>0, <1>types, <2>1 DEF Found, LoadedOnce
  <2>7. head..Len(queue) = {head} \cup ((head + 1)..Len(queue))
    BY <1>types, <2>1
  <2>8. Frontier' = Frontier \ {k} /\ k \in Frontier
    BY <2>4, <2>5, <2>6, <2>7
  <2> QED
    BY <2>2, <2>3, <2>8 DEF C!CrawlNext, C!LoadOne, Answer
<1>4. CASE LoadFails
  <2>1. AddDocumentError(Current.key) # "workspace"
    BY DEF AddDocumentError
  <2> QED
    BY <1>0, <1>4, <1>fail, <2>1 DEF LoadFails, Shape, Position, C!CrawlNext
<1>5. CASE Skip
  BY <1>5, <1>still DEF Skip
<1>6. CASE StatFails
  BY <1>0, <1>6, <1>fail DEF StatFails, AtRelationship, Shape, Position, C!CrawlNext
<1>7. CASE TargetMissing
  BY <1>7, <1>still DEF TargetMissing
<1>8. CASE TargetTooDeep
  BY <1>0, <1>8, <1>fail DEF TargetTooDeep, AtRelationship, Shape, Position, C!CrawlNext
<1>9. CASE TargetFound
  <2>1. /\ Target \in Docs \ discovered /\ documents' = documents
        /\ queue' = Append(queue, [key |-> Target, depth |-> NextDepth])
        /\ result = "none" /\ result' = "none"
    BY <1>0, <1>9, TargetType
       DEF TargetFound, Skippable, AtRelationship, Shape, Position
  <2>2. /\ Len(documents) \in Nat /\ Len(documents) <= Len(queue)
        /\ LoadedKeys \subseteq discovered
    <3>1. Len(documents) \in Nat /\ Len(documents) <= Len(queue)
      BY <1>0, <1>types DEF Found, LoadedOnce
    <3>2. DOMAIN documents \subseteq DOMAIN queue
      BY <1>types, <3>1
    <3> QED
      BY <1>0, <3>1, <3>2 DEF Found, LoadedOnce, LoadedKeys
  <2>3. /\ (Len(documents') + 1)..Len(queue')
               = ((Len(documents) + 1)..Len(queue)) \cup {Len(queue) + 1}
        /\ \A i \in (Len(documents) + 1)..Len(queue) : queue'[i] = queue[i]
        /\ queue'[Len(queue) + 1].key = Target
    BY <1>types, <2>1, <2>2
  <2>4. Frontier' = Frontier \cup {Target}
    BY <2>3 DEF Frontier
  <2>5. {Target} \in SUBSET (Docs \ LoadedKeys)
    BY <2>1, <2>2
  <2>6. LoadedKeys' = LoadedKeys /\ Answer = "pending" /\ Answer' = "pending"
    BY <2>1 DEF LoadedKeys, Answer
  <2> QED
    BY <2>4, <2>5, <2>6 DEF C!CrawlNext, C!Find
<1>10. CASE Advance
  BY <1>10, <1>still DEF Advance
<1>11. CASE Finish
  <2>1. /\ Len(documents) = Len(queue) /\ UNCHANGED <<queue, documents>>
        /\ result = "none" /\ result' = "workspace"
    BY <1>0, <1>11, <1>types DEF Finish, Shape, Position
  <2>2. Frontier = {}
    BY <1>types, <2>1 DEF Frontier
  <2> QED
    BY <1>same, <2>1, <2>2 DEF C!CrawlNext, C!Succeed, Answer
<1>12. CASE Write
  BY <1>12, <1>still DEF Write, followVars
<1>13. CASE UNCHANGED vars
  BY <1>13, <1>still DEF vars, followVars
<1> QED
  BY <1>1, <1>2, <1>3, <1>4, <1>5, <1>6, <1>7, <1>8, <1>9, <1>10, <1>11,
     <1>12, <1>13 DEF Next, Loop

\* Every behaviour of Follow is one of the abstract crawl: what is found is
\* loaded once, and a workspace is returned only when nothing found is left.
THEOREM FollowImplementsCrawl == Spec => ImplementsCrawl
<1>1. Init => C!CrawlInit
  BY DEF Init, LoaderInit, C!CrawlInit, Frontier, LoadedKeys, Answer
<1> QED
  BY <1>1, CrawlStep, IInvHolds, PTL DEF Spec, ImplementsCrawl, C!Spec

=============================================================================
