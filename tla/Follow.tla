------------------------------- MODULE Follow -------------------------------
(***************************************************************************)
(* workspacefs.Follow: load the entry documents and every Markdown file    *)
(* reachable from them over local relationships, breadth first.            *)
(*                                                                         *)
(* The queue is never shortened: head walks along it, and documents is its *)
(* loaded prefix.  One step is one loop iteration's addDocument, or one    *)
(* relationship of followRelationships; between any two of them the file   *)
(* system may be written, so a target can vanish, appear, turn into a      *)
(* directory or grow between its Stat and its Open.                        *)
(***************************************************************************)
EXTENDS Loader

CONSTANTS
    EntryChoices,  \* the entries arguments a caller may pass: sequences
    BadEntry,      \* an entry that is no valid Markdown path
    LimitChoices   \* the budgets a caller may pass

ASSUME EntryAssumption ==
    /\ BadEntry \notin Docs
    /\ EntryChoices \subseteq Seq(Docs \cup {BadEntry})

ASSUME LimitAssumption == LimitChoices \subseteq Limits

Item == [key : Docs, depth : Nat]

VARIABLES
    entries,       \* the entries argument
    pc,            \* "start", "load", "follow" or "done"
    queue,         \* followItems, in discovery order
    head,          \* index of the item being loaded or followed
    next,          \* index of the relationship to follow next
    discovered,    \* the discovered map
    availability   \* the availability map: "unchecked", TRUE/FALSE as text

followVars == <<pc, queue, head, next, discovered, availability>>
args == <<entries, limits>>
vars == <<fsVars, args, loaderVars, result, followVars>>

FollowTypeOK ==
    /\ entries \in EntryChoices
    /\ pc \in {"start", "load", "follow", "done"}
    /\ queue \in Seq(Item)
    /\ head \in Nat \ {0}
    /\ next \in Nat \ {0}
    /\ discovered \subseteq Docs
    /\ availability \in [Docs -> {"unchecked", "exists", "missing"}]

TypeOK == LoaderTypeOK /\ FollowTypeOK

Init ==
    /\ LoaderInit
    /\ files \in [Docs -> Nodes]
    /\ entries \in EntryChoices
    /\ limits \in LimitChoices
    /\ pc = "start"
    /\ queue = << >>
    /\ head = 1
    /\ next = 1
    /\ discovered = {}
    /\ availability = [d \in Docs |-> "unchecked"]

-----------------------------------------------------------------------------
(***************************************************************************)
(* prepare and initialQueue: refuse bad budgets, no entries, or an entry   *)
(* that is no Markdown path; otherwise queue the entries once each, in     *)
(* lexical order, at depth 0.                                              *)
(***************************************************************************)
EntrySet == {entries[i] : i \in DOMAIN entries}

\* mutant: the entries are not checked
ValidCallAnyEntry ==
    /\ ValidLimits(limits)
    /\ entries # << >>

ValidCall ==
    /\ ValidLimits(limits)
    /\ entries # << >>
    /\ BadEntry \notin EntrySet

\* mutant: the entries are queued as they were passed, duplicates and all
InitialQueueRaw(q) ==
    /\ Len(q) = Len(entries)
    /\ \A i \in 1..Len(q) : q[i] = [key |-> entries[i], depth |-> 0]

InitialQueue(q) ==
    \E listing \in Sequences(EntrySet) :
        /\ IsListing(listing, EntrySet)
        /\ q = [i \in DOMAIN listing |-> [key |-> listing[i], depth |-> 0]]

Queues == UNION {[1..n -> [key : EntrySet, depth : {0}]] : n \in 0..Len(entries)}

Refuse ==
    /\ pc = "start"
    /\ ~ValidCall
    /\ Return("invalid")
    /\ pc' = "done"
    /\ UNCHANGED <<fsVars, args, queue, head, next, discovered, availability>>

Start ==
    /\ pc = "start"
    /\ ValidCall
    /\ \E q \in Queues : InitialQueue(q) /\ queue' = q
    /\ discovered' = EntrySet
    /\ pc' = "load"
    /\ UNCHANGED <<fsVars, args, loaderVars, result, head, next, availability>>

-----------------------------------------------------------------------------
Current == queue[head]

Load ==
    /\ pc = "load"
    /\ head <= Len(queue)
    /\ AddDocument(Current.key)
    /\ next' = 1
    /\ pc' = "follow"
    /\ UNCHANGED <<fsVars, args, result, queue, head, discovered, availability>>

\* mutant: a document that cannot be opened goes back to the end of the
\* queue, in case it is there again by then
LoadFailsPutOff ==
    /\ pc = "load"
    /\ head <= Len(queue)
    /\ AddDocumentError(Current.key) # "none"
    /\ \/ /\ AddDocumentError(Current.key) = "io"
          /\ queue' = Append(SubSeq(queue, 1, head - 1)
                               \o SubSeq(queue, head + 1, Len(queue)), Current)
          /\ UNCHANGED <<loaderVars, result, pc>>
       \/ /\ AddDocumentError(Current.key) # "io"
          /\ Return(AddDocumentError(Current.key))
          /\ pc' = "done"
          /\ UNCHANGED queue
    /\ UNCHANGED <<fsVars, args, head, next, discovered, availability>>

LoadFails ==
    /\ pc = "load"
    /\ head <= Len(queue)
    /\ AddDocumentError(Current.key) # "none"
    /\ Return(AddDocumentError(Current.key))
    /\ pc' = "done"
    /\ UNCHANGED <<fsVars, args, queue, head, next, discovered, availability>>

(***************************************************************************)
(* followRelationships, one relationship of the current document at a time *)
(***************************************************************************)
Links  == documents[head].content.links
Target == Links[next]

AtRelationship == pc = "follow" /\ next <= Len(Links)

\* Not a local Markdown path, or discovered before.
Skippable == Target = Elsewhere \/ Target \in discovered

Skip ==
    /\ AtRelationship
    /\ Skippable
    /\ next' = next + 1
    /\ UNCHANGED <<fsVars, args, loaderVars, result, pc, queue, head,
                   discovered, availability>>

(***************************************************************************)
(* targetExists: the first answer for a path is kept for the whole call.   *)
(***************************************************************************)
StatExists(n)  == n.kind \in {"file", "locked"}
StatMissing(n) == n.kind \in {"absent", "directory"}

\* mutant: only the presence of the path counts, a directory too
ExistsAnyKind(d) ==
    \/ availability[d] = "exists"
    \/ availability[d] = "unchecked" /\ files[d].kind \in {"file", "locked", "directory"}

Exists(d) ==
    \/ availability[d] = "exists"
    \/ availability[d] = "unchecked" /\ StatExists(files[d])

Missing(d) ==
    \/ availability[d] = "missing"
    \/ availability[d] = "unchecked" /\ StatMissing(files[d])

StatFails ==
    /\ AtRelationship
    /\ ~Skippable
    /\ availability[Target] = "unchecked"
    /\ files[Target].kind = "forbidden"
    /\ Return("io")
    /\ pc' = "done"
    /\ UNCHANGED <<fsVars, args, queue, head, next, discovered, availability>>

TargetMissing ==
    /\ AtRelationship
    /\ ~Skippable
    /\ Missing(Target)
    /\ availability' = [availability EXCEPT ![Target] = "missing"]
    /\ next' = next + 1
    /\ UNCHANGED <<fsVars, args, loaderVars, result, pc, queue, head, discovered>>

\* mutant: hops are counted as positions of the queue
NextDepthByPosition == head

NextDepth == Current.depth + 1

WithinDepth == NextDepth <= limits.depth

TargetTooDeep ==
    /\ AtRelationship
    /\ ~Skippable
    /\ Exists(Target)
    /\ ~WithinDepth
    /\ availability' = [availability EXCEPT ![Target] = "exists"]
    /\ Return("depth")
    /\ pc' = "done"
    /\ UNCHANGED <<fsVars, args, queue, head, next, discovered>>

\* mutant: the target is not marked, so that it can be queued again
DiscoverNothing(d) == discovered

Discover(d) == discovered \cup {d}

TargetFound ==
    /\ AtRelationship
    /\ ~Skippable
    /\ Exists(Target)
    /\ WithinDepth
    /\ availability' = [availability EXCEPT ![Target] = "exists"]
    /\ discovered' = Discover(Target)
    /\ queue' = Append(queue, [key |-> Target, depth |-> NextDepth])
    /\ next' = next + 1
    /\ UNCHANGED <<fsVars, args, loaderVars, result, pc, head>>

-----------------------------------------------------------------------------
\* mutant: the last relationship is not looked at
FollowedEarly == next >= Len(Links)

Followed == next > Len(Links)

Advance ==
    /\ pc = "follow"
    /\ Followed
    /\ head' = head + 1
    /\ pc' = "load"
    /\ UNCHANGED <<fsVars, args, loaderVars, result, queue, next, discovered,
                   availability>>

Finish ==
    /\ pc = "load"
    /\ head > Len(queue)
    /\ Return("workspace")
    /\ pc' = "done"
    /\ UNCHANGED <<fsVars, args, queue, head, next, discovered, availability>>

Loop ==
    \/ Refuse \/ Start \/ Load \/ LoadFails \/ Skip \/ StatFails
    \/ TargetMissing \/ TargetTooDeep \/ TargetFound \/ Advance \/ Finish

Write ==
    /\ CanEdit
    /\ edits' = edits + 1
    /\ \E d \in Docs, n \in Nodes :
          n # files[d] /\ files' = [files EXCEPT ![d] = n]
    /\ UNCHANGED <<args, loaderVars, result, followVars>>

Next == Loop \/ Write

Spec == Init /\ [][Next]_vars

\* The caller's goroutine runs until Follow returns.
FairSpec == Spec /\ WF_vars(Loop)

-----------------------------------------------------------------------------
(***************************************************************************)
(* Correctness                                                             *)
(***************************************************************************)
\* "Cycles are visited once": whatever links and whatever the file system
\* does meanwhile, no key is queued twice and the workspace is the queue's
\* loaded prefix, in the queue's order.
LoadedOnce ==
    /\ \A i, j \in DOMAIN queue : queue[i].key = queue[j].key => i = j
    /\ Len(documents) \in {head - 1, head}
    /\ Len(documents) <= Len(queue)
    /\ \A i \in DOMAIN documents : documents[i].key = queue[i].key

\* What workspaceResolver relies on when it calls a target outside the
\* workspace missing: a returned workspace holds every local target of its
\* documents but those that were found to be no file, and nothing was both.
Targets(n) == {n.links[i] : i \in DOMAIN n.links} \cap Docs

Settled(d) == d \in LoadedKeys \/ availability[d] = "missing"

Closed ==
    /\ \A d \in discovered : availability[d] # "missing"
    /\ result = "workspace" =>
         /\ EntrySet \subseteq LoadedKeys
         /\ \A i \in DOMAIN documents :
              \A t \in Targets(documents[i].content) : Settled(t)

\* MaxDepth bounds relationship hops: an item's depth is the length of a
\* shortest path to it from an entry over the documents as they were read.
ReadLink(d, t) == \E i \in DOMAIN documents :
    documents[i].key = d /\ t \in Targets(documents[i].content)

ShortestDepth ==
    /\ \A i \in DOMAIN queue : queue[i].depth <= limits.depth
    /\ \A i \in DOMAIN queue :
         \/ queue[i].depth = 0 /\ queue[i].key \in EntrySet
         \/ \E j \in 1..(i - 1) : /\ ReadLink(queue[j].key, queue[i].key)
                                  /\ queue[i].depth = queue[j].depth + 1
    /\ \A i, j \in DOMAIN queue :
         ReadLink(queue[j].key, queue[i].key)
            => queue[i].depth <= queue[j].depth + 1

(***************************************************************************)
(* What a load of a file system nobody writes returns, by definition: the  *)
(* layers of documents at 0, 1, 2... hops from the entries.                *)
(***************************************************************************)
Followable(d) == StatExists(files[d])

Layer[n \in Nat] ==
    IF n = 0 THEN EntrySet
    ELSE Layer[n - 1] \cup
         {t \in Docs : Followable(t) /\ \E d \in Layer[n - 1] : t \in Targets(files[d])}

Reachable == Layer[Cardinality(Docs)]

\* What an answer says about the file system and the call.
Warranted(answer) ==
    CASE answer = "workspace" -> LoadedKeys = Reachable
      [] answer = "io" ->
           \/ \E d \in Reachable : files[d].kind # "file"
           \/ \E d \in Reachable, t \in Docs :
                 t \in Targets(files[d]) /\ files[t].kind = "forbidden"
      [] answer = "documents" -> Cardinality(Reachable) > limits.documents
      [] answer = "bytes" -> SumOver(Reachable, Size) > limits.bytes
      [] answer = "relationships" -> SumOver(Reachable, Degree) > limits.relationships
      [] answer = "depth" -> Reachable # Layer[limits.depth]
      [] OTHER -> TRUE

\* A call on a file system that stays as it is returns exactly the reachable
\* documents, and refuses only for a reason: a budget is reported exceeded
\* only when the reachable documents exceed it.
StaticAnswer == edits = 0 => Warranted(result)

\* Following cycles ends: every call returns.
Returns == <>(result # "none")

(***************************************************************************)
(* Follow implements the abstract crawl: what is queued and not yet loaded *)
(* is its frontier.                                                        *)
(***************************************************************************)
Frontier == {queue[i].key : i \in (Len(documents) + 1)..Len(queue)}

C == INSTANCE Crawl WITH frontier <- Frontier, loaded <- LoadedKeys,
                         answer <- Answer

ImplementsCrawl == C!Spec

=============================================================================
