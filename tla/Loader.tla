------------------------------- MODULE Loader -------------------------------
(***************************************************************************)
(* workspacefs loads Markdown documents from a file system it does not own *)
(* (an fs.FS supplied by the caller), within four budgets.  This module    *)
(* is what Scan and Follow share: the file system, which others may write  *)
(* while a load runs, the budgets, and addDocument, which opens, reads,    *)
(* parses and accounts for one document.                                   *)
(*                                                                         *)
(* A document key is a slash-separated path; the model numbers the paths   *)
(* in lexical order, the only thing the code does with their spelling once *)
(* localTarget has resolved it.  A file's content is its length and the    *)
(* targets of its relationships in source order.                           *)
(***************************************************************************)
EXTENDS Integers, Sequences, FiniteSets

CONSTANTS
    Docs,          \* the paths of the workspace
    Contents,      \* what a file can hold: records [kind, size, links]
    Elsewhere,     \* a relationship that localTarget does not resolve to a path
    MaxEdits       \* bound: writes to the file system while one load runs

ASSUME DocsAssumption == Docs \subseteq Nat /\ IsFiniteSet(Docs)

ASSUME ElsewhereAssumption == Elsewhere \notin Docs

ASSUME ContentsAssumption ==
    /\ Contents \subseteq [kind  : {"file"},
                           size  : Nat,
                           links : Seq(Docs \cup {Elsewhere})]

ASSUME EditsAssumption == MaxEdits \in Nat

(***************************************************************************)
(* What Stat and Open find at a path: nothing, a directory, a file that    *)
(* can be listed but not read ("locked"), a path whose Stat itself fails   *)
(* ("forbidden"), or a readable file.                                      *)
(***************************************************************************)
Empty(kind) == [kind |-> kind, size |-> 0, links |-> << >>]
NonFiles    == {Empty(k) : k \in {"absent", "directory", "locked", "forbidden"}}
Nodes       == Contents \cup NonFiles

Limits == [documents : Int, bytes : Int, depth : Int, relationships : Int]

\* A document of the workspace: its key and the content that was parsed.
GraphDocument == [key : Docs, content : Contents]

VARIABLES
    files,          \* the file system
    edits,          \* how often it was written during the load
    limits,         \* Options.Limits of the call
    documents,      \* workspaceLoader.documents
    bytes,          \* workspaceLoader.bytes
    relationships,  \* workspaceLoader.relationships
    result          \* "none" while the call runs, then what it returned

fsVars     == <<files, edits>>
loaderVars == <<documents, bytes, relationships>>

Failures == {"invalid", "io", "depth", "documents", "bytes", "relationships"}
Results  == {"none", "workspace"} \cup Failures

(***************************************************************************)
(* validateLimits                                                          *)
(***************************************************************************)
ValidLimits(l) ==
    /\ l.documents > 0
    /\ l.bytes > 0
    /\ l.depth >= 0
    /\ l.relationships > 0

LoaderTypeOK ==
    /\ files \in [Docs -> Nodes]
    /\ edits \in 0..MaxEdits
    /\ limits \in Limits
    /\ documents \in Seq(GraphDocument)
    /\ bytes \in Nat
    /\ relationships \in Nat
    /\ result \in Results

LoaderInit ==
    /\ edits = 0
    /\ documents = << >>
    /\ bytes = 0
    /\ relationships = 0
    /\ result = "none"

LoadedKeys == {documents[i].key : i \in DOMAIN documents}

(***************************************************************************)
(* readBounded refuses a file longer than what is left of MaxBytes: it     *)
(* reads one byte beyond the remainder, so a file that grew after Stat is  *)
(* caught when it is read.                                                 *)
(***************************************************************************)
FitsBytesWhole(n) == n.size <= limits.bytes    \* mutant: not the remainder
FitsBytes(n)      == n.size <= limits.bytes - bytes

(***************************************************************************)
(* addDocument(d), with its outcome.                                       *)
(***************************************************************************)
RoomForDocument == Len(documents) < limits.documents

FitsRelationships(n) == Len(n.links) <= limits.relationships - relationships

AddDocument(d) ==
    LET n == files[d] IN
    /\ RoomForDocument
    /\ n.kind = "file"
    /\ FitsBytes(n)
    /\ FitsRelationships(n)
    /\ bytes' = bytes + n.size
    /\ relationships' = relationships + Len(n.links)
    /\ documents' = Append(documents, [key |-> d, content |-> n])

\* The error addDocument(d) returns when it does not append: the first check
\* that fails decides.  The caller drops the loader with it.
AddDocumentError(d) ==
    LET n == files[d] IN
    CASE ~RoomForDocument -> "documents"
      [] RoomForDocument /\ n.kind # "file" -> "io"
      [] RoomForDocument /\ n.kind = "file" /\ ~FitsBytes(n) -> "bytes"
      [] RoomForDocument /\ n.kind = "file" /\ FitsBytes(n)
            /\ ~FitsRelationships(n) -> "relationships"
      [] OTHER -> "none"

\* A Go error return: the workspace is nil whatever was loaded before.
Return(r) ==
    /\ result' = r
    /\ UNCHANGED loaderVars

(***************************************************************************)
(* A sorted listing of a set of paths without repetition: what ReadDir     *)
(* returns, and what initialQueue makes of the entries.                    *)
(***************************************************************************)
Sequences(S) == UNION {[1..n -> S] : n \in 0..Cardinality(S)}

IsListing(q, S) ==
    /\ {q[i] : i \in DOMAIN q} = S
    /\ \A i, j \in DOMAIN q : i < j => q[i] < q[j]

(***************************************************************************)
(* Somebody else may write the file system while a load runs: workspacefs  *)
(* takes no lock and never writes itself.                                  *)
(***************************************************************************)
CanEdit == result = "none" /\ edits < MaxEdits

(***************************************************************************)
(* The budgets hold for what was parsed, even of a file that grew after it *)
(* was listed or stat'ed: the counters are the sums over the documents,    *)
(* and no sum is beyond its limit.                                         *)
(***************************************************************************)
Total(a) ==
    LET upTo[n \in 0..Len(a)] == IF n = 0 THEN 0 ELSE upTo[n - 1] + a[n]
    IN upTo[Len(a)]

Sizes(docs)   == [i \in DOMAIN docs |-> docs[i].content.size]
Degrees(docs) == [i \in DOMAIN docs |-> Len(docs[i].content.links)]

BudgetsHeld ==
    documents # << >> =>
        /\ Len(documents) <= limits.documents
        /\ bytes <= limits.bytes
        /\ relationships <= limits.relationships

WithinBudgets ==
    /\ BudgetsHeld
    /\ Total(Sizes(documents)) = bytes
    /\ Total(Degrees(documents)) = relationships

SumOver(S, weight) ==
    LET sum[T \in SUBSET Docs] ==
          IF T = {} THEN 0
          ELSE LET d == CHOOSE d \in T : TRUE IN weight[d] + sum[T \ {d}]
    IN sum[S]

Size   == [d \in Docs |-> files[d].size]
Degree == [d \in Docs |-> Len(files[d].links)]

Answer == CASE result = "none" -> "pending"
            [] result = "workspace" -> "workspace"
            [] OTHER -> "error"

=============================================================================
