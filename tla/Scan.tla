-------------------------------- MODULE Scan --------------------------------
(***************************************************************************)
(* workspacefs.Scan: fs.WalkDir over the root, loading every Markdown file *)
(* it meets.  The walk lists a directory once, when it visits it, and      *)
(* visits what it listed later: between the two, files and whole           *)
(* subtrees can be written, moved away or replaced.                        *)
(*                                                                         *)
(* Paths are numbered in the order of the walk, a directory before what is *)
(* below it.                                                               *)
(***************************************************************************)
EXTENDS Loader

CONSTANTS
    Root,          \* the path "."
    Parent,        \* the directory of each path
    Markdown,      \* the paths isMarkdownPath accepts
    LimitChoices   \* the budgets a caller may pass

ASSUME PathAssumption ==
    /\ Root \in Docs \ Markdown
    /\ Markdown \subseteq Docs
    /\ Parent \in [Docs -> Docs]
    /\ Parent[Root] = Root
    /\ \A p \in Docs \ {Root} : Parent[p] < p

ASSUME LimitAssumption == LimitChoices \subseteq Limits

Ancestors[p \in Docs] ==
    IF p = Root THEN {} ELSE {Parent[p]} \cup Ancestors[Parent[p]]

\* What is below a path comes right after it.
ASSUME PreorderAssumption ==
    \A p, q, r \in Docs : p < q /\ q < r /\ p \in Ancestors[r] => p \in Ancestors[q]

directoryDepth(p) == Cardinality(Ancestors[p])
documentDepth(p)  == Cardinality(Ancestors[p]) - 1

\* fs.DirEntry: the path and whether it was a directory when it was listed.
DirEntry == [path : Docs, isDir : BOOLEAN]

VARIABLES
    pc,        \* "start", "walk" or "done"
    agenda,    \* the entries WalkDir still has to visit, in order
    touched    \* history: the paths written since the call began

vars == <<fsVars, limits, loaderVars, result, pc, agenda, touched>>

Directory == Empty("directory")
Absent    == Empty("absent")

\* A path exists only below a directory; WalkDir never calls Stat on an entry.
IsTree(f) ==
    /\ f[Root] = Directory
    /\ \A p \in Docs :
          /\ f[p].kind # "forbidden"
          /\ f[p] # Absent => f[Parent[p]] = Directory

TypeOK ==
    /\ LoaderTypeOK
    /\ IsTree(files)
    /\ pc \in {"start", "walk", "done"}
    /\ agenda \in Seq(DirEntry)
    /\ LoadedKeys \subseteq Markdown
    /\ touched \subseteq Docs

Init ==
    /\ LoaderInit
    /\ files \in {f \in [Docs -> Nodes] : IsTree(f)}
    /\ limits \in LimitChoices
    /\ pc = "start"
    /\ agenda = << >>
    /\ touched = {}

-----------------------------------------------------------------------------
Stop(r) ==
    /\ Return(r)
    /\ pc' = "done"
    /\ UNCHANGED <<fsVars, limits, agenda, touched>>

Refuse ==
    /\ pc = "start"
    /\ ~ValidLimits(limits)
    /\ Stop("invalid")

Start ==
    /\ pc = "start"
    /\ ValidLimits(limits)
    /\ pc' = "walk"
    /\ agenda' = <<[path |-> Root, isDir |-> TRUE]>>
    /\ UNCHANGED <<fsVars, limits, loaderVars, result, touched>>

Visiting == pc = "walk" /\ agenda # << >>
Entry    == Head(agenda)
Rest     == Tail(agenda)

(***************************************************************************)
(* scanEntry of a directory, then WalkDir's ReadDir of it                  *)
(***************************************************************************)
DirTooDeep(p) == p # Root /\ directoryDepth(p) > limits.depth

EnterTooDeep ==
    /\ Visiting /\ Entry.isDir
    /\ DirTooDeep(Entry.path)
    /\ Stop("depth")

\* mutant: the walk ends quietly where a directory cannot be read
EnterFailsQuietly ==
    /\ Visiting /\ Entry.isDir
    /\ ~DirTooDeep(Entry.path)
    /\ files[Entry.path] # Directory
    /\ Stop("workspace")

\* The directory was moved away or replaced since it was listed: ReadDir
\* fails, and scanEntry returns the walk's error.
EnterFails ==
    /\ Visiting /\ Entry.isDir
    /\ ~DirTooDeep(Entry.path)
    /\ files[Entry.path] # Directory
    /\ Stop("io")

Children(p) == {q \in Docs \ {Root} : Parent[q] = p /\ files[q] # Absent}

\* mutant: a directory's listing is visited after its siblings
VisitLater(listing, rest) == rest \o listing

VisitFirst(listing, rest) == listing \o rest

Enter ==
    /\ Visiting /\ Entry.isDir
    /\ ~DirTooDeep(Entry.path)
    /\ files[Entry.path] = Directory
    /\ \E q \in Sequences(Children(Entry.path)) :
          /\ IsListing(q, Children(Entry.path))
          /\ agenda' = VisitFirst([i \in DOMAIN q |->
                            [path |-> q[i], isDir |-> files[q[i]] = Directory]], Rest)
    /\ UNCHANGED <<fsVars, limits, loaderVars, result, pc, touched>>

(***************************************************************************)
(* scanEntry of anything else                                              *)
(***************************************************************************)
Ignore ==
    /\ Visiting /\ ~Entry.isDir
    /\ Entry.path \notin Markdown
    /\ agenda' = Rest
    /\ UNCHANGED <<fsVars, limits, loaderVars, result, pc, touched>>

\* mutant: whatever is no directory is loaded
AtAnyFile == Visiting /\ ~Entry.isDir

AtDocument == Visiting /\ ~Entry.isDir /\ Entry.path \in Markdown

\* mutant: the file itself is counted as a level, as it is for a directory
DocTooDeepByLevel(p) == directoryDepth(p) > limits.depth

DocTooDeep(p) == documentDepth(p) > limits.depth

Load ==
    /\ AtDocument
    /\ ~DocTooDeep(Entry.path)
    /\ AddDocument(Entry.path)
    /\ agenda' = Rest
    /\ UNCHANGED <<fsVars, limits, result, pc, touched>>

\* The document's own depth is checked before it is added.  In a walk the
\* check never decides: the document's directory is as deep, and was entered.
DocumentError(p) == IF DocTooDeep(p) THEN "depth" ELSE AddDocumentError(p)

LoadFails ==
    /\ AtDocument
    /\ DocumentError(Entry.path) # "none"
    /\ Stop(DocumentError(Entry.path))

\* mutant: off by one
WalkEndedEarly == Len(agenda) <= 1

WalkEnded == agenda = << >>

Finish ==
    /\ pc = "walk"
    /\ WalkEnded
    /\ Stop("workspace")

Walk ==
    \/ Refuse \/ Start \/ EnterTooDeep \/ EnterFails \/ Enter \/ Ignore
    \/ Load \/ LoadFails \/ Finish

\* Whatever is put at a path, what was below it is gone with it.
Write ==
    /\ CanEdit
    /\ edits' = edits + 1
    /\ \E p \in Docs \ {Root}, n \in Nodes :
          LET f == [q \in Docs |-> IF q = p THEN n
                                   ELSE IF p \in Ancestors[q] THEN Absent
                                   ELSE files[q]]
          IN  /\ f # files /\ IsTree(f)
              /\ files' = f
              /\ touched' = touched \cup {q \in Docs : f[q] # files[q]}
    /\ UNCHANGED <<limits, loaderVars, result, pc, agenda>>

Next == Walk \/ Write

Spec == Init /\ [][Next]_vars

-----------------------------------------------------------------------------
(***************************************************************************)
(* Correctness                                                             *)
(***************************************************************************)
\* Documents come in walk order and none twice, also when directories are
\* written while the walk is in them.
WalkOrder ==
    \A i, j \in DOMAIN documents : i < j => documents[i].key < documents[j].key

\* A document nobody touched during the walk is never missed, whatever
\* happened around it, and what was read of it is what is there.
NeverMissed ==
    result = "workspace" =>
        \A p \in Markdown :
            /\ files[p].kind = "file"
            /\ (Ancestors[p] \cup {p}) \cap touched = {}
            => \E i \in DOMAIN documents :
                  documents[i] = [key |-> p, content |-> files[p]]

IsDocument(p) == p \in Markdown /\ files[p] \notin {Absent, Directory}

AllDocuments == {p \in Docs : IsDocument(p)}

\* What an answer says about the file system and the call.
Warranted(answer) ==
    CASE answer = "workspace" ->
            /\ LoadedKeys = AllDocuments
            /\ \A p \in AllDocuments : documentDepth(p) <= limits.depth
      [] answer = "io" -> \E p \in AllDocuments : files[p].kind # "file"
      [] answer = "depth" ->
            \/ \E p \in AllDocuments : documentDepth(p) > limits.depth
            \/ \E p \in Docs : files[p] = Directory /\ directoryDepth(p) > limits.depth
      [] answer = "documents" -> Cardinality(AllDocuments) > limits.documents
      [] answer = "bytes" -> SumOver(AllDocuments, Size) > limits.bytes
      [] answer = "relationships" -> SumOver(AllDocuments, Degree) > limits.relationships
      [] OTHER -> TRUE

\* On a file system that stays as it is, Scan returns exactly the Markdown
\* files, and refuses only for a reason: an unreadable document, a directory
\* or document beyond MaxDepth, a budget that all documents together exceed.
StaticAnswer == edits = 0 => Warranted(result)

\* Scan implements the abstract crawl: the listed documents not yet visited
\* are its frontier.
Frontier == {p \in Markdown : \E i \in DOMAIN agenda :
                                 agenda[i] = [path |-> p, isDir |-> FALSE]}

C == INSTANCE Crawl WITH frontier <- Frontier, loaded <- LoadedKeys,
                         answer <- Answer

ImplementsCrawl == C!Spec

=============================================================================
