# A TLA+ model of Marksplice

Marksplice is a Go library that reads Markdown, answers questions about it
(nodes, sections, links, a graph of documents) and prepares *minimal source
edits*: a prepared edit is a set of byte patches bound to the exact text it was
prepared on, proven against a re-parse of the text it would produce, and applied
by the caller. It also loads whole workspaces of documents from a file system.

These modules model the parts of it whose correctness rests on something that
happens over several steps, or between several parties:

* a workspace is loaded while other programs write the files;
* a prepared change outlives the snapshot it was prepared on, meets other
  changes, and is applied to a file that others write;
* an edit of a section, a list item, a table, a block, a definition, a link or the
  front matter is accepted because of a few checks of its candidate text, and those
  checks have to be enough for every text;
* code of the caller (resolvers, recognizers) runs in the middle of a call;
* what a renderer writes has to be read back as what it was written for.

Paths below are relative to `src/`.

## 1. The system

### 1.1 Components

| Component | Where | State | Operations |
|---|---|---|---|
| Workspace loader | `workspacefs/` | queue, discovered set, availability cache, counters of one call; the file system is the caller's | `Follow`, `Scan` |
| Source patches | `internal/source/source.go` | none; a `ChangeSet` is a value | `NewChangeSet`, `Compose`, `Apply` |
| Prepared changes | `internal/splice/mutation.go`, `document.go` | an immutable `Document`; `ChangeSet`s the caller holds | `newChange`, `prepareMoveCandidate`, `Apply` |
| Fragment continuity | `internal/splice/fragment_continuity.go` | none; an index built of one change | map offsets and ranges across a change; `LocalFragmentContinuity` |
| Sections | `internal/splice/sections.go`, `section_edits.go`, `section_validation.go` | derived from headings | remove, replace, insert before/after, append child, move before/after, replace body |
| Change composition | `internal/splice/change_composition.go` | none | `ComposeChanges` |
| Navigation | `internal/splice/navigation.go` | derived | slugs, fragments, tables of contents and their synchronisation |
| Reference definitions, footnotes | `reference_lifecycle.go`, `footnote_*.go` | derived | append, rename, remove, retitle |
| Lists, tables, quotes, fences, paragraphs, front matter | `internal/splice/*_edits.go`, `internal/source/` | nodes promoted from the parse | structural edits, each with its own check of the candidate |
| Links, images, inline nodes | `internal/splice/link_edits.go`, `inline_edits.go` | derived | replacements of one range |
| Native parser | `internal/parser/native/` | line cursor, open block, delimiter stack | `Parse`, `WalkSemantic` |
| Renderers | `internal/rendermarkdown`, `internal/renderhtml` | frame stacks | canonical Markdown, HTML with a source map |
| Graph, workspace validation, knowledge, queries | `api_graph.go`, `api_workspace.go`, `api_knowledge.go`, `api_query.go` | immutable indices | build, validate, repair, reachability, bounded search |
| Builder | `builder*.go` | blocks added so far | add blocks, build, prove |
| Extensions | `api_extensions.go` | none | run recognizers within budgets |

`PROJECT.json` lists all of them with their files, and says of each what is
modelled.

### 1.2 How they interact

Everything is called synchronously; the library starts no goroutine and takes no
lock. `Document`, `ChangeSet` and `Workspace` are immutable. What is concurrent
is what stands around the library:

* `workspacefs` reads an `fs.FS` in many calls (`Stat`, `ReadDir`, `Open`, read)
  that are not atomic together, and other programs write the files in between;
* a caller keeps documents and changes as values and uses them in any order;
  between `Parse` and `Apply` the file may be written. The only protection is
  the fingerprint a change carries;
* an edit parses its candidate with the same parser as the document, and
  compares. To be compared, a node has to be found in two readings of the text:
  the parser observes it, `internal/source` maps it back to bytes, and only where
  both agree it is promoted to a node that can be edited. `ComposeChanges` merges patches of several edits and compares the
  parse of the result with what the edits do alone. Continuity and the managed
  table of contents rely on positions mapped through the patches.

### 1.3 What is hard, and what has to hold

The hazards are listed in `PROJECT.json` with their lines. In short:

* **Loader.** A document found by one call is gone in the next; cycles; a cached
  answer grown stale; budgets that must hold for what was *read*, not for what
  was listed; hop counts over shortest paths. It has to load each document once,
  keep the budgets, return nothing half loaded and everything reachable, and return.
* **Patches.** Half-open ranges that touch; two patches at one place; stale
  changes; changes of different snapshots. It has to lose no update, and what
  combines has to commute.
* **Continuity.** The same arithmetic maps starts and ends, moved and unmoved
  text, one change and a combination. Whatever a change leaves alone has to be found
  where the mapping says.
* **Section edits.** Markdown reads differently next to other Markdown: a fence
  left open swallows the headings behind it, a paragraph becomes the text of a
  Setext heading, a missing line ending joins two lines. What is accepted has to
  be the edit the operation's name says.
* **Composition.** Two edits, each proven, may together make what neither makes.
* **Lists.** The parser knows items as it goes through them; the edits know them
  by their lines and their parents' lines. What a subtree calls its own
  has to be what is in the item, and an item that goes or comes must not
  join, reparent or renumber its neighbours.
* **Tables.** Rows and cells are read twice, by the parser and by the source
  mapping, and tied together by index ranges. A row that goes or comes may end its
  table or become its delimiter row; a column edit cuts every row at once.
* **Definitions and links.** What a definition says holds for links far from it,
  by a label that is compared folded; brackets nest, and a definition that comes or goes
  turns text into links. An edit of one has to leave the target of every
  other link.
* **Blocks and front matter.** A paragraph that comes or goes lets lists join,
  lazy lines join quotes, underlines make headings; the envelope of the front
  matter is Markdown to the block parser.
* **Workspace.** The resolver may contradict itself and files are written between
  a validation and its repairs. Graph, report and indexes have to agree with
  what was answered, and repairs may overwrite only what they were made for.
* **Extensions.** Recognizers share budgets, may fail or panic; a parse keeps
  all of what they return or nothing.
* **Inline content.** The delimiter resolver is an index for speed, and
  canonical rendering searches for markers with pruning, also for speed. Neither
  may change an answer.

## 2. The modules

```
Crawl      <-- refines --  Follow  \__ both extend Loader
           <-- refines --  Scan    /

Source  <-- Continuity <-- Changes                 (any ranges, file, writers)
        <-- Markdown
SectionEdits = Markdown + Continuity               -- refines --> Outline
Navigation   = SectionEdits + heading edits, anchors, tables of contents

Graph <-- Workspace <-- Knowledge \__ MCWorkspace
                        Extensions /

Blocks + Source <-- Snapshot <-- Editing
    Editing <-- ListItems                          -- refines --> ItemForest
            <-- Tables                             -- refines --> Grids
            <-- BlockEdits                         -- refines --> BlockSequence
                                                   -- refines --> Metadata

Definitions + Source <-- References                -- refines --> Bibliography
Delimiters <-- CanonicalInline

Foundations = Source + induction      (what every proof rests on)
    <-- Loader_proofs <-- Follow_proofs, Scan_proofs
    <-- Changes_proofs
    <-- Knowledge_proofs
    <-- Markdown_proofs <-- Sections_proofs
```

An arrow points from a module to one that extends or instantiates it. The `MC`
modules give the constants of a run their values. `MCStructure` takes `ListItems`,
`Tables` and `BlockEdits` together; `MCWorkspace` takes `Knowledge` and `Extensions`.
`MCChanges` puts `CanonicalInline` beside `Changes`, and `MCNavigation` puts `References` beside
`Navigation`: two machines that do not touch, of which each behaviour runs one (`part`).

### 2.1 The loader

`Loader` is what `Scan` and `Follow` share: the file system as a function from
paths to nodes (absent, directory, unreadable, one whose `Stat` fails, or a file
with a size and its links), the limits, and `addDocument` with the order of its
checks (`AddDocument`, and `AddDocumentError` for the check that fails first).
Documents are numbered in lexical order, the only thing the code does with a
key once `localTarget` has resolved it; what a relationship's destination
resolves to is part of a file's content, with `Elsewhere` for what stays out.

`Follow` has one action per branch of `initialQueue`, `loadQueue` and
`followRelationships`; one relationship is one step, so a write of the file
system can come between any two calls into it. `Write` changes one path, at most
`MaxEdits` times in a call.

| State | Code |
|---|---|
| `queue`, `head` | `pending` and the loop index |
| `discovered` | `discovered` |
| `availability` | `cache`, the first answer of `targetExists` for a path |
| `next` | the position in the document's relationships |
| `documents`, `bytes`, `relationships` | `workspaceLoader` |
| `result` | what the call returned; `"none"` while it runs |

`Scan` models `fs.WalkDir` as an agenda of listed entries: `Enter` lists a
directory (in lexical order, in front of the rest) when it is *visited*, so an
entry may have gone, or have become a directory, by its turn. A write moves a
subtree away, replaces or creates a path, and keeps the file system a tree.
`touched` is a history variable that only the properties read.

`Crawl` is the abstract specification of both: what is found stays on the
frontier until it is loaded, it is loaded once, a workspace is returned only when
the frontier is empty, and a failure returns nothing.

### 2.2 Patches and changes

`Source` holds the arithmetic of `internal/source/source.go` (ordering,
conflict of neighbours, acceptance, the splice with its cursor, NUL
normalisation) and `rangeAfterPatches`. `Continuity` is `continuityChangeIndex`:
where an offset or a node's range is after a change, with relocations (moved
text) and correspondences (rewritten nodes).

`Changes` puts them between a caller, a file and another writer. `Prepare`,
`PrepareMove` and `PrepareRewrite` are the three ways the code builds a change
(one patch; a removal and an insertion with a relocation; a heading edit with a
correspondence) over *any* range, so what holds there holds of every operation
built on them. `Parse`, `Compose`, `Save`, `Discard` and `Write` are the life of
a change. SHA-256 is taken as free of collisions: a text is its own fingerprint.

### 2.3 Sections

`Markdown` is the block parser as far as section edits can disturb it. A text is
a sequence of tokens: line endings, ATX headings, fences, Setext underlines,
reference definitions, other text. `Blocks` reads line by line with one block
open, as `blocks.go` does; `Sections` is `buildSections` with its stack.

`SectionEdits` has one action per `Prepare` operation, with every check the code
makes of the candidate (`validateOriginalSectionHeadings`,
`validateInsertedSectionFragment`, `validateMovedSectionSubtree`, ...), plus
`PrepareAppendReferenceDefinition`, `ComposeChanges` with its comparison of document
models by deltas of views, and `Apply`.

`Outline` is the abstract specification: a document is a preamble and a sequence of
sections, and every edit does to that sequence what its name says. The refinement
mapping cuts the text at its headings, line endings included, so a
step of `SectionEdits` that changes one byte outside what the edit is about is
no step of `Outline`. The one thing left out are documents in which a Setext heading's
text begins with an underline (`UnderlineTitles`, see section 6).

### 2.4 Navigation

`Navigation` puts heading edits and tables of contents beside the section edits:
the same document, the same held changes, further operations. An ATX heading is
now a marker token with title tokens behind it, so that the marker and the title
are patched apart, as the code does, and the correspondence a heading edit records is
what finds the heading again.

| Definition | Code |
|---|---|
| `HeadingAnchors`, `uniqueHeadingSlug` | the same, with the map `used` of suffixes tried |
| `Catalog`, `Resolve` | `fragmentCatalog`, `resolveFragmentFromCatalog`; a fragment with several targets is ambiguous |
| `FragmentStatus` | `LocalFragmentContinuity` for one relationship |
| `PrepareRenameHeading`, `PrepareSetHeadingLevel` | the same; markers, underlines, Setext to ATX |
| `IsTable`, `Rendered`, `renderTOC` | `tocBodyProfile` and its `render`, `renderTOC` |
| `PrepareSyncTOC`, `PrepareSyncTOCs`, `ComposeAndSyncTOC` | the same; the last is `ComposeChangesAndSyncTOC` with all its steps |

`SyncedIsFresh` says that a synchronised table would not be changed by synchronising it
once more in the text its change produces. `ContinuityTruthful` compares the
answer computed from mapped positions with one computed from *provenance*: every
token of the produced text carries the index it had in the snapshot
(`Origins`), so "the same heading" needs no arithmetic.

### 2.5 Workspaces of documents

`Graph` is the graph as the code stores it: edges in document and source order, the
range of the edges that leave a document, the positions of those that enter it.
`Workspace` has one action per link that `BuildDocumentGraph` and
`ValidateWorkspace` ask the resolver about, one for each kind of answer; an
answer may be wrong in every way the code guards against. `Write` changes a file
at any time, `ApplyRepair` is the caller's.

| State | Code |
|---|---|
| `documents`, `options` | the arguments of the call |
| `doc`, `link` | the loop indices of `BuildDocumentGraph` and of the validation |
| `resolved` | `workspaceValidationState.resolved` |
| `graph`, `diagnostics`, `repairs` | what is built so far |
| `answers` | history: what the resolver answered |

`Knowledge` lays aliases, tags and references over a finished graph
(`BuildKnowledgeIndex`). `TraversalsExact` is about every search of both APIs: from one document and
from several roots, along links and along links and references, and the documents related to one.
`KnowledgeExact` compares aliases, references and backlinks with the metadata as they were given
(`index.given`). `Extensions` is `ParseWithOptions` with recognizers: one action per
recognizer that returns, fails or exceeds its limit, one per match that is
validated. `MCWorkspace` puts them in one sequence of calls: all callbacks are
synchronous.

### 2.6 Structural edits

`Blocks` is the block parser with its containers: line loop, quotes with lazy
lines, lists and items, tables, fences, paragraphs, Setext underlines,
definitions. A text is a sequence of one-column tokens, and the parser yields
two things: the nodes the code observes, and the *tree* of containers it went
through, which the code does not keep and only the properties read.

`Snapshot` is `splice.Parse`: the envelope of the front matter with its fields, and
of the observed nodes those that the source mapping finds again byte for byte, which
alone are promoted. `Editing` is a document under edits, with what it
says to the abstract specifications: an accepted change is applied at once, its candidate is the
next snapshot. `view` is an auxiliary variable: the view of `document`, kept so
that it is computed once per state.

`ListItems`, `Tables` and `BlockEdits` (blocks and front matter) have one
action per `Prepare` operation: the patches it builds, the candidate, and every
check it makes of it. `Tables` also has the read model behind the lookups of rows and
cells. The refinements:

| Specification | State | What an edit may do |
|---|---|---|
| `ItemForest` | the promoted items, each with its line and its parent | change one tree in one place |
| `Grids` | of each table the alignments and the rows | change one alignment row, one row, one column or one cell |
| `BlockSequence` | the top-level blocks as the parser divides the text | take one out, put a paragraph in, give one another text |
| `Metadata` | format, entries, body | change one entry, put or take an empty envelope |

The views come from the tree and from the text, not from the ranges the edits
use, so that an edit that keeps its own books but joins two blocks is no step.

### 2.7 Inline content

`Delimiters` holds runs of delimiters, flanking, and two resolvers: `Resolve`
with the index of openers the code keeps (by marker and category, with versions
instead of deletions), and `CommonMark`, the search down the delimiter stack as
the specification words it. Behind them are the proofs on topologies the renderer
uses (`TopologyMatches`, `Recoverable`, `TransferFacts`).

`CanonicalInline` is canonical rendering of one paragraph: `Parse` reads it as a
tree, `RenderHost` searches for markers with a frontier of plans that
is thinned out on the way, `Emit` writes one. A text is typed token by token,
rendered, and replaced by its rendering.

### 2.8 Definitions and links

`Definitions` reads a text of bracket, quote and letter tokens as the native parser and the
source mapping do together: definitions over several lines, labels and their
folded keys, the first definition of a key, links and images direct, full, collapsed and
shortcut, which of them nest, and which reference is left without a definition.

`References` has one action per operation on them: append, rename with every
usage, remove, title added, set or taken away, destination, retarget of one
usage, and the label, destination and title of a direct link or image, each with its comparison of the
candidate (`referenceDefinitionsMatchAfterMutation`, usages, unresolved references).

`Bibliography` is the abstract specification: a list of entries (key, destination,
title) and the prose with what each link in it leads to. An edit changes one entry or one
link, and no other link leads elsewhere than before.

### 2.9 Proofs

A module `X_proofs` holds the theorems about `X`, or about the modules it extends. `Foundations` is what they
share: recursive functions over the natural numbers exist and are unique (the
`RECURSIVE` operators are written as such functions in every module that is proved
about), sums, concatenation, and what `Apply`'s loop makes of a text.

## 3. The runs

| Run | Module, cfg | What it shows |
|---|---|---|
| `follow` | `MCFollow` | `LoadedOnce`, `WithinBudgets`, `Closed`, `ShortestDepth`, `StaticAnswer`; `Follow` implements `Crawl`; every call returns |
| `scan` | `MCScan` | `WalkOrder`, `NeverMissed`, `StaticAnswer`; `Scan` implements `Crawl` |
| `changes` | `MCChanges`, `MCChanges.cfg` | `SurvivorsFollow`, `RangesFollow`, `RewrittenFollow`, `Commute`; `NoLostUpdate` with writers; of paragraphs `ResolverExact`, `RoundTrip`, `PruningExact` |
| `sections` | `MCSectionEdits`, `MCSections.cfg` | section edits implement `Outline`; `TargetsFound` for single and combined changes |
| `navigation` | `MCNavigation` | `AnchorsLeast`, `SyncedIsFresh`, `ContinuityTruthful`, `HeadingEditsLocal`; edits of definitions and links implement `Bibliography` (`EditsOneEntry`) |
| `workspace` | `MCWorkspace` | `GraphExact`, `ReportExact`, `RepairsConverge`, `TraversalsExact`, `KnowledgeExact`, `WithinLimits` |
| `structure` | `MCStructure` | `ItemsTrue`, `RowsHold`; structural edits implement `ItemForest`, `Grids`, `BlockSequence`, `Metadata` (`EditsOneTree`, `EditsOneTable`, `EditsOneBlock`, `EditsOneField`) |
| `nul`, `orphan`, `table`, `escaped`, `hidden` | `MCNul`, `MCOrphan`, `MCTable`, `MCEscaped`, `MCHidden` | the findings of section 5 |

The properties are stated next to what they are about, each with the code
behaviour in its comment.

### Bounds, and why they are enough

* **`follow`**: three documents in every combination of three contents, absent,
  directory, unreadable, and failing `Stat`. The contents give self links,
  cycles, one target twice, and a link that leaves the workspace. A path of
  length two is the shortest on which a hop count can go wrong, and three
  documents have it. `MaxEdits = 2`: a target can be found, vanish and come
  back. The limits are one ample set, one just exceeded for each budget, and an
  invalid one. The entries include a duplicate, none, and one that is no path.
* **`scan`**: five paths below the root, with a directory in a directory, a file
  that is no Markdown, and a document on every level: every relation the walk
  distinguishes. One write of a whole subtree, at any point of the walk.
* **`changes`**: four distinct bytes, or two with a NUL; every range, every pair
  of changes, every combination of up to four patches, `MaxPool = 2`. A text of
  four holds two non-empty patches with an untouched byte between them and
  around, which is every relative position of two patches and a range.
  Distinct bytes make a misplaced one visible.
  Texts of one byte are written as well (`MaxSaved`): two writes are a save and a
  foreign write in either order. The replacement character is three bytes.
* **`changes`**, paragraphs: every paragraph of up to six tokens of three markers, a letter and a space
  (two runs of up to three with text in and around them), and longer ones with
  what six tokens cannot hold: runs whose lengths add up to multiples of three, an opener used up in
  parts, tabs, line breaks, code spans, escapes.
* **`sections`**: two edits in a row, because an edit may leave a text that the
  next one trips over (an unclosed fence at the end, a missing line ending).
  Each of the five texts has one construct that makes a plain splice wrong: a
  preamble; a Setext heading a paragraph can join; a fence around a heading; a
  skipped level and no last line ending; a paragraph at the end. The fragments and bodies
  bring the same constructs in.
  Three further texts, which end their last line (see the third finding), have
  every pair of operations combined, an appended definition among them.
* **`navigation`**: every pair of operations on each of three texts, and every
  table synchronised with them. One text has a table and links to a first and a
  second "a"; one a Setext heading that the title "F" turns into a fence; one a
  heading "a-1" behind two "a", and an HTML anchor. Two operations are what it
  takes to rename or move a heading and the target of the link that led to it, or
  to change headings and the table built from them, in one change. The body that is
  given is an open fence with a link in it: only the last section can take it,
  and a section appended behind it by the other change then loses its heading.
  Renaming a heading to "h" makes the fragment of the HTML anchor ambiguous. Of the
  statuses of a link, "retargeted" and "invalid" do not arise: no edit of this
  model rewrites a destination, and none that is accepted turns a link into code.
* **`navigation`**, definitions and links: fourteen documents under one or two edits: a label over
  two lines, in two spellings, defined twice, with a bracket that has to be escaped; definitions with
  a title behind, on the next line, over two lines; references in every form, in each other, without a definition, and a text whose last line does not end. What is
  given as label, destination and title includes one that has to be escaped or refused.
* **`workspace`**: three documents. One text links twice to the same place, for
  answers that contradict each other; one has two stale tables and an anchor
  that is there twice, for two repairs of one document; with one link each there are
  all cycles of up to three. The lists of documents, roots and managed headings have
  duplicates, unknown keys and both orders, two roots among them. One write (`MaxWrites`) is enough to
  make a repair stale. Two recognizers return up to three matches each against node and byte
  budgets that are zero, just enough and just too small.
* **`structure`**: lists of two or three lines with every item and indentation that
  reads differently; tables with outer pipes and without, incomplete rows, in
  quotes, right behind each other; every pair of blocks with and without a
  blank line between; envelopes of both formats with fields, comments, complex values, doubled
  keys, and a body behind, right behind and indented. What a caller inserts is taken from the
  same constructs, so that it may be read as something else where it lands.
  `MaxEdits = 2`, because an accepted edit may leave a text whose nodes are not
  promoted any more, or one the next edit trips over. Each kind of text gets the edits of its own
  kind (`Worded`, `Fronted`, `Others`: lists and tables get each other's): edits of
  other kinds replace ranges of nodes such a text does not have.

`CHECK_DEADLOCK FALSE` is set where the modelled activity ends: a call to `Follow` or `Scan`
returns, the section model and the structural edits stop when their bounds on operations and
edits are used up, a text typed to its bound that is no paragraph has no rendering, and a
rendering that is written as it was read is not replaced (in `changes`; changes themselves never
stop). `workspace` never stops, and deadlock is checked there.

### Fairness

Only `Returns` ("every call of Follow returns") needs any. `FairSpec` assumes weak
fairness of `Loop`, the steps of the call itself: it is a loop in the caller's
goroutine with no waiting, so while it has a step to take it takes it. Nothing
is assumed of the other writers. `Returns` holds with `MaxEdits` writes; the
number of steps of a call is bounded by the paths of the workspace and the
relationships read, which the writes do not add to without bound.

## 4. What is proved

TLAPS checks the following for **every** value of the constants that satisfies the named
assumptions of the modules. They are as weak as the code's own types: finitely many documents that are
numbers (`DocsAssumption`), contents, limits and arguments of their type (`ContentsAssumption`,
`LimitAssumption`, `EntryAssumption`, `ArgumentAssumption`, `MetadataAssumption`,
`ExtensionAssumption`), a directory tree numbered in lexical order (`PathAssumption`,
`PreorderAssumption`), texts that are sequences (`TextAssumption`), tokens that are of one kind (`TokenAssumption`,
`LevelAssumption`), suffixes that differ (`SuffixAssumption`), a replacement character
without a NUL (`NulAssumption`), bounds that are numbers. TLC evaluates them on every run.

### 4.1 The loader (`Loader_proofs`, `Follow_proofs`, `Scan_proofs`)

| Theorem | Says |
|---|---|
| `TypeCorrect` | `Follow`: `Spec => []TypeOK` |
| `EachDocumentOnce` | `Follow`: `[]LoadedOnce`: no key is queued or loaded twice |
| `WorkspaceClosed` | `Follow`: `[]Closed`: a returned workspace leaves out no local target that was there |
| `BudgetsHold` | `Follow` and `Scan`: `[]WithinBudgets`: the counters are the sums of what was read, and within the limits |
| `DepthsAreShortest` | `Follow`: `[]ShortestDepth` |
| `AnswersAreReachability` | `Follow`: `[]StaticAnswer`: a call that nobody disturbs returns what links lead to within the depth |
| `LoadedInWalkOrder`, `UntouchedIsLoaded`, `AnswersAreTheTree` | `Scan`: `[]WalkOrder`, `[]NeverMissed`, `[]StaticAnswer` |
| `FollowImplementsCrawl`, `ScanImplementsCrawl` | `Spec => ImplementsCrawl` |

`Follow`'s invariant is `Shape /\ Found /\ Covered`, with `Near` and `Faithful` beside it:

* `Shape` adds to `TypeOK` the positions: at which `pc` the indices `head` and
  `next` point into the queue and into the relationships. Without it `queue[head]` has no type.
* `Found` says what the two maps hold: `discovered` is exactly the set of queued
  keys (this is why "not discovered" means "not queued" in `TargetFound`), and
  no discovered key is cached as missing.
* `Covered` says that every relationship that was looked at led to a discovered
  key or to a path cached as missing. `Closed` speaks of returned
  workspaces only and is not inductive; `Covered` is what it needs at every step,
  and at the end, with the whole queue loaded, it is `Closed`.
* `Near == Rising /\ OneHopAhead /\ ShortestDepth`: depths never fall along the queue, and
  its last is at most one hop behind the item being loaded. That is why the first
  path found to a document is a shortest one.
* `Faithful` holds while nobody writes: what is queued is what the layers of
  reachable documents hold, and budgets were exceeded for the documents named.

`Scan`'s is `Shape /\ Ordered /\ NotMissed /\ Faithful`. `Ordered`: the agenda is in walk order
and lies behind the documents loaded, and nothing on it is beneath another entry. `NotMissed`: an untouched document is loaded, on the agenda, or
beneath an entry of it that will be listed.

### 4.2 Patches and changes (`Foundations`, `Changes_proofs`)

| Theorem | Says |
|---|---|
| `InOrderIs` | sorting patches with the code's comparison puts each where it belongs and loses none |
| `SpliceIs` | what `Apply`'s loop writes, byte by byte: each patch's text, and in the gaps the old bytes, shifted by the patches before |
| `RangesAreFollowed` | `[]RangesFollow`: an untouched range keeps its bytes and is where `rangeAfterPatches` says |
| `SurvivorsAreFollowed` | `[]SurvivorsFollow`: every byte a change does not replace is where `MapOffset` says |
| `RewrittenAreFollowed` | `[]RewrittenFollow` |
| `NoUpdateIsLost` | `NoLostUpdate`: a save replaces only what its caller has seen |
| `CombinedCommute` | `[]Commute`: changes that combine do together what they do one after the other |

The invariant is that every change held is *sound*: its patches are laid out in the text of its fingerprint, a
relocation inserts what it moved, a correspondence tells of one of its patches.
For `Commute`, the first k patches of a combination are the first of each change; a patch of one
lies in a hole of the other; rebased, they lie laid out in the text between; and the two texts are
then equal byte by byte.

The theorems about `Changes` assume `TextsWithoutNul`, that no replacement holds a NUL: the run
`nul` shows that `SurvivorsFollow` is false of the code without it (first finding), and the
others rest on the same arithmetic. The *file* may
hold NULs.

### 4.3 Workspaces of documents (`Knowledge_proofs`)

| Theorem | Says |
|---|---|
| `SearchIsBreadthFirst`, `SearchFromOne` | the search visits each document that edges lead to, once, the nearer ones first, over any finite graph |
| `GraphExactHolds`, `ReportExactHolds` | `[]GraphExact`, `[]ReportExact`: graph, both indexes and report agree with the answers, whatever the resolver says |
| `RepairsConvergeHolds` | `[]RepairsConverge` |
| `TraversalsExactHolds` | `[]TraversalsExact`: searches from one document and from several roots, over links and over links and references, and the related documents of both kinds |
| `KnowledgeExactHolds` | `[]KnowledgeExact`: aliases one to one; references those given, in order; backlinks those of them with the target |
| `RecognizersWithinLimits` | `[]WithinLimits` |

`WorkspaceInv == Types /\ Positions /\ Progress` says how far a call has come: the graph and `answers` hold
exactly what the links before (`doc`, `link`) call for. `DiagnosticsInv` is the same of the
validation and its diagnostics in order, `Located` ties the answers to documents,
`KnowledgeInv == WorkspaceInv /\ IndexInv` adds the index. Recognizers: `ExtInv` says that what was
registered are the matches of the recognizers before, in order, and that the budgets hold for them.

### 4.4 Texts and sections (`Markdown_proofs`, `Sections_proofs`)

| Theorem | Says |
|---|---|
| `TextsMakeDocuments` | every text makes a document whose headings lie in order on whole lines, whose sections end at the next of their rank |
| `AnchorsAreLeast`, `AnchorsLeastHolds` | `uniqueHeadingSlug` finds the least free suffix; `NavigationSpec => []AnchorsLeast`, if every number has a suffix (`EverySuffix`) |
| `HeadingEditsLocalHolds` | `NavigationSpec => []HeadingEditsLocal` |
| `SectionEditsImplementOutline` | `Spec => ImplementsOutline`: whatever texts are edited, an accepted edit of sections, applied alone, does to the outline what its name says, and to the preamble and to every other section nothing |

* **The parser.** Its state is reduced to the headings so far, the kind of the open block
  and where it began. An invariant of the run over the lines says which lines a paragraph can come
  from; sections follow from the levels by what ends each.
* **Anchors.** For each slug all suffixes up to the last one tried are taken, and among the
  headings' names one suffix is free (there are more suffixes than headings).
* **`WellHeld`**, the invariant of the section edits and of navigation: every operation's
  patches lie in the document and in order, and their texts are texts (of `renderTOC` too).
* **Heading edits.** Before the heading two runs of the parser read the same. Where it ends
  both have no open block, so they agree behind it as well; hence the new document has the
  same number of headings, and the accepted one is the one that was meant. A Setext title keeps its
  underline below it.
* **Insertions, removals, replacements of sections.** `HeadingsKept` compares the candidate with the
  document heading by heading; the sections before the patch and behind it are found again with
  their bytes, and `SubtreeEnd` says where a removed or replaced tree ended, so the forest is spliced
  where the text was.
* **Moves** exchange two neighbouring runs of sections. `MovedText` says so byte by byte. The
  four regions of the candidate are found again one by one: what precedes by equal text, the
  moved tree by `validateMovedSectionSubtree`, the other two by their first heading and by how many
  headings there are (`SeamBegins`). The latter is where a Setext heading whose text begins with
  an underline would be read otherwise; hence `~UnderlineTitles`.
* **`OutlineHeld`**, the invariant of the refinement: with one change to a batch at most one is
  held, and its candidate is the document, an outline one edit further (`Outlined`), or
  grown by a definition at the end (`Appended`). Together with `WellHeld` and `LocalHeld` it is inductive:
  what an operation accepts is held, what is applied was held, and nothing is composed of one
  change.

### 4.5 What stays with the model checker

* `Returns`: liveness.
* The block parser with containers (`structure`), the delimiter resolver and the frontier of
  plans (`changes`) and the reader of definitions (`navigation`) are `RECURSIVE` operators, which the prover does not read, so
  no module that uses them holds a theorem: `ItemsTrue`, `RowsHold`, the refinements of `ItemForest`, `Grids`,
  `BlockSequence`, `Metadata` and `Bibliography`, `ResolverExact`, `RoundTrip`, `PruningExact`.
* `TargetsFound`, `SyncedIsFresh` and `ContinuityTruthful`: combinations of changes compared by
  deltas of views. What is proved of changes in general (4.2) and of documents (4.4) are their parts.

## 5. Findings

Five runs show the code doing something other than what its documentation says.

1. **`nul`** (`SurvivorsFollow`). A replacement with a NUL is measured before
   the NUL becomes the three bytes of U+FFFD, so everything behind it is expected
   two bytes too early per NUL (`internal/splice/fragment_continuity.go:168`).
2. **`orphan`** (`ChildrenArrive`). Removing a section combines with appending a
   child to it: the views compared do not hold the hierarchy
   (`internal/splice/change_composition.go:457`).
3. **`table`** (`TablesFollow`). The end of a table's body is mapped as if it were
   a byte of the body (`internal/splice/navigation.go:439`); it is the first byte
   of the next heading. Changing the level of that heading, or inserting a section
   right behind the table, makes `ComposeChangesAndSyncTOC` refuse, although
   nothing touched the table. Ends of ranges go the same way in `mapTargetRange`
   (`internal/splice/fragment_continuity.go:272`): an insertion right at the end
   of a heading stretches its expected range, which takes a text whose last line
   is a heading without a line ending.

4. **`escaped`** (`EditsOneTable`). The source mapping takes a pipe behind any
   backslash for escaped (`internal/source/table.go:83`), the parser counts the
   backslashes. Of the row `|c\\|d|e|` in a table of two columns the edits take
   `c\\|d` for the first cell; removing the first column puts `e` where `d`
   belongs. Likewise a backslash before the space that ends a cell is written
   right before a pipe when the columns are reordered, and escapes it.

5. **`hidden`** (`EditsOneEntry`). A reference leads to the first definition of its key,
   promoted to a node or not, but what counts as unique is only looked for among nodes
   (`internal/splice/reference_lifecycle.go:322`), and a definition with its destination on the next line
   is none. In `[a]:` / ` x` / `[a]: y`, with `[t][a]` behind them, renaming the second to `b` is
   accepted: the reference becomes `[t][b]` and leads to y instead of x, although it was not bound to
   the definition that was renamed. The comment (lines 66-67) speaks of the occurrences
   "bound to it", `docs/architecture.md:117` of failing closed on ambiguity and on
   unintended changes of relationships, and `docs/capabilities.md:33` has it that unpromoted definitions
   resolve relationships.

The passing runs keep the input of the first, the fourth and the fifth finding and of the last case of the
third out: `MCChanges` lets the *file* hold NULs but not a
replacement, the texts of `PairTexts` and `MCNavigation` end their last line, and no
row of `TableTexts` has a pipe behind two backslashes or a backslash at the end of a cell, and in
`MCDocuments` no edit gives a definition the key of a hidden one that a reference leads to.
The others need no exclusion: these runs make such edits too, and their
properties hold of them; a refusal makes no change to be wrong.

`ContinuityTruthful` is about the changes for which the index can be built. It cannot
for a change that renames a heading and inserts a section right before it (an insertion
at the start of a range counts as touching it); `LocalFragmentContinuity` then returns
an error instead of an answer.

## 6. Limits of the model

* SHA-256 never collides. Parsing and reading are total or fail as one step.
* `Definitions` has brackets, quotes, escapes and line endings as tokens; code spans, autolinks and
  raw HTML, which a bracket may stand in, are not modelled.
* `Markdown`, which the section edits and navigation use, knows no block
  quotes, HTML blocks, indented code or tables, lists only as flat items, and no
  inline grammar beyond tokens that are links. `Blocks`, which the structural edits use, has the
  containers, tables and indented code; it leaves out tabs, CR, HTML blocks, footnote
  definitions, math blocks and task markers.
* Titles are whole tokens: slugs of characters, escaped labels and percent-encoded
  fragments are not modelled. Fragments that are empty or not well formed do not
  occur. There is one kind of link and one line ending.
* `ComposeChanges` takes two changes at a time; the code takes any number.
* What a path or a link destination looks like (`localTarget`, percent
  decoding, cleaning) is not modelled, only what it resolves to.
* `Delimiters` and `CanonicalInline` have emphasis, strong emphasis, strikethrough,
  code spans, escapes and line breaks; the older renderer, which serves when no
  plan is found, is not modelled, nor is a trailing space of a paragraph whose character
  reference `escapeText` drops (`internal/rendermarkdown/render.go:3150`).

### Known cases the properties do not cover

These were met while modelling. The code does what is said here; documentation that speaks
of them allows it, or is too general to be contradicted, so they are no findings.

* A paragraph right behind a TOML envelope is one paragraph with its last line for
  the parser and missing from the document; removing the envelope is then refused. A
  fence line in an envelope swallows the body (`internal/source/frontmatter.go:41`).
  `EditsOneField` holds with such texts because the view of the body follows the
  parser.
* Renaming a field to the key of a line with a complex value, which is no field,
  makes the key stand twice; `Metadata` asks only that it is no *field*'s.
* Removing a thematic break or a paragraph between two lists joins them when the
  items of the second are not promoted; `MCStructure` has no such text.
* `PrepareReplaceParagraph` looks at the replacement on its own: `a|b` before a line `-|-`
  makes a table. `MCParagraphs` has no such replacement.
* Removing a block between an item and indented code moves the code into the item.
* In a quote, the paragraph state that decides about lazy lines is kept from before a line
  makes the paragraph a heading (`internal/parser/native/blocks.go:409-447`), so that
  `> def / x / = / y` reads `y` as part of the quote. `Blocks` does as the code does.
* A section is moved although its headings regroup. `validateSectionHeadingSequence`
  (`internal/splice/section_validation.go:352-388`) compares headings by their bytes. In the text
  `# A`, `=`, `# E`, `=`, `=` (one line each), moving the section of `# E` in front of `# A` is accepted,
  though the Setext heading that follows then begins with the paragraph of `A`;
  `docs/milestones/m16-section-subtree-move.md:77` asks that heading boundaries remain as
  they were. It takes a Setext heading whose text begins with an underline; `ImplementsOutline`
  and `TargetsFound` leave documents with one out (`UnderlineTitles`).
* Brackets in the destination or the title of a direct link, whose label is defined, are
  collected as a reference: a usage too many, and links around it are deactivated. No
  document of `MCNavigation` has one.
* The title of a definition is kept when it stands on the next line and something follows
  it there (`[b]: y` / `"q" w`), where CommonMark takes it for a paragraph. Such a
  definition cannot be edited, and the edits that compare all definitions refuse.

### Not modelled

* **Bounded queries** (`api_query.go`): filters over a finished snapshot with one
  limit; each call is a loop without state that outlives it.
* **Footnotes**: their labels, definitions and references repeat the life cycle of reference
  definitions, which `References` models, with blocks as content.
* **Inline edits, math, adding and removing the title of a direct link, construction of inline
  nodes**: the replacement of one range, proven by a second parse. The range arithmetic and the use of
  a change are those of `Changes`; what is missing is the character-level grammar.
* **HTML rendering**: one walk over events; its content is escaping.
* **Document builder**: collects values and parses once; its proof is the
  comparison of that parse with what was added.
* **Public facade**: delegates and copies.

## 7. What could come next

Models:

1. Footnotes beside the definitions in `References`: append, rename, remove, retitle.
2. The bounded queries: limits and source order over a finished snapshot.
3. The frame stacks of the two renderers over the block tree of `Blocks`: every
   element opened is closed, source ranges nest.
4. The builder: what was added against what is parsed, all or nothing.

Theorems:

* `TargetsFound` for single changes: from the outline theorems, which say where every
  heading of the candidate is;
* `SyncedIsFresh`: a synchronised table lies in one section's body, and its entries depend on headings only;
* the provenance of `ContinuityTruthful`: `Origins` against the theorems of
  `Changes_proofs` about mapped offsets;
* `Definitions` and `Blocks` with recursive functions instead of `RECURSIVE` operators, as
  `Markdown` has them, so that their refinements can be proved.
