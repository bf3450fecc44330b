------------------------------- MODULE Crawl --------------------------------
(***************************************************************************)
(* What loading a workspace promises, whoever finds the documents (Follow  *)
(* by relationships, Scan by walking directories): a document found is on  *)
(* the frontier until it is loaded, it is loaded once, nothing found is    *)
(* left out of a returned workspace, and a failed load returns nothing.    *)
(***************************************************************************)
CONSTANT Docs

VARIABLES
    frontier,   \* found, not loaded yet
    loaded,     \* parsed into the workspace
    answer      \* "pending", then "workspace" or "error"

cvars == <<frontier, loaded, answer>>

CrawlInit == frontier = {} /\ loaded = {} /\ answer = "pending"

Find ==
    /\ answer = "pending"
    /\ \E S \in SUBSET (Docs \ loaded) : frontier' = frontier \cup S
    /\ UNCHANGED <<loaded, answer>>

LoadOne ==
    /\ answer = "pending"
    /\ \E d \in frontier : /\ loaded' = loaded \cup {d}
                           /\ frontier' = frontier \ {d}
    /\ UNCHANGED answer

Succeed ==
    /\ answer = "pending"
    /\ frontier = {}
    /\ answer' = "workspace"
    /\ UNCHANGED <<frontier, loaded>>

Fail ==
    /\ answer = "pending"
    /\ answer' = "error"
    /\ UNCHANGED <<frontier, loaded>>

CrawlNext == Find \/ LoadOne \/ Succeed \/ Fail

Spec == CrawlInit /\ [][CrawlNext]_cvars

=============================================================================
