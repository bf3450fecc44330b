----------------------------- MODULE Extensions -----------------------------
(***************************************************************************)
(* ParseWithOptions with third-party recognizers: they are called one      *)
(* after the other on the parsed text, may fail or panic, and share one    *)
(* budget of nodes and one of metadata bytes.  What is kept of a match is  *)
(* the sizes of its texts, its range and its attributes.                   *)
(***************************************************************************)
EXTENDS Integers, FiniteSets, SequencesExt

CONSTANTS
    Registrations,   \* argument lists
    ExtensionLimits, \* budgets, each [nodes, bytes]
    Matches,         \* what a recognizer may return, each a sequence
    SourceLength

\* Of an identifier, a kind and an attribute the size of their texts is kept.
ExtensionType == [id : STRING, size : Nat]
AttributeType == [name : STRING, size : Nat]
MatchType     == [kind : Nat, start : Int, end : Int, attributes : Seq(AttributeType)]

ASSUME ExtensionAssumption ==
    /\ Registrations \subseteq Seq(ExtensionType)
    /\ ExtensionLimits \subseteq [nodes : Int, bytes : Int]
    /\ Matches \subseteq Seq(MatchType)
    /\ SourceLength \in Nat

VARIABLES
    phase,        \* "idle", "calling", "validating", "parsed" or "failed"
    extensions,   \* the extensions of the call
    extLimits,    \* its limits
    called,       \* recognizers called
    pending,      \* matches of the last one still to be validated
    nodes,        \* the extension nodes built so far
    metadataBytes,
    returned      \* history: every match that was returned, by extension

extVars == <<phase, extensions, extLimits, called, pending, nodes, metadataBytes, returned>>

ExtInit ==
    /\ phase = "idle"
    /\ extensions = << >> /\ extLimits = [nodes |-> 0, bytes |-> 0]
    /\ called = 0 /\ pending = << >> /\ nodes = << >> /\ metadataBytes = 0
    /\ returned = << >>

(***************************************************************************)
(* validateExtensionOptions.  An id of size 0 stands for one that is no    *)
(* token.                                                                  *)
(***************************************************************************)
ValidOptions(registered, chosen) ==
    /\ chosen.nodes > 0 /\ chosen.bytes > 0
    /\ \A i \in DOMAIN registered : registered[i].size > 0
    /\ \A i, j \in DOMAIN registered : registered[i].id = registered[j].id => i = j

ParseWithOptions(registered, chosen) ==
    /\ phase = "idle"
    /\ registered # << >>
    /\ phase' = IF ValidOptions(registered, chosen) THEN "calling" ELSE "failed"
    /\ extensions' = registered /\ extLimits' = chosen
    /\ UNCHANGED <<called, pending, nodes, metadataBytes, returned>>

\* A call that fails returns no document: nothing it built is seen.
FailParse ==
    /\ phase' = "failed"
    /\ nodes' = << >> /\ metadataBytes' = 0 /\ pending' = << >>
    /\ UNCHANGED <<extensions, extLimits, called, returned>>

More == phase = "calling" /\ called < Len(extensions)

\* callExtensionRecognizer: the error or the panic becomes an error.
RecognizerFails == More /\ FailParse

TooManyForAll(matches)  == Len(matches) > extLimits.nodes       \* mutant
TooManyMatches(matches) == Len(matches) > extLimits.nodes - Len(nodes)

RecognizerExceeds(matches) ==
    /\ More /\ TooManyMatches(matches)
    /\ FailParse

RecognizerReturns(matches) ==
    /\ More /\ ~TooManyMatches(matches)
    /\ called' = called + 1
    /\ pending' = matches
    /\ phase' = IF matches = << >> THEN "calling" ELSE "validating"
    /\ returned' = Append(returned, matches)
    /\ UNCHANGED <<extensions, extLimits, nodes, metadataBytes>>

(***************************************************************************)
(* validateExtensionMatch: id and kind first, then attribute by attribute; *)
(* cloneExtensionAttributes gives up at the first that does not fit.       *)
(***************************************************************************)
Match == Head(pending)

NodeBytes(size, match) ==
    LET used[i \in 0..Len(match.attributes)] ==
            IF i = 0 THEN size + match.kind
            ELSE used[i - 1] + match.attributes[i].size
    IN used[Len(match.attributes)]

ValidMatch(size, match, budget) ==
    /\ match.kind > 0
    /\ 0 <= match.start /\ match.start < match.end /\ match.end <= SourceLength
    /\ \A i, j \in DOMAIN match.attributes :
          match.attributes[i].name = match.attributes[j].name => i = j
    /\ NodeBytes(size, match) <= budget

Budget == extLimits.bytes - metadataBytes

AcceptMatch ==
    /\ phase = "validating"
    /\ ValidMatch(extensions[called].size, Match, Budget)
    /\ nodes' = Append(nodes, [extension |-> extensions[called].id, match |-> Match])
    /\ metadataBytes' = metadataBytes + NodeBytes(extensions[called].size, Match)
    /\ pending' = Tail(pending)
    /\ phase' = IF Len(pending) = 1 THEN "calling" ELSE "validating"
    /\ UNCHANGED <<extensions, extLimits, called, returned>>

RejectMatch ==
    /\ phase = "validating"
    /\ ~ValidMatch(extensions[called].size, Match, Budget)
    /\ FailParse

EndParse ==
    /\ phase = "calling" /\ called = Len(extensions)
    /\ phase' = "parsed"
    /\ UNCHANGED <<extensions, extLimits, called, pending, nodes, metadataBytes, returned>>

\* The caller parses something else.
AnotherParse ==
    /\ phase \in {"parsed", "failed"}
    /\ phase' = "idle"
    /\ extensions' = << >> /\ extLimits' = [nodes |-> 0, bytes |-> 0]
    /\ called' = 0 /\ pending' = << >> /\ nodes' = << >> /\ metadataBytes' = 0
    /\ returned' = << >>

ExtNext ==
    \/ \E registered \in Registrations, chosen \in ExtensionLimits :
          ParseWithOptions(registered, chosen)
    \/ RecognizerFails
    \/ \E matches \in Matches : RecognizerExceeds(matches) \/ RecognizerReturns(matches)
    \/ AcceptMatch \/ RejectMatch \/ EndParse \/ AnotherParse

ExtSpec == ExtInit /\ [][ExtNext]_extVars

-----------------------------------------------------------------------------
(***************************************************************************)
(* Both budgets hold over all recognizers together, and a parse that       *)
(* succeeds keeps every match that was returned, in the order of           *)
(* registration and return; one that fails keeps none, however many were   *)
(* good before it did.                                                     *)
(***************************************************************************)
Tagged(extension, matches) ==
    [i \in DOMAIN matches |-> [extension |-> extension.id, match |-> matches[i]]]

AllReturned ==
    FlattenSeq([e \in DOMAIN returned |-> Tagged(extensions[e], returned[e])])

SizeOf(id) == extensions[CHOOSE i \in DOMAIN extensions : extensions[i].id = id].size

BytesOf(node) == NodeBytes(SizeOf(node.extension), node.match)

RetainedBytes ==
    LET used[i \in 0..Len(nodes)] == IF i = 0 THEN 0 ELSE used[i - 1] + BytesOf(nodes[i])
    IN used[Len(nodes)]

WithinLimits ==
    /\ phase \in {"calling", "validating", "parsed"} =>
          /\ Len(nodes) + Len(pending) <= extLimits.nodes
          /\ RetainedBytes <= extLimits.bytes
    /\ phase = "parsed" => nodes = AllReturned
    /\ phase = "failed" => nodes = << >>
=============================================================================
