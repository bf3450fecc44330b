------------------------------- MODULE Metadata -------------------------------
(***************************************************************************)
(* What the front-matter edits promise: the metadata of a document is a    *)
(* sequence of entries in a format, and an edit changes one entry, or puts *)
(* an empty envelope there or takes it away.  The body is nobody's.        *)
(***************************************************************************)
EXTENDS Integers, Sequences
LOCAL INSTANCE SequencesExt

VARIABLES
    format,         \* "none" where there is no envelope
    entries,        \* its lines: a key, what is behind it, and whether it is a field
    body

FieldKeys == {entries[k].key : k \in {k \in DOMAIN entries : entries[k].field}}

Rename(i) ==
    /\ entries[i].field /\ entries'[i].key \notin FieldKeys
    /\ entries' = [entries EXCEPT ![i].key = entries'[i].key]

SetValue(i) ==
    /\ entries[i].field /\ entries' = [entries EXCEPT ![i].rest = entries'[i].rest]

RemoveEntry(i) == entries[i].field /\ entries' = RemoveAt(entries, i)

AppendEntry ==
    /\ entries' # << >> /\ entries = Front(entries')
    /\ Last(entries').field /\ Last(entries').key \notin FieldKeys

Entry ==
    /\ format # "none" /\ UNCHANGED format
    /\ \/ AppendEntry
       \/ \E i \in DOMAIN entries :
             RemoveEntry(i) \/ (i \in DOMAIN entries' /\ (Rename(i) \/ SetValue(i)))

AddEnvelope    == format = "none" /\ format' # "none" /\ entries' = << >>
RemoveEnvelope == format # "none" /\ format' = "none" /\ entries' = << >>

Next == (Entry \/ AddEnvelope \/ RemoveEnvelope) /\ UNCHANGED body

Spec == [][Next]_<<format, entries, body>>
=============================================================================
