---------------------------- MODULE Bibliography ----------------------------
(***************************************************************************)
(* What the edits of links and definitions promise: a document is a list   *)
(* of definitions and a text whose links either carry their target or cite *)
(* a definition by its key.  An edit changes one definition, or one link,  *)
(* and every other link leads where it led before.                         *)
(***************************************************************************)
EXTENDS Integers, Sequences, FiniteSets
LOCAL INSTANCE SequencesExt

VARIABLES
    entries,    \* the definitions in order: key, destination, title, and
                \* whether the document shows the definition as a node
    prose       \* words, and links and paragraphs around words

vars == <<entries, prose>>

IsLink(n)  == n.kind \in {"link", "image"}
HasBody(n) == n.kind # "word"
Cites(n)   == IsLink(n) /\ n.key # << >>

KeysOf(es) == {es[i].key : i \in DOMAIN es}
Shown(es)  == KeysOf(SelectSeq(es, LAMBDA e : e.shown))

\* The first definition of a key is the one it stands for.
Target(es, k) ==
    LET i == SelectInSeq(es, LAMBDA e : e.key = k)
    IN IF i = 0 THEN << >> ELSE <<es[i].dest, es[i].title>>

\* The keys the text cites.
RECURSIVE Cited(_)
Cited(p) ==
    UNION {(IF Cites(p[i]) THEN {p[i].key} ELSE {})
             \cup (IF HasBody(p[i]) THEN Cited(p[i].label) ELSE {}) : i \in DOMAIN p}

\* The text with l cited wherever it cites k.
RECURSIVE Recited(_, _, _)
Recited(p, k, l) ==
    [i \in DOMAIN p |->
        IF ~HasBody(p[i]) THEN p[i]
        ELSE IF Cites(p[i]) /\ p[i].key = k
        THEN [p[i] EXCEPT !.label = Recited(@, k, l), !.key = l]
        ELSE [p[i] EXCEPT !.label = Recited(@, k, l)]]

\* Every reference follows the definition and still leads to it, and no
\* other reference leads elsewhere, or finds a target it did not have.
Rename ==
    \E i \in DOMAIN entries, l \in KeysOf(entries') \ Shown(entries) : LET k == entries[i].key IN
        /\ entries[i].shown
        /\ entries' = [entries EXCEPT ![i].key = l]
        /\ prose' = Recited(prose, k, l)
        /\ k \in Cited(prose) => Target(entries', l) = Target(entries, k)
        /\ \A c \in Cited(prose) \ {k} : Target(entries', c) = Target(entries, c)

\* It is the last, so that it answers nothing but references that waited.
AppendEntry ==
    \E e \in {entries'[i] : i \in DOMAIN entries'} :
        /\ e.key \notin Shown(entries)
        /\ entries' = Append(entries, e)
        /\ UNCHANGED prose

SetEntry ==
    \E i \in DOMAIN entries : \E e \in {entries'[j] : j \in DOMAIN entries' \cap {i}} :
        /\ \/ e = [entries[i] EXCEPT !.dest = e.dest]
           \/ e = [entries[i] EXCEPT !.title = e.title]
        /\ entries' = [entries EXCEPT ![i] = e]
        /\ UNCHANGED prose

\* What the text cites leads where it led before.
RemoveEntry ==
    \E i \in DOMAIN entries :
        /\ entries' = RemoveAt(entries, i)
        /\ \A k \in Cited(prose) : Target(entries', k) = Target(entries, k)
        /\ UNCHANGED prose

\* One link cites another definition, or has one part of its own replaced.
Revised(m, n) ==
    /\ IsLink(m) /\ IsLink(n)
    /\ \/ /\ Cites(m) /\ n.key \in KeysOf(entries)
          /\ n = [m EXCEPT !.key = n.key]
       \/ /\ ~Cites(m)
          /\ \/ n = [m EXCEPT !.dest = n.dest]
             \/ n = [m EXCEPT !.title = n.title]
             \/ /\ n = [m EXCEPT !.label = n.label]
                /\ \A i \in DOMAIN n.label : ~HasBody(n.label[i])

RECURSIVE OneRevised(_, _)
OneRevised(p, q) ==
    /\ DOMAIN p = DOMAIN q
    /\ \E i \in DOMAIN p :
          /\ \A j \in DOMAIN p \ {i} : p[j] = q[j]
          /\ HasBody(p[i]) /\ HasBody(q[i])
          /\ \/ Revised(p[i], q[i])
             \/ /\ q[i] = [p[i] EXCEPT !.label = q[i].label]
                /\ OneRevised(p[i].label, q[i].label)

ReviseLink ==
    /\ OneRevised(prose, prose')
    /\ UNCHANGED entries

Next == Rename \/ AppendEntry \/ SetEntry \/ RemoveEntry \/ ReviseLink

Spec == [][Next]_vars
=============================================================================
