---------------------------- MODULE MCWorkspace -----------------------------
(***************************************************************************)
(* The calls that hand control to code of the caller, in one session:      *)
(* documents are parsed with recognizers, then put into graphs, validated  *)
(* and indexed.  All callbacks are synchronous, so no call begins while    *)
(* another runs; what others do to the files in between can happen at any  *)
(* time.                                                                   *)
(***************************************************************************)
EXTENDS Knowledge, Extensions

sessionVars == <<knowledgeVars, extVars>>

SessionInit == KnowledgeInit /\ ExtInit

\* Documents are parsed first: a graph is of documents that there are.
BeforeGraphs == call = "none" /\ result = "none" /\ writes = 0

SessionNext ==
    \/ BeforeGraphs /\ ExtNext /\ UNCHANGED knowledgeVars
    \/ phase = "idle" /\ KnowledgeNext /\ UNCHANGED extVars

SessionSpec == SessionInit /\ [][SessionNext]_sessionVars

-----------------------------------------------------------------------------
(***************************************************************************)
(* Three documents: docA links twice to the same place and to an anchor of *)
(* its own, docB has two stale tables and an anchor that is there twice,   *)
(* docC a table that is up to date; or every document links once, so that  *)
(* there can be cycles.                                                    *)
(***************************************************************************)
CONSTANTS docA, docB, docC

Text(headings, ids, links, tables, unresolved) ==
    [headings |-> headings, ids |-> ids, links |-> links, tables |-> tables,
     unresolved |-> unresolved]

Link == [local |-> FALSE, to |-> "there"]

Linking(n) == Text(<<"h">>, << >>, [i \in 1..n |-> Link] \o <<Local("h")>>, <<NoTable>>, 0)
Tables     == Text(<<"h", "g">>, <<"h">>, <<Local("bad")>>, <<<<"h">>, << >>>>, 0)
UpToDate   == Text(<<"g">>, << >>, << >>, <<<<"g">>>>, 1)
Plain      == Text(<<"h">>, << >>, << >>, <<NoTable>>, 0)
Mixed      == Text(<<"g">>, << >>, <<Link>>, <<<<"g">>>>, 1)

MCNames == {"h", "g", "bad", "there"}
MCKeys  == {docA, docB, docC}
MCTexts == {Linking(2), Linking(1), Tables, UpToDate, Mixed, Plain}
MCFiles == {[k \in MCKeys |-> IF k = docA THEN Linking(2) ELSE IF k = docB THEN Tables ELSE UpToDate],
            [k \in MCKeys |-> IF k = docB THEN Mixed ELSE Linking(1)]}
MCWrites == {Plain}

MCDocumentLists == {<<docA, docB>>, <<docC, docA, docB>>, <<docA, docA>>}
MCRootLists     == {<< >>, <<docB>>, <<docC, docA>>}
MCManagedLists  ==
    {<< >>, <<[document |-> docB, heading |-> 2], [document |-> docA, heading |-> 1],
              [document |-> docB, heading |-> 1]>>}

Meta(document, aliases, tags, references) ==
    [document |-> document, aliases |-> aliases, tags |-> tags, references |-> references]

MCWords == {"x", "y", "z", "t", "bad"}
MCMetadata ==
    {<<Meta(docB, <<"x">>, <<"t">>, <<docA, docB>>), Meta(docA, <<"y", "z">>, <<"t">>, <<docB>>)>>,
     <<Meta(docC, <<"x">>, << >>, <<docB, docA>>)>>,
     <<Meta(docA, <<"x">>, << >>, << >>), Meta(docB, <<"x">>, << >>, << >>)>>,
     <<Meta(docA, <<"bad">>, << >>, << >>)>>}

\* Recognizers "x" and "y"; the id of "bad" is no token.
Extension(id, size) == [id |-> id, size |-> size]
MCRegistrations ==
    {<<Extension("x", 1), Extension("y", 2)>>, <<Extension("y", 2), Extension("x", 1)>>,
     <<Extension("x", 1), Extension("x", 1)>>, <<Extension("bad", 0)>>}
MCExtensionLimits ==
    {[nodes |-> n, bytes |-> bytes] : n \in {0, 2, 3}, bytes \in {0, 5, 8}}

Attribute(name, size) == [name |-> name, size |-> size]
MatchOf(kind, from, to, attributes) ==
    [kind |-> kind, start |-> from, end |-> to, attributes |-> attributes]
Small == MatchOf(1, 0, 2, << >>)
Large == MatchOf(1, 1, 2, <<Attribute("n", 1), Attribute("m", 1)>>)
MCMatches ==
    {<< >>, <<Small>>, <<Large>>, <<Small, Large>>, <<Small, Small, Small>>,
     <<Small, MatchOf(1, 2, 2, << >>)>>, <<Small, MatchOf(0, 0, 1, << >>)>>,
     <<MatchOf(1, 0, 1, <<Attribute("n", 1), Attribute("n", 1)>>)>>}
=============================================================================
