----------------------- MODULE MCPartialUnstructured ------------------------
(***************************************************************************)
(* Instances of PartialUnstructured: objects of up to three levels.        *)
(***************************************************************************)
EXTENDS PartialUnstructured, FiniteSets

MCPaths == {<<"a">>, <<"b">>, <<"a", "a">>, <<"a", "b">>, <<"b", "a">>,
            <<"a", "a", "a">>, <<"a", "a", "b">>, <<"a", "b", "a">>}

\* Every object over these paths: no leaf contains another.
MCDocuments == {d \in SUBSET MCPaths : \A l, m \in d : Leads(l, m) => l = m}

MCFieldSets == {fs \in SUBSET MCPaths : Cardinality(fs) \in 1 .. 3}

\* Two labels of one map, as metadata.labels.x and metadata.labels.y.
Siblings == {{<<"a", "a", "a">>, <<"a", "a", "b">>}}
=============================================================================
