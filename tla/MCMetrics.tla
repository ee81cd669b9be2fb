----------------------------- MODULE MCMetrics ------------------------------
(***************************************************************************)
(* Instances of Metrics: a gauge in two registries and the EMF log, a      *)
(* counter in a registry and the log, a summary in two registries, and the *)
(* client metrics.                                                         *)
(***************************************************************************)
EXTENDS Metrics

MCKind == [gauge |-> "gauge", counter |-> "counter", summary |-> "observation",
           latency |-> "observation", result |-> "counter"]

MCBackends ==
    [gauge |-> <<"prometheus", "prometheus", "emf">>, counter |-> <<"prometheus", "emf">>,
     summary |-> <<"prometheus", "prometheus">>,
     latency |-> <<"prometheus">>, result |-> <<"prometheus">>]

MCLabels == {[name |-> "n", reason |-> "r"], [name |-> "n", reason |-> "s"]}
MCPatterns == {[name |-> "n"]}
MCProperties == [cluster |-> "c"]

MCRequest(method, group, namespaced, resource, named, sub) ==
    [method |-> method, group |-> group, namespaced |-> namespaced,
     resource |-> resource, named |-> named, sub |-> sub]

MCRequests ==
    {MCRequest("GET", "", FALSE, "", FALSE, ""),
     MCRequest("GET", "", TRUE, "pods", FALSE, ""),
     MCRequest("GET", "", FALSE, "namespaces", TRUE, ""),
     MCRequest("GET", "", FALSE, "nodes", TRUE, ""),
     MCRequest("PUT", "g", FALSE, "nodeclaims", TRUE, "status"),
     MCRequest("PUT", "g", TRUE, "leases", TRUE, "status"),
     MCRequest("PUT", "", FALSE, "namespaces", TRUE, "status"),
     MCRequest("POST", "", TRUE, "pods", FALSE, "")}

MCAttempts == {<<"200">>, <<"429", "200">>}

Symmetry == Permutations(Callers)
=============================================================================
