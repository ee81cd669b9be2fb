--------------------------- MODULE RequestLatency ---------------------------
(***************************************************************************)
(* The labels of client-go's request latency metric                        *)
(* (src/metrics/metrics.go): what LatencyAdapter.Observe makes of a verb   *)
(* and a URL in which client-go has put {namespace} and {name} for the     *)
(* names it knows of, and what the request really was.                     *)
(*                                                                         *)
(* A request is [method, group, namespaced, resource, named, sub]: "" is   *)
(* the core group, no resource (discovery) or no subresource.  A path is   *)
(* the sequence of its segments.                                           *)
(***************************************************************************)
EXTENDS Integers, Sequences

\* No group (that is, the core group), no resource or no subresource.
None == ""

\* What a path has in the place of a name and of a namespace.
Name == "{name}"
Namespace == "{namespace}"

\* The requests that client-go makes: an update and a subresource have a name,
\* and no part of a path is named like what the path is made of.
WellFormed(r) ==
    /\ r.namespaced \in BOOLEAN /\ r.named \in BOOLEAN
    /\ r.namespaced \/ r.named => r.resource # None
    /\ r.sub # None \/ r.method = "PUT" => r.named
    /\ r.resource \notin {"status", "finalize"}
    /\ Name \notin {r.group, r.resource, r.sub}

\* No labels: the request is not recorded.
NoLabels == [kind |-> None]

Prefix(r) == IF r.group = None THEN <<"api", "v1">> ELSE <<"apis", r.group, "v1">>

\* The path below the group and version, with the names of the objects.
Rest(r) ==
    (IF r.namespaced THEN <<"namespaces", "some-namespace">> ELSE <<>>)
        \o (IF r.resource = None THEN <<>> ELSE <<r.resource>>)
        \o (IF r.named THEN <<"some-name">> ELSE <<>>)
        \o (IF r.sub = None THEN <<>> ELSE <<r.sub>>)

\* client-go, Request.finalURLTemplate: it goes by the number of segments.
URLTemplate(r) ==
    LET rest == Rest(r)
        keeps == {"status", "finalize"}
    IN  Prefix(r) \o
        CASE Len(rest) < 2 -> rest
          [] Len(rest) = 2 -> [rest EXCEPT ![2] = Name]
          [] Len(rest) = 3 -> [rest EXCEPT ![2] = IF rest[3] \in keeps THEN Name ELSE Namespace]
          [] OTHER         -> [rest EXCEPT ![2] = Namespace,
                                           ![4] = IF @ \in keeps THEN @ ELSE Name]

-----------------------------------------------------------------------------
(* parsePath and Observe; indexes start at one here.                       *)

\* Plausible bug: the subresource is looked for where the name is.
PathSubresourceMutant(parts, kindIdx) ==
    IF Len(parts) = kindIdx + 1 THEN parts[kindIdx + 1] ELSE None

\* The segment two after the kind, if it is the last.
PathSubresource(parts, kindIdx) ==
    IF Len(parts) = kindIdx + 2 THEN parts[kindIdx + 2] ELSE None

parsePath(parts) ==
    LET groupIdx == IF parts[1] = "api" THEN 1 ELSE 2
        namespaced == parts[groupIdx + 2] = "namespaces" /\ Len(parts) > groupIdx + 3
        kindIdx == IF namespaced THEN groupIdx + 4 ELSE groupIdx + 2
    IN  IF parts[1] \notin {"api", "apis"} \/ Len(parts) < groupIdx + 2
        THEN NoLabels
        ELSE [group |-> IF groupIdx = 1 THEN None ELSE parts[groupIdx],
              version |-> parts[groupIdx + 1],
              kind |-> parts[kindIdx],
              subresource |-> PathSubresource(parts, kindIdx)]

\* The verb says what is done rather than how.
ObservedVerb(method, parts) ==
    LET named == \E i \in 1 .. Len(parts) : parts[i] = Name
    IN  CASE method = "POST"            -> "CREATE"
          [] method = "GET" /\ ~named   -> "LIST"
          [] method = "PUT" /\ ~named   -> "CREATE"
          [] method = "PUT" /\ named    -> "UPDATE"
          [] OTHER                      -> method

\* The labels that Observe gives a request, if any.
ObservedLabels(r) ==
    LET data == parsePath(URLTemplate(r))
    IN  IF data = NoLabels THEN NoLabels
        ELSE [verb |-> ObservedVerb(r.method, URLTemplate(r)),
              group |-> data.group, version |-> data.version,
              kind |-> data.kind, subresource |-> data.subresource]

-----------------------------------------------------------------------------
(* What the request was.                                                   *)

RequestVerb(r) ==
    CASE r.method = "POST"              -> "CREATE"
      [] r.method = "GET" /\ ~r.named   -> "LIST"
      [] r.method = "PUT"               -> "UPDATE"
      [] OTHER                          -> r.method

RequestLabels(r) ==
    IF r.resource = None THEN NoLabels
    ELSE [verb |-> RequestVerb(r), group |-> r.group, version |-> "v1",
          kind |-> r.resource, subresource |-> r.sub]

\* Paths in which a name cannot be told from a namespace by counting: the
\* subresources of a namespace, and those of other cluster-scoped objects
\* that client-go does not know.
Ambiguous(r) ==
    ~r.namespaced /\ r.sub # None /\ (r.resource = "namespaces" \/ r.sub \notin {"status", "finalize"})
=============================================================================
