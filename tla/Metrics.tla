------------------------------ MODULE Metrics -------------------------------
(***************************************************************************)
(* Metrics kept in several backends (src/metrics/multi.go, prometheus.go,  *)
(* src/aws/metrics/emf.go) and the client-go metrics that feed them        *)
(* (src/metrics/metrics.go).                                               *)
(*                                                                         *)
(* A call on a metric goes to its backends one after the other, and two    *)
(* goroutines' calls interleave between backends: there is no lock around  *)
(* the loop.  A Prometheus vector keeps one value for each label set; an   *)
(* EMF backend only writes entries to a log.  The value of a histogram or  *)
(* a summary is abstracted to its number of observations.                  *)
(***************************************************************************)
EXTENDS RequestLatency, SequencesExt

CONSTANTS
    Callers,       \* goroutines
    Kind,          \* metric |-> "counter", "gauge" or "observation"
    Backends,      \* metric |-> its backends, "prometheus" or "emf", in order
    Labels,        \* label sets of the metrics called directly
    Patterns,      \* label sets for partial matches
    Values,        \* values of gauges and increments of counters
    Properties,    \* the properties an EMF metric adds to those of a call
    Requests,      \* requests of client-go
    Attempts,      \* status codes of the attempts at one request, in order
    MaxCalls       \* bound on the number of calls

Metrics == DOMAIN Kind

AllKinds == {"counter", "gauge", "observation"}

ASSUME MetricsAssumption ==
    /\ IsFiniteSet(Callers)
    /\ \A m \in Metrics : Kind[m] \in AllKinds
    /\ DOMAIN Backends = Metrics
    /\ \A m \in Metrics : Backends[m] \in Seq({"prometheus", "emf"})
    /\ \A v \in Values : v \in Int
    /\ \A r \in Requests : WellFormed(r)
    /\ \A codes \in Attempts : codes \in Seq(STRING)
    /\ MaxCalls \in Nat

\* The metrics of RegisterClientMetrics; the others are called directly.
ClientMetrics == {"latency", "result"}

\* Label set l has every label of p.
Extends(l, p) == \A k \in DOMAIN p : k \in DOMAIN l /\ l[k] = p[k]

\* A vector is made with the names of its labels, so none of its label sets
\* extends another; additional properties hide no label.
ASSUME LabelsAssumption ==
    /\ \A l, k \in Labels : Extends(l, k) => l = k
    /\ \A l \in Labels : DOMAIN l \cap DOMAIN Properties = {}

\* The client metrics go to Prometheus alone.
ASSUME ClientMetricsRegistered ==
    /\ ClientMetrics \subseteq Metrics
    /\ Kind["latency"] = "observation" /\ Kind["result"] = "counter"
    /\ \A m \in ClientMetrics : Backends[m] = <<"prometheus">>

VARIABLES
    vec,           \* metric |-> backend |-> label set |-> value
    log,           \* metric |-> backend |-> entries written
    todo,          \* caller |-> what is left of its call
    calls,         \* number of calls made
    contended,     \* history: series of which two updates may have crossed
    dropped,       \* history: series that a call has dropped
    served         \* history: the requests made, with their answers

vars == <<vec, log, todo, calls, contended, dropped, served>>

Of(m, backend) == {i \in DOMAIN Backends[m] : Backends[m][i] = backend}

-----------------------------------------------------------------------------
(* A backend.                                                              *)

Drops == {"Delete", "DeletePartialMatch", "Reset"}

\* Whether a step concerns the series of a label set.
Hits(s, l) ==
    CASE s.op = "Reset"              -> TRUE
      [] s.op = "DeletePartialMatch" -> Extends(l, s.labels)
      [] OTHER                       -> s.labels = l

\* A vector after a step.  With(labels) makes a series the first time.
Prometheus(series, s) ==
    LET old == IF s.op # "Set" /\ s.labels \in DOMAIN series THEN series[s.labels] ELSE 0
    IN  IF s.op \in Drops
        THEN [l \in {k \in DOMAIN series : ~Hits(s, k)} |-> series[l]]
        ELSE [l \in DOMAIN series \cup {s.labels} |->
                IF l = s.labels THEN old + s.v ELSE series[l]]

\* Additional properties take precedence over labels.
withProperties(labels) ==
    [k \in DOMAIN Properties \cup DOMAIN labels |->
        IF k \in DOMAIN Properties THEN Properties[k] ELSE labels[k]]

\* What is written for a step; Add alone gives its entry no dimensions.
Entry(s) ==
    [fields |-> withProperties(s.labels), v |-> s.v, dimensions |-> s.op # "Add"]

\* Entries are only ever added.
EMF(entries, s) == IF s.op \in Drops THEN entries ELSE Append(entries, Entry(s))

\* A call on a metric that has come to a backend.
Update(m, backend, op, labels, v) ==
    [metric |-> m, backend |-> backend, op |-> op, labels |-> labels, v |-> v]

\* Plausible bug: series are dropped from the first backend only.
OnwardMutant(s) ==
    IF s.backend < (IF s.op \in Drops THEN 1 ELSE Len(Backends[s.metric]))
    THEN <<Update(s.metric, s.backend + 1, s.op, s.labels, s.v)>> ELSE <<>>

\* The loop over the backends goes on to the next.
Onward(s) ==
    IF s.backend < Len(Backends[s.metric])
    THEN <<Update(s.metric, s.backend + 1, s.op, s.labels, s.v)>> ELSE <<>>

\* A caller's call reaches a backend.
Step(c) ==
    /\ todo[c] # <<>>
    /\ LET s == Head(todo[c])
       IN  /\ IF Backends[s.metric][s.backend] = "prometheus"
              THEN /\ vec' = [vec EXCEPT ![s.metric][s.backend] = Prometheus(@, s)]
                   /\ UNCHANGED log
              ELSE /\ log' = [log EXCEPT ![s.metric][s.backend] = EMF(@, s)]
                   /\ UNCHANGED vec
           /\ todo' = [todo EXCEPT ![c] = Onward(s) \o Tail(@)]
    /\ UNCHANGED <<calls, contended, dropped, served>>

-----------------------------------------------------------------------------
(* Calls.                                                                  *)

\* Calls whose order does not matter to a series.
Commute(op1, op2) ==
    op1 # "Set" /\ op2 # "Set" /\ (op1 \in Drops <=> op2 \in Drops)

\* The series a call meets another caller's unfinished call at.
Clashes(c, s) ==
    {l \in Labels : /\ Hits(s, l)
                    /\ \E d \in Callers \ {c} : \E t \in Range(todo[d]) :
                            t.metric = s.metric /\ Hits(t, l) /\ ~Commute(s.op, t.op)}

\* A call starts.  One that sets or drops a series makes up for what crossed
\* before it.
Call(c, m, op, labels, v) ==
    LET s == Update(m, 0, op, labels, v)
        hit == {l \in Labels : Hits(s, l)}
    IN  /\ todo[c] = <<>>
        /\ calls < MaxCalls
        /\ calls' = calls + 1
        /\ todo' = [todo EXCEPT ![c] = Onward(s)]
        /\ contended' = (contended \ (IF op \in Drops \cup {"Set"} THEN {m} \X hit ELSE {}))
                            \cup ({m} \X Clashes(c, s))
        /\ dropped' = IF op \in Drops THEN dropped \cup ({m} \X hit) ELSE dropped
        /\ UNCHANGED <<vec, log, served>>

Direct(kinds) == {m \in Metrics \ ClientMetrics : Kind[m] \in kinds}

Inc(c) == \E m \in Direct({"counter"}), l \in Labels : Call(c, m, "Inc", l, 1)
Add(c) == \E m \in Direct({"counter"}), l \in Labels, v \in Values : Call(c, m, "Add", l, v)
Set(c) == \E m \in Direct({"gauge"}), l \in Labels, v \in Values : Call(c, m, "Set", l, v)
Observe(c) == \E m \in Direct({"observation"}), l \in Labels : Call(c, m, "Observe", l, 1)

Delete(c) == \E m \in Direct(AllKinds), l \in Labels : Call(c, m, "Delete", l, 0)
DeletePartialMatch(c) ==
    \E m \in Direct(AllKinds), p \in Patterns : Call(c, m, "DeletePartialMatch", p, 0)
Reset(c) == \E m \in Direct(AllKinds) : Call(c, m, "Reset", <<>>, 0)

-----------------------------------------------------------------------------
(* client-go's calls.                                                      *)

\* ResultAdapter.Increment, for one attempt.
Increment(code, r) == Update("result", 1, "Inc", [code |-> code, method |-> r.method], 1)

\* LatencyAdapter.Observe.
ObserveLatency(r) ==
    IF ObservedLabels(r) = NoLabels THEN <<>>
    ELSE <<Update("latency", 1, "Observe", ObservedLabels(r), 1)>>

\* client-go counts the answer to each attempt, and the latency of the
\* request when the last has been answered.
Request(c, r, codes) ==
    /\ todo[c] = <<>>
    /\ calls < MaxCalls
    /\ calls' = calls + 1
    /\ todo' = [todo EXCEPT ![c] =
            [i \in 1 .. Len(codes) |-> Increment(codes[i], r)] \o ObserveLatency(r)]
    /\ served' = Append(served, [request |-> r, codes |-> codes])
    /\ UNCHANGED <<vec, log, contended, dropped>>

Init ==
    /\ vec = [m \in Metrics |-> [i \in DOMAIN Backends[m] |-> <<>>]]
    /\ log = [m \in Metrics |-> [i \in DOMAIN Backends[m] |-> <<>>]]
    /\ todo = [c \in Callers |-> <<>>]
    /\ calls = 0
    /\ contended = {} /\ dropped = {}
    /\ served = <<>>

Next == \E c \in Callers :
    \/ Inc(c) \/ Add(c) \/ Set(c) \/ Observe(c)
    \/ Delete(c) \/ DeletePartialMatch(c) \/ Reset(c)
    \/ \E r \in Requests, codes \in Attempts : Request(c, r, codes)
    \/ Step(c)

Spec == Init /\ [][Next]_vars

-----------------------------------------------------------------------------
(* Properties.                                                             *)

\* No call is on its way to a metric.
Settled(m) == \A c \in Callers : \A s \in Range(todo[c]) : s.metric # m

\* The value or the number of observations of a series, if there is one.
ValueOf(m, i, l) == IF l \in DOMAIN vec[m][i] THEN vec[m][i][l] ELSE 0

Sums(s) == LET sum[n \in 0 .. Len(s)] == IF n = 0 THEN 0 ELSE sum[n - 1] + s[n] IN sum

\* The sum of a sequence.
Total(s) == Sums(s)[Len(s)]

\* The entries of an EMF log that are about a series.
About(entries, l) == {n \in 1 .. Len(entries) : Extends(entries[n].fields, l)}

\* What the entries say of a series: the last value of a gauge, the sum of the
\* values of another metric.
Replayed(kind, entries, l) ==
    IF kind # "gauge"
    THEN Total([n \in 1 .. Len(entries) |-> IF n \in About(entries, l) THEN entries[n].v ELSE 0])
    ELSE IF About(entries, l) = {} THEN 0 ELSE entries[Max(About(entries, l))].v

(***************************************************************************)
(* The backends of a metric tell the same story once its calls are over    *)
(* (src/metrics/multi.go calls them one by one, without a lock): its       *)
(* Prometheus vectors hold the same series with the same values, and the   *)
(* EMF entries add up to them.  Only a series at which two calls that do   *)
(* not commute have overlapped may differ, and the next call to set or     *)
(* drop it without overlap repairs it.  An EMF backend never learns that a *)
(* series was dropped, so a counter may fall behind its entries then.      *)
(***************************************************************************)
BackendsAgree ==
    \A m \in Metrics \ ClientMetrics, l \in Labels :
        Settled(m) /\ <<m, l>> \notin contended =>
            /\ \A i, j \in Of(m, "prometheus") :
                    /\ l \in DOMAIN vec[m][i] <=> l \in DOMAIN vec[m][j]
                    /\ ValueOf(m, i, l) = ValueOf(m, j, l)
            /\ \A i \in Of(m, "prometheus"), e \in Of(m, "emf") :
                    l \in DOMAIN vec[m][i] /\ (Kind[m] = "gauge" \/ <<m, l>> \notin dropped)
                        => Replayed(Kind[m], log[m][e], l) = ValueOf(m, i, l)

\* How often a request was answered with a code.
Answered(codes, code) == Cardinality({i \in 1 .. Len(codes) : codes[i] = code})

(***************************************************************************)
(* When no call is under way, every request is in exactly one series of    *)
(* the latency metric, the one of its verb, group, version, kind and       *)
(* subresource, and every answer in the series of its code and method,     *)
(* whatever calls have interleaved (src/metrics/metrics.go:42-126).  The   *)
(* latency of a request that is Ambiguous is counted under another kind.   *)
(***************************************************************************)
RequestsCounted ==
    (\A c \in Callers : todo[c] = <<>>) =>
        /\ \A l \in {RequestLabels(r) : r \in Requests} \cup DOMAIN vec["latency"][1] :
              LET made == {n \in 1 .. Len(served) : RequestLabels(served[n].request) = l}
                  mistaken == {n \in 1 .. Len(served) : Ambiguous(served[n].request)
                      /\ l \in {RequestLabels(served[n].request), ObservedLabels(served[n].request)}}
              IN  l # NoLabels /\ mistaken = {} => ValueOf("latency", 1, l) = Cardinality(made)
        /\ \A code \in UNION {Range(a) : a \in Attempts}, method \in {r.method : r \in Requests} :
              ValueOf("result", 1, [code |-> code, method |-> method]) =
                  Total([n \in 1 .. Len(served) |->
                            IF served[n].request.method = method
                            THEN Answered(served[n].codes, code) ELSE 0])

(***************************************************************************)
(* The comment at src/metrics/metrics.go:105 says of the first case that   *)
(* "this resource is namespaced and the resource is not the namespace":    *)
(* every latency is counted under the kind that was asked for.  It is not  *)
(* so for the subresources of a namespace.                                 *)
(***************************************************************************)
LatencyByKind ==
    \A l \in DOMAIN vec["latency"][1] : \E r \in Requests : l = RequestLabels(r)
=============================================================================
