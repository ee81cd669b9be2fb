-------------------------- MODULE StatusController --------------------------
(***************************************************************************)
(* The status controller (src/status/controller.go): it watches the        *)
(* objects of one kind and keeps gauges, counters and events in step with  *)
(* their conditions, their finalizers and their deletion.                  *)
(*                                                                         *)
(* It remembers, per request, what it saw last: the conditions, the gauge  *)
(* labels, the finalizers and the terminating object.  The difference to   *)
(* what it sees now decides which series to drop, which transitions to     *)
(* count and which events to record.  What it sees is the informer's       *)
(* cache, which lags behind the API server and may skip states: an object  *)
(* can be deleted and created again between two looks.                     *)
(*                                                                         *)
(* One reconcile is one step: the work queue never runs two for the same   *)
(* request, the state of two requests is disjoint, and the only input, the *)
(* Get, comes first.                                                       *)
(***************************************************************************)
EXTENDS Integers, FiniteSets, TLC

CONSTANTS
    Keys,          \* the names of the objects
    Root,          \* the root condition type
    Dependents,    \* the types the root is computed from
    Independents,  \* types that come and go
    Values,        \* the [status, reason] pairs operator code sets
    Labels,        \* the values of the additional gauge label
    Finalizers,
    None,          \* absent: no object, no condition, nothing observed
    MaxWrites      \* bound on the writes to the API server

Types == {Root} \cup Dependents \cup Independents
Status == {"True", "False", "Unknown"}
BuiltInReasons ==
    {Root, "AwaitingReconciliation", "ReconcilingDependents", "UnhealthyDependents"}
Value == [status : Status, reason : {v.reason : v \in Values} \cup BuiltInReasons]
Conditions == [Types -> Value \cup {None}]
Observation == [conds : Conditions, label : Labels]

ASSUME ControllerAssumption ==
    /\ Root \notin Dependents
    /\ Independents \cap ({Root} \cup Dependents) = {}
    /\ Values \subseteq Value
    /\ None \notin Value \cup Observation
    /\ \A fs \in SUBSET Finalizers : fs # None

ASSUME BoundAssumption == MaxWrites \in Nat

VARIABLES
    api,        \* what the API server stores: [Keys -> object or None]
    cache,      \* what the informer has seen of it
    queue,      \* requests that are due
    delayed,    \* requests waiting for their requeue delay
    observed,   \* observedConditions and observedGaugeLabels
    observedFinalizers,
    terminatingObjects,
    conditionSeries,      \* the series of the per-kind condition gauges
    deprecatedSeries,     \* those of the operator_status_condition_* gauges
    terminationSeries,    \* the series of the per-kind termination gauge
    transitionsTotal,     \* the transition counters, by type and status
    conditionDuration,    \* observations of the duration histogram
    terminationDuration,  \* observations of the termination histogram
    finalizedEvents,      \* "Finalized" events, by finalizer
    vanished,             \* history: conditions last seen in a status and then gone
    noticed,              \* history: the objects that were seen terminating
    replaced,             \* history: those of them another terminating object replaced
    appeared,             \* history: times a finalizer was first seen on an object
    entangled,            \* history: requests whose label and conditions changed at once
    created,              \* the objects each name has had so far
    writes

controller == <<observed, observedFinalizers, terminatingObjects>>
metrics == <<conditionSeries, deprecatedSeries, terminationSeries,
             transitionsTotal, conditionDuration, terminationDuration, finalizedEvents,
             vanished, noticed, replaced, appeared, entangled>>
vars == <<api, cache, queue, delayed, created, writes, controller, metrics>>

\* The uid tells an object from the earlier ones of its name.
Object == [uid : Nat, conds : Conditions, label : Labels, terminating : BOOLEAN,
           finalizers : SUBSET Finalizers]

Present(cs) == {t \in Types : cs[t] # None}

-----------------------------------------------------------------------------
(* The conditions of an object, as the ConditionSet of its operator left   *)
(* them (module ConditionSet) for its present generation.                  *)

Awaiting == [status |-> "Unknown", reason |-> "AwaitingReconciliation"]

\* recomputeRootCondition over dependents that are all there.
RootOf(cs) ==
    IF \A d \in Dependents : cs[d].status = "True"
    THEN [status |-> "True", reason |-> Root]
    ELSE IF \E d \in Dependents : cs[d].status = "False"
         THEN [status |-> "False", reason |-> "UnhealthyDependents"]
         ELSE [status |-> "Unknown", reason |-> "ReconcilingDependents"]

\* For: missing known types become Unknown, and a dependent that was missing
\* makes the root be recomputed.
StatusConditions(cs) ==
    LET filled == [t \in Types |->
                     IF cs[t] = None /\ t \notin Independents THEN Awaiting ELSE cs[t]]
    IN  IF \E d \in Dependents : cs[d] = None
        THEN [filled EXCEPT ![Root] = RootOf(filled)]
        ELSE filled

-----------------------------------------------------------------------------
(* Gauges.                                                                 *)

\* The labels of a partial match; a label the gauge does not have matches no
\* series of it.
Matches(series, labels) ==
    \A l \in DOMAIN labels : l \in DOMAIN series /\ series[l] = labels[l]

\* What is left of a gauge after DeletePartialMatch for each set of labels.
Without(gauge, patterns) == {s \in gauge : ~\E p \in patterns : Matches(s, p)}

\* The labels of the deprecated gauges: no additional one.
DeprecatedLabels(k, t, c) ==
    [name |-> k, type |-> t, status |-> c.status, reason |-> c.reason]

GaugeLabels(k, t, c, label) ==
    [name |-> k, type |-> t, status |-> c.status, reason |-> c.reason, label |-> label]

\* Plausible bug: the deprecated gauges get the additional labels too.
DeprecatedSeriesOfMutant(k, cs) == {GaugeLabels(k, t, cs[t], None) : t \in Present(cs)}

SeriesOf(k, cs, label) == {GaugeLabels(k, t, cs[t], label) : t \in Present(cs)}

DeprecatedSeriesOf(k, cs) == {DeprecatedLabels(k, t, cs[t]) : t \in Present(cs)}

-----------------------------------------------------------------------------
(* reconcile, when Get finds the object.                                   *)

NothingObserved == [conds |-> [t \in Types |-> None], label |-> None]

LastObserved(k) == IF observed[k] = None THEN NothingObserved ELSE observed[k]

\* Plausible bug: a changed reason does not make the old series stale.
StaleMutant(last, current, label) ==
    {t \in Present(last.conds) :
        \/ current[t] = None
        \/ current[t].status # last.conds[t].status
        \/ label # last.label}

\* The observed conditions whose series must go.
Stale(last, current, label) ==
    {t \in Present(last.conds) :
        \/ current[t] = None
        \/ current[t].status # last.conds[t].status
        \/ current[t].reason # last.conds[t].reason
        \/ label # last.label}

\* Plausible bug: the old labels are never part of the pattern, so that the
\* series just set under a new label is deleted too.
StalePatternsMutant(k, last, current, label) ==
    {DeprecatedLabels(k, t, last.conds[t]) : t \in Stale(last, current, label)}

\* The observed conditions that changed, whatever became of the label.
Altered(last, current) == Stale(last, current, last.label)

\* The labels to delete them by: with the old additional label only when it
\* has changed, and then for the deprecated gauges too.
StalePatterns(k, last, current, label) ==
    {IF label # last.label
     THEN GaugeLabels(k, t, last.conds[t], last.label)
     ELSE DeprecatedLabels(k, t, last.conds[t]) : t \in Stale(last, current, label)}

\* GetStatus of a condition that may be missing.
GetStatus(c) == IF c = None THEN "Unknown" ELSE c.status

\* Plausible bug: a new condition is not a transition.
TransitionedMutant(last, current) ==
    {t \in Present(current) : last[t] # None /\ GetStatus(last[t]) # current[t].status}

\* The conditions whose status differs from the one seen last, where a
\* missing one counts as Unknown.  Each counts as a transition; one that was
\* there before gets a duration, and an event with it.
Transitioned(last, current) ==
    {t \in Present(current) : GetStatus(last[t]) # current[t].status}

\* Plausible bug: a termination gauge is set for every object.
TerminationSetMutant(k, o) == {[name |-> k, label |-> o.label]}

TerminationSet(k, o) == IF o.terminating THEN {[name |-> k, label |-> o.label]} ELSE {}

\* History: the conditions of old that new no longer has.
Vanish(old, new) ==
    [t \in Types |-> [s \in Status |->
        vanished[t][s] + IF old[t] # None /\ new[t] = None /\ old[t].status = s THEN 1 ELSE 0]]

\* The transition counters, one more for each type that moved.
incCounterMetric(moved, current) ==
    [t \in Types |-> [s \in Status |->
        transitionsTotal[t][s] + IF t \in moved /\ current[t].status = s THEN 1 ELSE 0]]

\* The duration histogram, one more for the status each of them has left.
observeHistogram(moved, last) ==
    [t \in Types |-> [s \in Status |->
        conditionDuration[t][s]
            + IF t \in moved /\ last[t] # None /\ last[t].status = s THEN 1 ELSE 0]]

Observe(k, o) ==
    LET current == StatusConditions(o.conds)
        last == LastObserved(k)
        stale == StalePatterns(k, last, current, o.label)
        moved == Transitioned(last.conds, current)
    IN  /\ observed' = [observed EXCEPT ![k] = [conds |-> current, label |-> o.label]]
        /\ terminationSeries' = terminationSeries \cup TerminationSet(k, o)
        /\ terminatingObjects' =
              IF o.terminating THEN [terminatingObjects EXCEPT ![k] = o] ELSE terminatingObjects
        /\ noticed' = IF o.terminating THEN noticed \cup {<<k, o.uid>>} ELSE noticed
        /\ replaced' =
              IF o.terminating /\ terminatingObjects[k] # None /\ terminatingObjects[k].uid # o.uid
              THEN replaced \cup {<<k, terminatingObjects[k].uid>>}
              ELSE replaced
        /\ conditionSeries' = Without(conditionSeries \cup SeriesOf(k, current, o.label), stale)
        /\ deprecatedSeries' = Without(deprecatedSeries \cup DeprecatedSeriesOf(k, current), stale)
        /\ transitionsTotal' = incCounterMetric(moved, current)
        /\ conditionDuration' = observeHistogram(moved, last.conds)
        /\ vanished' = Vanish(last.conds, current)
        /\ entangled' =
              IF o.label # last.label /\ Altered(last, current) # {} THEN entangled \cup {k} ELSE entangled

\* Plausible bug: finalizers that are still there are announced too.
FinalizedMutant(k, finalizers) ==
    IF observedFinalizers[k] = None THEN {} ELSE observedFinalizers[k]

\* The finalizers seen last time and not any more: one event each.
Finalized(k, finalizers) ==
    IF observedFinalizers[k] = None THEN {} ELSE observedFinalizers[k] \ finalizers

RecordFinalized(k, finalizers) ==
    /\ finalizedEvents' =
          [f \in Finalizers |->
              finalizedEvents[f] + IF f \in Finalized(k, finalizers) THEN 1 ELSE 0]
    /\ appeared' =
          [f \in Finalizers |->
              appeared[f]
                  + IF f \in finalizers /\ (observedFinalizers[k] = None \/ f \notin observedFinalizers[k])
                    THEN 1 ELSE 0]

ReconcileFound(k) ==
    /\ k \in queue
    /\ cache[k] # None
    /\ Observe(k, cache[k])
    /\ RecordFinalized(k, cache[k].finalizers)
    /\ observedFinalizers' = [observedFinalizers EXCEPT ![k] = cache[k].finalizers]
    /\ queue' = queue \ {k}
    /\ delayed' = delayed \cup {k}
    /\ UNCHANGED <<api, cache, created, writes, terminationDuration>>

\* Plausible bug: the deprecated gauges are forgotten.
ForgetMutant(k) ==
    /\ observed' = [observed EXCEPT ![k] = None]
    /\ conditionSeries' = Without(conditionSeries, {[name |-> k]})
    /\ terminationSeries' = Without(terminationSeries, {[name |-> k]})
    /\ UNCHANGED deprecatedSeries

\* The metrics of an object that is gone.
Forget(k) ==
    /\ observed' = [observed EXCEPT ![k] = None]
    /\ conditionSeries' = Without(conditionSeries, {[name |-> k]})
    /\ deprecatedSeries' = Without(deprecatedSeries, {[name |-> k]})
    /\ terminationSeries' = Without(terminationSeries, {[name |-> k]})

\* Plausible bug: the object is loaded and stays remembered.
TerminatedMutant(k) ==
    /\ terminationDuration' = terminationDuration + IF terminatingObjects[k] # None THEN 1 ELSE 0
    /\ UNCHANGED terminatingObjects

\* A remembered terminating object is taken out and its duration observed.
Terminated(k) ==
    /\ terminationDuration' = terminationDuration + IF terminatingObjects[k] # None THEN 1 ELSE 0
    /\ terminatingObjects' = [terminatingObjects EXCEPT ![k] = None]

\* reconcile, when Get reports NotFound.
ReconcileNotFound(k) ==
    /\ k \in queue
    /\ cache[k] = None
    /\ Forget(k)
    /\ vanished' = Vanish(LastObserved(k).conds, NothingObserved.conds)
    /\ entangled' = entangled \ {k}
    /\ Terminated(k)
    /\ RecordFinalized(k, {})
    /\ observedFinalizers' = [observedFinalizers EXCEPT ![k] = None]
    /\ queue' = queue \ {k}
    /\ UNCHANGED <<api, cache, delayed, created, writes, transitionsTotal, conditionDuration,
                   noticed, replaced>>

\* Plausible bug: the error is swallowed and the request dropped.
ReconcileErrorMutant(k) ==
    /\ k \in queue
    /\ queue' = queue \ {k}
    /\ UNCHANGED <<api, cache, delayed, created, writes, controller, metrics>>

\* reconcile, when Get fails: the work queue tries again later.
ReconcileError(k) ==
    /\ k \in queue
    /\ queue' = queue \ {k}
    /\ delayed' = delayed \cup {k}
    /\ UNCHANGED <<api, cache, created, writes, controller, metrics>>

-----------------------------------------------------------------------------
(* The informer and the work queue (controller-runtime).                   *)

\* The informer catches up with one object, over any number of writes.
Deliver(k) ==
    /\ cache[k] # api[k]
    /\ cache' = [cache EXCEPT ![k] = api[k]]
    /\ queue' = queue \cup {k}
    /\ UNCHANGED <<api, delayed, created, writes, controller, metrics>>

\* The requeue delay of a request ends.
Timer(k) ==
    /\ k \in delayed
    /\ delayed' = delayed \ {k}
    /\ queue' = queue \cup {k}
    /\ UNCHANGED <<api, cache, created, writes, controller, metrics>>

-----------------------------------------------------------------------------
(* Users, operators and the API server.                                    *)

Put(k, o) ==
    /\ writes < MaxWrites
    /\ writes' = writes + 1
    /\ api' = [api EXCEPT ![k] = o]
    /\ UNCHANGED <<cache, queue, delayed, controller, metrics>>

Write(k, o) == Put(k, o) /\ created' = created

Create(k) ==
    /\ api[k] = None
    /\ \E label \in Labels, fs \in SUBSET Finalizers :
          Put(k, [uid |-> created[k] + 1, conds |-> [t \in Types |-> None], label |-> label,
                  terminating |-> FALSE, finalizers |-> fs])
    /\ created' = [created EXCEPT ![k] = @ + 1]

\* Operator code sets one condition and writes the status back.
SetCondition(k, t, v) ==
    LET set == [StatusConditions(api[k].conds) EXCEPT ![t] = v]
    IN  /\ api[k] # None
        /\ t # Root
        /\ Write(k, [api[k] EXCEPT !.conds = [set EXCEPT ![Root] = RootOf(set)]])

ClearCondition(k, t) ==
    /\ api[k] # None
    /\ t \in Independents
    /\ api[k].conds[t] # None
    /\ Write(k, [api[k] EXCEPT !.conds[t] = None])

Relabel(k, label) ==
    /\ api[k] # None
    /\ label # api[k].label
    /\ Write(k, [api[k] EXCEPT !.label = label])

AddFinalizer(k, f) ==
    /\ api[k] # None
    /\ ~api[k].terminating
    /\ f \notin api[k].finalizers
    /\ Write(k, [api[k] EXCEPT !.finalizers = @ \cup {f}])

\* The last finalizer of a terminating object takes the object with it.
RemoveFinalizer(k, f) ==
    /\ api[k] # None
    /\ f \in api[k].finalizers
    /\ Write(k, IF api[k].terminating /\ api[k].finalizers = {f}
                THEN None
                ELSE [api[k] EXCEPT !.finalizers = @ \ {f}])

Delete(k) ==
    /\ api[k] # None
    /\ ~api[k].terminating
    /\ Write(k, IF api[k].finalizers = {} THEN None ELSE [api[k] EXCEPT !.terminating = TRUE])

-----------------------------------------------------------------------------

\* What may exist of a name when the controller starts: nothing, or an object
\* that is perhaps terminating already.
Existing ==
    {None} \cup {o \in [uid : {1}, conds : {[t \in Types |-> None]}, label : Labels,
                        terminating : BOOLEAN, finalizers : SUBSET Finalizers] :
                   o.terminating => o.finalizers # {}}

Init ==
    /\ api \in [Keys -> Existing]
    /\ created = [k \in Keys |-> IF api[k] = None THEN 0 ELSE 1]
    /\ cache = [k \in Keys |-> None]
    /\ queue = {}
    /\ delayed = {}
    /\ writes = 0
    /\ observed = [k \in Keys |-> None]
    /\ observedFinalizers = [k \in Keys |-> None]
    /\ terminatingObjects = [k \in Keys |-> None]
    /\ conditionSeries = {}
    /\ deprecatedSeries = {}
    /\ terminationSeries = {}
    /\ transitionsTotal = [t \in Types |-> [s \in Status |-> 0]]
    /\ conditionDuration = [t \in Types |-> [s \in Status |-> 0]]
    /\ terminationDuration = 0
    /\ noticed = {}
    /\ replaced = {}
    /\ finalizedEvents = [f \in Finalizers |-> 0]
    /\ vanished = [t \in Types |-> [s \in Status |-> 0]]
    /\ appeared = [f \in Finalizers |-> 0]
    /\ entangled = {}

Environment(k) ==
    \/ Create(k)
    \/ \E t \in Types, v \in Values : SetCondition(k, t, v)
    \/ \E t \in Types : ClearCondition(k, t)
    \/ \E label \in Labels : Relabel(k, label)
    \/ \E f \in Finalizers : AddFinalizer(k, f) \/ RemoveFinalizer(k, f)
    \/ Delete(k)

Reconcile(k) == ReconcileFound(k) \/ ReconcileNotFound(k)

Next ==
    \E k \in Keys :
        \/ Environment(k)
        \/ Deliver(k)
        \/ Timer(k)
        \/ Reconcile(k)
        \/ ReconcileError(k)

Spec == Init /\ [][Next]_vars

\* The informer and the timers make progress, and a request that keeps coming
\* due is at some time reconciled without an error from Get.
Fairness ==
    \A k \in Keys :
        /\ WF_vars(Deliver(k))
        /\ WF_vars(Timer(k))
        /\ SF_vars(Reconcile(k))

FairSpec == Spec /\ Fairness

-----------------------------------------------------------------------------
(* What the metrics must say.                                              *)

SeriesReasons == {v.reason : v \in Values} \cup BuiltInReasons
SeriesUniverse == [name : Keys, type : Types, status : Status, reason : SeriesReasons, label : Labels]
DeprecatedUniverse == [name : Keys, type : Types, status : Status, reason : SeriesReasons]

\* Every variable has its type; gauges hold only series with their own labels.
TypeOK ==
    /\ api \in [Keys -> Object \cup {None}]
    /\ cache \in [Keys -> Object \cup {None}]
    /\ queue \in SUBSET Keys
    /\ delayed \in SUBSET Keys
    /\ observed \in [Keys -> Observation \cup {None}]
    /\ observedFinalizers \in [Keys -> (SUBSET Finalizers) \cup {None}]
    /\ terminatingObjects \in [Keys -> Object \cup {None}]
    /\ conditionSeries \subseteq SeriesUniverse
    /\ deprecatedSeries \subseteq DeprecatedUniverse
    /\ terminationSeries \subseteq [name : Keys, label : Labels]
    /\ transitionsTotal \in [Types -> [Status -> Nat]]
    /\ conditionDuration \in [Types -> [Status -> Nat]]
    /\ terminationDuration \in Nat
    /\ noticed \subseteq Keys \X Nat
    /\ replaced \subseteq Keys \X Nat
    /\ created \in [Keys -> Nat]
    /\ vanished \in [Types -> [Status -> Nat]]
    /\ finalizedEvents \in [Finalizers -> Nat]
    /\ appeared \in [Finalizers -> Nat]
    /\ entangled \in SUBSET Keys
    /\ writes \in Nat

SeriesNamed(gauge, k) == {s \in gauge : s.name = k}

\* After every reconcile the condition gauges hold, for each object, exactly
\* the conditions seen last: no series of an old status, reason, label or
\* object survives, and none of a present condition is missing, whichever of
\* them changed together (the two loops of reconcile and the NotFound path).
ConditionSeriesExact ==
    \A k \in Keys :
        SeriesNamed(conditionSeries, k) =
            IF observed[k] = None THEN {} ELSE SeriesOf(k, observed[k].conds, observed[k].label)

DeprecatedExpected(k) ==
    IF observed[k] = None THEN {} ELSE DeprecatedSeriesOf(k, observed[k].conds)

\* The same of the deprecated gauges, which have no additional label.
DeprecatedSeriesExact ==
    \A k \in Keys : SeriesNamed(deprecatedSeries, k) = DeprecatedExpected(k)

\* What does hold of them: no series of a present condition is ever missing,
\* and old ones survive only where the label and a condition changed between
\* the same two looks, until the object is gone.
DeprecatedSeriesKept ==
    \A k \in Keys :
        /\ DeprecatedExpected(k) \subseteq SeriesNamed(deprecatedSeries, k)
        /\ k \notin entangled => SeriesNamed(deprecatedSeries, k) = DeprecatedExpected(k)

\* A termination series exists exactly for the requests with a remembered
\* terminating object, the ones whose NotFound will observe the duration.
TerminationRemembered ==
    \A k \in Keys :
        terminatingObjects[k] # None <=> SeriesNamed(terminationSeries, k) # {}

\* Requests whose object is seen in status s of type t at present.
HeldIn(t, s) ==
    {k \in Keys : observed[k] # None /\ observed[k].conds[t] # None /\ observed[k].conds[t].status = s}

\* Counters and histogram agree.  A condition seen True or False was counted
\* in by transitionsTotal exactly once, and when it left that status it was
\* counted out by exactly one duration, unless it vanished with its object or
\* was cleared, which nothing counts.  (Unknown is not balanced: a condition
\* first seen as Unknown is not counted in.)
TransitionsBalance ==
    \A t \in Types, s \in {"True", "False"} :
        transitionsTotal[t][s] =
            conditionDuration[t][s] + vanished[t][s] + Cardinality(HeldIn(t, s))

\* Every finalizer that was seen on an object and went is announced by exactly
\* one event, whether it was removed or went with the object.
FinalizersAnnounced ==
    \A f \in Finalizers :
        appeared[f] =
            finalizedEvents[f]
                + Cardinality({k \in Keys : observedFinalizers[k] # None /\ f \in observedFinalizers[k]})

Remembered == {k \in Keys : terminatingObjects[k] # None}

\* Every object that was seen terminating is observed by the histogram exactly
\* once, when it is gone, or is still remembered, or its place was taken by
\* another terminating object of its name before a NotFound: no retry observes
\* an object again, late looks at old objects included, and nothing but such a
\* replacement drops one.
TerminationsObserved ==
    Cardinality(noticed) = terminationDuration + Cardinality(replaced) + Cardinality(Remembered)

\* "The amount of time taken by an object to terminate completely", for every
\* object that was seen terminating.
TerminationsAllObserved ==
    Cardinality(noticed) = terminationDuration + Cardinality(Remembered)

\* A request that is being looked at is never forgotten: it is in the queue,
\* waits for a delay, or has no object and nothing is remembered of it.
NeverForgotten ==
    \A k \in Keys :
        \/ k \in queue \cup delayed
        \/ cache[k] = None /\ observed[k] = None /\ observedFinalizers[k] = None

\* Nothing is left to do for k.
Settled(k) == cache[k] = api[k] /\ k \notin queue

\* Once the writes stop, the gauges come to say what the API server stores,
\* through lost intermediate states, failing Gets and requeues.
Converges ==
    <>[](\A k \in Keys :
            SeriesNamed(conditionSeries, k) =
                IF api[k] = None THEN {} ELSE SeriesOf(k, StatusConditions(api[k].conds), api[k].label))

\* The help text of the termination gauge: "The current amount of time in
\* seconds that an object has been in terminating state."  An object that is
\* not terminating has no such time.
TerminationOnlyWhileTerminating ==
    \A k \in Keys :
        Settled(k) /\ api[k] # None /\ ~api[k].terminating =>
            SeriesNamed(terminationSeries, k) = {}

\* The same help text: an object has one current time, so one series.
TerminationSeriesUnique ==
    \A k \in Keys : Cardinality(SeriesNamed(terminationSeries, k)) <= 1
=============================================================================
