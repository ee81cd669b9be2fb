----------------------- MODULE StatusControllerProofs -----------------------
(***************************************************************************)
(* Proofs about StatusController for any number of objects, condition      *)
(* types, label values and writes.                                         *)
(***************************************************************************)
EXTENDS StatusController, FiniteSetTheorems, TLAPS

-----------------------------------------------------------------------------
(* Partial matches.                                                        *)

\* A pattern with the additional label picks exactly one series.
LEMMA MatchGauge ==
    ASSUME NEW k, NEW t, NEW c, NEW l, NEW k2, NEW t2, NEW c2, NEW l2
    PROVE  Matches(GaugeLabels(k, t, c, l), GaugeLabels(k2, t2, c2, l2))
             <=> k = k2 /\ t = t2 /\ c.status = c2.status /\ c.reason = c2.reason /\ l = l2
BY DEF Matches, GaugeLabels

\* A pattern without it picks the series of every label.
LEMMA MatchAnyLabel ==
    ASSUME NEW k, NEW t, NEW c, NEW l, NEW k2, NEW t2, NEW c2
    PROVE  Matches(GaugeLabels(k, t, c, l), DeprecatedLabels(k2, t2, c2))
             <=> k = k2 /\ t = t2 /\ c.status = c2.status /\ c.reason = c2.reason
BY DEF Matches, GaugeLabels, DeprecatedLabels

\* The deprecated gauges have no additional label to match.
LEMMA MatchDeprecated ==
    ASSUME NEW k, NEW t, NEW c, NEW l, NEW k2, NEW t2, NEW c2
    PROVE  /\ Matches(DeprecatedLabels(k, t, c), DeprecatedLabels(k2, t2, c2))
                <=> k = k2 /\ t = t2 /\ c.status = c2.status /\ c.reason = c2.reason
           /\ ~Matches(DeprecatedLabels(k, t, c), GaugeLabels(k2, t2, c2, l))
BY DEF Matches, DeprecatedLabels, GaugeLabels

-----------------------------------------------------------------------------
(* The type invariant.                                                     *)

\* What For fills in are conditions.
LEMMA ConditionsType ==
    ASSUME NEW cs \in Conditions
    PROVE  StatusConditions(cs) \in Conditions
<1> DEFINE filled == [t \in Types |->
                        IF cs[t] = None /\ t \notin Independents THEN Awaiting ELSE cs[t]]
<1>1. Awaiting \in Value
  BY DEF Awaiting, Value, Status, BuiltInReasons
<1>2. filled \in Conditions
  BY <1>1 DEF Conditions
<1>3. RootOf(filled) \in Value
  BY DEF RootOf, Value, Status, BuiltInReasons
<1>4. Root \in Types
  BY DEF Types
<1>5. [filled EXCEPT ![Root] = RootOf(filled)] \in Conditions
  BY <1>2, <1>3, <1>4 DEF Conditions
<1> QED
  BY <1>2, <1>5 DEF StatusConditions

\* The series of a list of conditions carry the labels their gauge has.
LEMMA SeriesType ==
    ASSUME NEW k \in Keys, NEW cs \in Conditions, NEW l \in Labels
    PROVE  SeriesOf(k, cs, l) \subseteq SeriesUniverse
           /\ DeprecatedSeriesOf(k, cs) \subseteq DeprecatedUniverse
<1>1. \A t \in Present(cs) : t \in Types /\ cs[t] \in Value
  BY DEF Present, Conditions
<1>2. \A t \in Present(cs) : GaugeLabels(k, t, cs[t], l) \in SeriesUniverse
  BY <1>1 DEF GaugeLabels, SeriesUniverse, Value, SeriesReasons
<1>3. \A t \in Present(cs) : DeprecatedLabels(k, t, cs[t]) \in DeprecatedUniverse
  BY <1>1 DEF DeprecatedLabels, DeprecatedUniverse, Value, SeriesReasons
<1> QED
  BY <1>2, <1>3 DEF SeriesOf, DeprecatedSeriesOf

\* A reconcile that finds the object.
LEMMA FoundType ==
    ASSUME TypeOK, NEW k \in Keys, ReconcileFound(k)
    PROVE  TypeOK'
<1> DEFINE o == cache[k]
           current == StatusConditions(o.conds)
<1>1. o \in Object
  BY DEF ReconcileFound, TypeOK
<1>2. current \in Conditions /\ o.label \in Labels /\ o.finalizers \in SUBSET Finalizers
  BY <1>1, ConditionsType DEF Object
<1>3. /\ api' \in [Keys -> Object \cup {None}] /\ cache' \in [Keys -> Object \cup {None}]
      /\ queue' \in SUBSET Keys /\ delayed' \in SUBSET Keys /\ writes' \in Nat
      /\ created' \in [Keys -> Nat]
  BY DEF ReconcileFound, TypeOK
<1>4. observed' \in [Keys -> Observation \cup {None}]
  BY <1>2 DEF ReconcileFound, Observe, Observation, TypeOK
<1>5. observedFinalizers' \in [Keys -> (SUBSET Finalizers) \cup {None}]
  BY <1>2 DEF ReconcileFound, TypeOK
<1>6. terminatingObjects' \in [Keys -> Object \cup {None}]
  BY <1>1 DEF ReconcileFound, Observe, TypeOK
<1>7. conditionSeries' \subseteq SeriesUniverse /\ deprecatedSeries' \subseteq DeprecatedUniverse
  BY <1>2, SeriesType DEF ReconcileFound, Observe, TypeOK, Without
<1>8. terminationSeries' \subseteq [name : Keys, label : Labels]
  BY <1>2 DEF ReconcileFound, Observe, TypeOK, TerminationSet
<1>9. transitionsTotal' \in [Types -> [Status -> Nat]]
  <2>1. \A t \in Types : \A s \in Status : transitionsTotal[t][s] \in Nat
    BY DEF TypeOK
  <2> QED
    BY <2>1 DEF ReconcileFound, Observe, incCounterMetric
<1>10. conditionDuration' \in [Types -> [Status -> Nat]]
  <2>1. \A t \in Types : \A s \in Status : conditionDuration[t][s] \in Nat
    BY DEF TypeOK
  <2> QED
    BY <2>1 DEF ReconcileFound, Observe, observeHistogram
<1>11. vanished' \in [Types -> [Status -> Nat]]
  <2>1. \A t \in Types : \A s \in Status : vanished[t][s] \in Nat
    BY DEF TypeOK
  <2> QED
    BY <2>1 DEF ReconcileFound, Observe, Vanish
<1>12. /\ finalizedEvents' \in [Finalizers -> Nat] /\ appeared' \in [Finalizers -> Nat]
       /\ entangled' \in SUBSET Keys
  BY DEF ReconcileFound, Observe, RecordFinalized, TypeOK
<1>13. terminationDuration' \in Nat /\ noticed' \subseteq Keys \X Nat /\ replaced' \subseteq Keys \X Nat
  <2>1. o.uid \in Nat /\ (terminatingObjects[k] # None => terminatingObjects[k].uid \in Nat)
    BY <1>1 DEF Object, TypeOK
  <2> QED
    BY <2>1 DEF ReconcileFound, Observe, TypeOK
<1> QED
  BY <1>3, <1>4, <1>5, <1>6, <1>7, <1>8, <1>9, <1>10, <1>11, <1>12, <1>13 DEF TypeOK

\* A reconcile that does not.
LEMMA NotFoundType ==
    ASSUME TypeOK, NEW k \in Keys, ReconcileNotFound(k)
    PROVE  TypeOK'
<1>1. /\ api' \in [Keys -> Object \cup {None}] /\ cache' \in [Keys -> Object \cup {None}]
      /\ queue' \in SUBSET Keys /\ delayed' \in SUBSET Keys /\ writes' \in Nat
      /\ created' \in [Keys -> Nat]
      /\ transitionsTotal' \in [Types -> [Status -> Nat]]
      /\ conditionDuration' \in [Types -> [Status -> Nat]]
  BY DEF ReconcileNotFound, TypeOK
<1>2. /\ observed' \in [Keys -> Observation \cup {None}]
      /\ observedFinalizers' \in [Keys -> (SUBSET Finalizers) \cup {None}]
      /\ terminatingObjects' \in [Keys -> Object \cup {None}]
      /\ terminationDuration' \in Nat
      /\ noticed' \subseteq Keys \X Nat /\ replaced' \subseteq Keys \X Nat
  BY DEF ReconcileNotFound, Forget, Terminated, TypeOK
<1>3. /\ conditionSeries' \subseteq SeriesUniverse
      /\ deprecatedSeries' \subseteq DeprecatedUniverse
      /\ terminationSeries' \subseteq [name : Keys, label : Labels]
  BY DEF ReconcileNotFound, Forget, Without, TypeOK
<1>4. vanished' \in [Types -> [Status -> Nat]]
  <2>1. \A t \in Types : \A s \in Status : vanished[t][s] \in Nat
    BY DEF TypeOK
  <2> QED
    BY <2>1 DEF ReconcileNotFound, Vanish
<1>5. /\ finalizedEvents' \in [Finalizers -> Nat] /\ appeared' \in [Finalizers -> Nat]
      /\ entangled' \in SUBSET Keys
  BY DEF ReconcileNotFound, RecordFinalized, TypeOK
<1> QED
  BY <1>1, <1>2, <1>3, <1>4, <1>5 DEF TypeOK

\* A write to an object that is there leaves an object with its uid, or none.
LEMMA WriteKeepsUid ==
    ASSUME TypeOK, NEW k \in Keys, Environment(k)
    PROVE  \/ Create(k)
           \/ \E o \in Object \cup {None} :
                 Write(k, o) /\ api[k] # None /\ (o # None => o.uid = api[k].uid)
<1>2. api[k] # None => api[k] \in Object
  BY DEF TypeOK
<1>4. ASSUME NEW t \in Types, NEW v \in Values, SetCondition(k, t, v)
      PROVE  \E o \in Object : Write(k, o) /\ api[k] # None /\ o.uid = api[k].uid
  <2> DEFINE set == [StatusConditions(api[k].conds) EXCEPT ![t] = v]
             full == [set EXCEPT ![Root] = RootOf(set)]
  <2>1. api[k] \in Object
    BY <1>2, <1>4 DEF SetCondition
  <2>2. StatusConditions(api[k].conds) \in Conditions
    BY <2>1, ConditionsType DEF Object
  <2>3. set \in Conditions
    BY <2>2, ControllerAssumption DEF Conditions
  <2>4. RootOf(set) \in Value /\ Root \in Types
    BY DEF RootOf, Value, Status, BuiltInReasons, Types
  <2>5. full \in Conditions
    BY <2>3, <2>4 DEF Conditions
  <2> HIDE DEF full
  <2>6. [api[k] EXCEPT !.conds = full] \in Object /\ [api[k] EXCEPT !.conds = full].uid = api[k].uid
    BY <2>1, <2>5 DEF Object
  <2> QED
    BY <1>4, <2>6 DEF SetCondition, full
<1>5. ASSUME NEW t \in Types, ClearCondition(k, t)
      PROVE  \E o \in Object : Write(k, o) /\ api[k] # None /\ o.uid = api[k].uid
  <2>1. api[k] \in Object
    BY <1>2, <1>5 DEF ClearCondition
  <2>2. [api[k].conds EXCEPT ![t] = None] \in Conditions
    BY <2>1 DEF Object, Conditions
  <2>3. [api[k] EXCEPT !.conds[t] = None] \in Object /\ [api[k] EXCEPT !.conds[t] = None].uid = api[k].uid
    BY <2>1, <2>2 DEF Object
  <2> QED
    BY <1>5, <2>3 DEF ClearCondition
<1>6. ASSUME NEW label \in Labels, Relabel(k, label)
      PROVE  \E o \in Object : Write(k, o) /\ api[k] # None /\ o.uid = api[k].uid
  <2>1. /\ [api[k] EXCEPT !.label = label] \in Object
        /\ [api[k] EXCEPT !.label = label].uid = api[k].uid
    BY <1>2, <1>6 DEF Relabel, Object
  <2> QED
    BY <1>6, <2>1 DEF Relabel
<1>7. ASSUME NEW f \in Finalizers, AddFinalizer(k, f) \/ RemoveFinalizer(k, f)
      PROVE  \E o \in Object \cup {None} : Write(k, o) /\ api[k] # None /\ (o # None => o.uid = api[k].uid)
  <2>1. api[k] \in Object
    BY <1>2, <1>7 DEF AddFinalizer, RemoveFinalizer
  <2>2. /\ [api[k] EXCEPT !.finalizers = @ \cup {f}] \in Object
        /\ [api[k] EXCEPT !.finalizers = @ \cup {f}].uid = api[k].uid
    BY <2>1 DEF Object
  <2>3. /\ [api[k] EXCEPT !.finalizers = @ \ {f}] \in Object
        /\ [api[k] EXCEPT !.finalizers = @ \ {f}].uid = api[k].uid
    BY <2>1 DEF Object
  <2> QED
    BY <1>7, <2>2, <2>3 DEF AddFinalizer, RemoveFinalizer
<1>8. CASE Delete(k)
  <2>1. /\ [api[k] EXCEPT !.terminating = TRUE] \in Object
        /\ [api[k] EXCEPT !.terminating = TRUE].uid = api[k].uid
    BY <1>2, <1>8 DEF Delete, Object
  <2>2. PICK o \in Object \cup {None} : Write(k, o) /\ (o # None => o.uid = api[k].uid)
    BY <1>8, <2>1 DEF Delete
  <2> QED
    BY <1>8, <2>2 DEF Delete
<1> QED
  BY <1>4, <1>5, <1>6, <1>7, <1>8 DEF Environment

\* A new object has a uid no earlier object of its name had.
LEMMA CreateShape ==
    ASSUME TypeOK, NEW k \in Keys, Create(k)
    PROVE  /\ \E o \in Object : o.uid = created[k] + 1 /\ Put(k, o)
           /\ created' = [created EXCEPT ![k] = created[k] + 1]
           /\ created' \in [Keys -> Nat]
<1>1. [t \in Types |-> None] \in Conditions
  BY DEF Conditions
<1>2. created[k] + 1 \in Nat
  BY DEF TypeOK
<1> DEFINE new(label, fs) == [uid |-> created[k] + 1, conds |-> [t \in Types |-> None], label |-> label,
                              terminating |-> FALSE, finalizers |-> fs]
<1>3. \A label \in Labels, fs \in SUBSET Finalizers :
         new(label, fs) \in Object /\ new(label, fs).uid = created[k] + 1
  BY <1>1, <1>2 DEF Object
<1> QED
  BY <1>2, <1>3 DEF Create, TypeOK

\* A write of the environment touches nothing but the API server.
LEMMA EnvironmentShape ==
    ASSUME TypeOK, NEW k \in Keys, Environment(k)
    PROVE  /\ api' \in [Keys -> Object \cup {None}]
           /\ created' \in [Keys -> Nat]
           /\ writes' \in Nat
           /\ UNCHANGED <<cache, queue, delayed, controller, metrics>>
<1>1. \A o \in Object \cup {None} : Put(k, o) =>
          /\ api' \in [Keys -> Object \cup {None}]
          /\ writes' \in Nat
          /\ UNCHANGED <<cache, queue, delayed, controller, metrics>>
  BY DEF Put, TypeOK
<1>2. CASE Create(k)
  BY <1>1, <1>2, CreateShape
<1>3. CASE \E o \in Object \cup {None} : Write(k, o)
  BY <1>1, <1>3 DEF Write, TypeOK
<1> QED
  BY <1>2, <1>3, WriteKeepsUid

\* TypeOK is inductive.
LEMMA TypeStep ==
    ASSUME TypeOK, [Next]_vars
    PROVE  TypeOK'
<1>1. ASSUME NEW k \in Keys, Environment(k) PROVE TypeOK'
  BY <1>1, EnvironmentShape DEF TypeOK, controller, metrics
<1>2. ASSUME NEW k \in Keys, Deliver(k) PROVE TypeOK'
  BY <1>2 DEF Deliver, TypeOK, controller, metrics
<1>3. ASSUME NEW k \in Keys, Timer(k) PROVE TypeOK'
  BY <1>3 DEF Timer, TypeOK, controller, metrics
<1>4. ASSUME NEW k \in Keys, ReconcileError(k) PROVE TypeOK'
  BY <1>4 DEF ReconcileError, TypeOK, controller, metrics
<1>5. CASE UNCHANGED vars
  BY <1>5 DEF vars, TypeOK, controller, metrics
<1> QED
  BY <1>1, <1>2, <1>3, <1>4, <1>5, FoundType, NotFoundType DEF Next, Reconcile

\* Type correctness for any number of objects and writes: every gauge holds
\* only series with its own labels.
THEOREM TypeCorrect == Spec => []TypeOK
<1>1. Init => TypeOK
  <2>1. [t \in Types |-> None] \in Conditions
    BY DEF Conditions
  <2>2. Existing \subseteq Object \cup {None}
    BY <2>1 DEF Existing, Object
  <2> QED
    BY <2>2 DEF Init, TypeOK
<1>2. TypeOK /\ [Next]_vars => TypeOK'
  BY TypeStep
<1> QED
  BY <1>1, <1>2, PTL DEF Spec

-----------------------------------------------------------------------------
(* The condition gauges are exact.                                         *)

\* What was observed of k, as the two loops of reconcile use it.
LEMMA LastType ==
    ASSUME TypeOK, NEW k \in Keys
    PROVE  /\ LastObserved(k).conds \in Conditions
           /\ observed[k] # None => LastObserved(k) = observed[k] /\ observed[k].label \in Labels
           /\ observed[k] = None => Present(LastObserved(k).conds) = {}
<1>1. [t \in Types |-> None] \in Conditions
  BY DEF Conditions
<1>2. CASE observed[k] = None
  BY <1>1, <1>2 DEF LastObserved, NothingObserved, Present
<1>3. CASE observed[k] # None
  BY <1>3 DEF LastObserved, Observation, TypeOK
<1> QED
  BY <1>2, <1>3

\* One look at an object: set the current series, delete the stale ones.
LEMMA ObserveExact ==
    ASSUME TypeOK, ConditionSeriesExact, NEW k \in Keys, NEW o \in Object, Observe(k, o)
    PROVE  ConditionSeriesExact'
<1> DEFINE current == StatusConditions(o.conds)
           last == LastObserved(k)
           new == SeriesOf(k, current, o.label)
           stale == StalePatterns(k, last, current, o.label)
<1>1. current \in Conditions /\ last.conds \in Conditions
  BY ConditionsType, LastType DEF Object
<1>2. conditionSeries' = {s \in conditionSeries \cup new : ~\E p \in stale : Matches(s, p)}
  BY DEF Observe, Without
<1>3. observed' = [observed EXCEPT ![k] = [conds |-> current, label |-> o.label]]
  BY DEF Observe
<1>4. \A s \in conditionSeries : s = GaugeLabels(s.name, s.type, [status |-> s.status, reason |-> s.reason], s.label)
  BY DEF TypeOK, SeriesUniverse, GaugeLabels
<1>5. SeriesNamed(conditionSeries, k) = {GaugeLabels(k, t, last.conds[t], last.label) : t \in Present(last.conds)}
  <2>1. CASE observed[k] = None
    BY <2>1, LastType DEF ConditionSeriesExact
  <2>2. CASE observed[k] # None
    BY <2>2, LastType DEF ConditionSeriesExact, SeriesOf
  <2> QED
    BY <2>1, <2>2
<1>6. ASSUME NEW j \in Keys \ {k}
      PROVE  SeriesNamed(conditionSeries', j) = SeriesNamed(conditionSeries, j)
  <2>1. \A s \in new : s.name = k
    BY DEF SeriesOf, GaugeLabels
  <2>2. ASSUME NEW s \in conditionSeries, s.name = j, NEW p \in stale
        PROVE  ~Matches(s, p)
    <3>1. PICK t \in Stale(last, current, o.label) :
             p = IF o.label # last.label
                 THEN GaugeLabels(k, t, last.conds[t], last.label)
                 ELSE DeprecatedLabels(k, t, last.conds[t])
      BY <2>2 DEF StalePatterns
    <3>2. s = GaugeLabels(j, s.type, [status |-> s.status, reason |-> s.reason], s.label) /\ j # k
      BY <1>4, <1>6, <2>2
    <3>3. /\ ~Matches(s, GaugeLabels(k, t, last.conds[t], last.label))
          /\ ~Matches(s, DeprecatedLabels(k, t, last.conds[t]))
      BY ONLY <3>2, MatchGauge, MatchAnyLabel
    <3> QED
      BY <3>1, <3>3
  <2> QED
    BY <1>2, <1>6, <2>1, <2>2 DEF SeriesNamed
<1>7. ASSUME NEW s \in SeriesNamed(conditionSeries', k)
      PROVE  s \in new
  <2>1. s.name = k /\ s \in conditionSeries \cup new /\ \A p \in stale : ~Matches(s, p)
    BY <1>2, <1>7 DEF SeriesNamed
  <2>2. SUFFICES ASSUME s \in conditionSeries PROVE s \in new
    BY <2>1
  <2>3. PICK t \in Present(last.conds) : s = GaugeLabels(k, t, last.conds[t], last.label)
    BY <1>5, <2>1, <2>2 DEF SeriesNamed
  <2>4. t \notin Stale(last, current, o.label)
    <3>1. SUFFICES ASSUME t \in Stale(last, current, o.label) PROVE FALSE
      OBVIOUS
    <3>2. CASE o.label # last.label
      <4>1. GaugeLabels(k, t, last.conds[t], last.label) \in stale
        BY <3>1, <3>2 DEF StalePatterns
      <4> QED
        BY <2>1, <2>3, <4>1, MatchGauge
    <3>3. CASE o.label = last.label
      <4>1. DeprecatedLabels(k, t, last.conds[t]) \in stale
        BY <3>1, <3>3 DEF StalePatterns
      <4> QED
        BY <2>1, <2>3, <4>1, MatchAnyLabel
    <3> QED
      BY <3>2, <3>3
  <2>5. /\ current[t] # None /\ o.label = last.label
        /\ current[t].status = last.conds[t].status /\ current[t].reason = last.conds[t].reason
    BY <2>3, <2>4 DEF Stale
  <2>6. t \in Present(current) /\ s = GaugeLabels(k, t, current[t], o.label)
    BY <2>3, <2>5 DEF Present, GaugeLabels
  <2> QED
    BY <2>6 DEF SeriesOf
<1>8. ASSUME NEW s \in new
      PROVE  s \in SeriesNamed(conditionSeries', k)
  <2>1. PICK t \in Present(current) : s = GaugeLabels(k, t, current[t], o.label)
    BY <1>8 DEF SeriesOf
  <2>2. ASSUME NEW p \in stale PROVE ~Matches(s, p)
    <3>1. PICK u \in Stale(last, current, o.label) :
             p = IF o.label # last.label
                 THEN GaugeLabels(k, u, last.conds[u], last.label)
                 ELSE DeprecatedLabels(k, u, last.conds[u])
      BY <2>2 DEF StalePatterns
    <3>2. CASE o.label # last.label
      BY <2>1, <3>1, <3>2, MatchGauge
    <3>3. CASE o.label = last.label
      <4>1. u = t => current[t].status # last.conds[t].status \/ current[t].reason # last.conds[t].reason
        BY <2>1, <3>3 DEF Stale, Present
      <4> QED
        BY <2>1, <3>1, <3>3, <4>1, MatchAnyLabel
    <3> QED
      BY <3>2, <3>3
  <2>3. s.name = k
    BY <2>1 DEF GaugeLabels
  <2> QED
    BY <1>2, <1>8, <2>2, <2>3 DEF SeriesNamed
<1>9. SeriesNamed(conditionSeries', k) = new
  BY <1>7, <1>8
<1>10. ASSUME NEW j \in Keys
       PROVE  SeriesNamed(conditionSeries', j) =
                IF observed'[j] = None THEN {} ELSE SeriesOf(j, observed'[j].conds, observed'[j].label)
  <2>1. CASE j = k
    <3>1. observed'[k] = [conds |-> current, label |-> o.label]
      BY <1>3 DEF TypeOK
    <3>2. observed'[k] # None
      <4>1. observed'[k] \in Observation
        BY <1>1, <3>1 DEF Object, Observation
      <4> QED
        BY <4>1, ControllerAssumption
    <3> QED
      BY <1>9, <2>1, <3>1, <3>2
  <2>2. CASE j # k
    BY <1>3, <1>6, <2>2 DEF ConditionSeriesExact, TypeOK
  <2> QED
    BY <2>1, <2>2
<1> QED
  BY <1>10 DEF ConditionSeriesExact, SeriesNamed

\* The NotFound path deletes by name.
LEMMA ForgetExact ==
    ASSUME TypeOK, NEW k \in Keys, Forget(k)
    PROVE  /\ ConditionSeriesExact => ConditionSeriesExact'
           /\ DeprecatedSeriesKept /\ entangled' = entangled \ {k} => DeprecatedSeriesKept'
<1>1. \A s \in conditionSeries : Matches(s, [name |-> k]) <=> s.name = k
  BY DEF TypeOK, SeriesUniverse, Matches
<1>2. \A s \in deprecatedSeries : Matches(s, [name |-> k]) <=> s.name = k
  BY DEF TypeOK, DeprecatedUniverse, Matches
<1>3. conditionSeries' = {s \in conditionSeries : s.name # k}
  BY <1>1 DEF Forget, Without
<1>4. deprecatedSeries' = {s \in deprecatedSeries : s.name # k}
  BY <1>2 DEF Forget, Without
<1>5. observed'[k] = None /\ \A j \in Keys \ {k} : observed'[j] = observed[j]
  BY DEF Forget, TypeOK
<1>6. ASSUME ConditionSeriesExact PROVE ConditionSeriesExact'
  BY <1>3, <1>5, <1>6 DEF ConditionSeriesExact, SeriesNamed
<1>7. ASSUME DeprecatedSeriesKept, entangled' = entangled \ {k} PROVE DeprecatedSeriesKept'
  <2>1. SeriesNamed(deprecatedSeries', k) = {} /\ DeprecatedExpected(k)' = {}
    BY <1>4, <1>5 DEF SeriesNamed, DeprecatedExpected
  <2>2. \A j \in Keys \ {k} : /\ SeriesNamed(deprecatedSeries', j) = SeriesNamed(deprecatedSeries, j)
                             /\ DeprecatedExpected(j)' = DeprecatedExpected(j)
    BY <1>4, <1>5 DEF SeriesNamed, DeprecatedExpected
  <2> QED
    BY <1>7, <2>1, <2>2 DEF DeprecatedSeriesKept, SeriesNamed
<1> QED
  BY <1>6, <1>7

\* Every step that is not a reconcile leaves the gauges and what was observed.
LEMMA OtherSteps ==
    ASSUME TypeOK, NEW k \in Keys, Environment(k) \/ Deliver(k) \/ Timer(k) \/ ReconcileError(k)
    PROVE  UNCHANGED <<controller, metrics>>
<1>1. CASE Environment(k)
  BY <1>1, EnvironmentShape
<1> QED
  BY <1>1 DEF Deliver, Timer, ReconcileError

\* The condition gauges always hold exactly the conditions of the objects
\* seen last, for any objects, types, reasons and label values: nothing leaks
\* when status, reason, label or object change together between two looks.
THEOREM GaugesExact == Spec => []ConditionSeriesExact
<1>1. Init => ConditionSeriesExact
  BY DEF Init, ConditionSeriesExact, SeriesNamed
<1>2. ASSUME TypeOK, ConditionSeriesExact, [Next]_vars
      PROVE  ConditionSeriesExact'
  <2>1. ASSUME NEW k \in Keys, ReconcileFound(k) PROVE ConditionSeriesExact'
    <3>1. cache[k] \in Object /\ Observe(k, cache[k])
      BY <1>2, <2>1 DEF ReconcileFound, TypeOK
    <3> QED
      BY <1>2, <3>1, ObserveExact
  <2>2. ASSUME NEW k \in Keys, ReconcileNotFound(k) PROVE ConditionSeriesExact'
    BY <1>2, <2>2, ForgetExact DEF ReconcileNotFound
  <2>3. CASE UNCHANGED <<controller, metrics>>
    BY <1>2, <2>3 DEF controller, metrics, ConditionSeriesExact, SeriesNamed
  <2>4. CASE UNCHANGED vars
    BY <2>3, <2>4 DEF vars, controller, metrics
  <2> QED
    BY <1>2, <2>1, <2>2, <2>3, <2>4, OtherSteps DEF Next, Reconcile
<1> QED
  BY <1>1, <1>2, TypeCorrect, PTL DEF Spec

-----------------------------------------------------------------------------
(* The deprecated gauges.                                                  *)

\* One look at an object: the deletions spare what was just set, and miss an
\* old series only if its label changed along with a condition.
LEMMA ObserveDeprecated ==
    ASSUME TypeOK, DeprecatedSeriesKept, NEW k \in Keys, NEW o \in Object, Observe(k, o)
    PROVE  DeprecatedSeriesKept'
<1> DEFINE current == StatusConditions(o.conds)
           last == LastObserved(k)
           new == DeprecatedSeriesOf(k, current)
           stale == StalePatterns(k, last, current, o.label)
<1>1. current \in Conditions /\ last.conds \in Conditions /\ o.label \in Labels
  BY ConditionsType, LastType DEF Object
<1>2. deprecatedSeries' = {s \in deprecatedSeries \cup new : ~\E p \in stale : Matches(s, p)}
  BY DEF Observe, Without
<1>3. observed' = [observed EXCEPT ![k] = [conds |-> current, label |-> o.label]]
  BY DEF Observe
<1>4. \A s \in deprecatedSeries : s = DeprecatedLabels(s.name, s.type, [status |-> s.status, reason |-> s.reason])
  BY DEF TypeOK, DeprecatedUniverse, DeprecatedLabels
<1>5. DeprecatedExpected(k) = {DeprecatedLabels(k, t, last.conds[t]) : t \in Present(last.conds)}
  <2>1. CASE observed[k] = None
    BY <2>1, LastType DEF DeprecatedExpected
  <2>2. CASE observed[k] # None
    BY <2>2, LastType DEF DeprecatedExpected, DeprecatedSeriesOf
  <2> QED
    BY <2>1, <2>2
<1>6. ASSUME NEW p \in stale
      PROVE  \E t \in Stale(last, current, o.label) :
                 p = IF o.label # last.label
                     THEN GaugeLabels(k, t, last.conds[t], last.label)
                     ELSE DeprecatedLabels(k, t, last.conds[t])
  BY <1>6 DEF StalePatterns
<1>7. ASSUME NEW t \in Altered(last, current), o.label = last.label
      PROVE  DeprecatedLabels(k, t, last.conds[t]) \in stale
  BY <1>7 DEF StalePatterns, Stale, Altered
<1>8. ASSUME NEW j \in Keys \ {k}
      PROVE  SeriesNamed(deprecatedSeries', j) = SeriesNamed(deprecatedSeries, j)
  <2>1. \A s \in new : s.name = k
    BY DEF DeprecatedSeriesOf, DeprecatedLabels
  <2>2. ASSUME NEW s \in deprecatedSeries, s.name = j, NEW p \in stale
        PROVE  ~Matches(s, p)
    <3>1. PICK t : \/ p = GaugeLabels(k, t, last.conds[t], last.label)
                   \/ p = DeprecatedLabels(k, t, last.conds[t])
      BY <1>6, <2>2
    <3>2. s = DeprecatedLabels(j, s.type, [status |-> s.status, reason |-> s.reason]) /\ j # k
      BY <1>4, <1>8, <2>2
    <3>3. /\ ~Matches(s, DeprecatedLabels(k, t, last.conds[t]))
          /\ ~Matches(s, GaugeLabels(k, t, last.conds[t], last.label))
      BY ONLY <3>2, MatchDeprecated
    <3> QED
      BY <3>1, <3>3
  <2> QED
    BY <1>2, <1>8, <2>1, <2>2 DEF SeriesNamed
<1>9. ASSUME NEW s \in new
      PROVE  s \in SeriesNamed(deprecatedSeries', k)
  <2>1. PICK t \in Present(current) : s = DeprecatedLabels(k, t, current[t])
    BY <1>9 DEF DeprecatedSeriesOf
  <2>2. ASSUME NEW p \in stale PROVE ~Matches(s, p)
    <3>1. PICK u \in Stale(last, current, o.label) :
             p = IF o.label # last.label
                 THEN GaugeLabels(k, u, last.conds[u], last.label)
                 ELSE DeprecatedLabels(k, u, last.conds[u])
      BY <1>6, <2>2
    <3>2. CASE o.label # last.label
      BY <2>1, <3>1, <3>2, MatchDeprecated
    <3>3. CASE o.label = last.label
      <4>1. u = t => current[t].status # last.conds[t].status \/ current[t].reason # last.conds[t].reason
        BY <2>1, <3>3 DEF Stale, Present
      <4> QED
        BY <2>1, <3>1, <3>3, <4>1, MatchDeprecated
    <3> QED
      BY <3>2, <3>3
  <2>3. s.name = k
    BY <2>1 DEF DeprecatedLabels
  <2> QED
    BY <1>2, <1>9, <2>2, <2>3 DEF SeriesNamed
<1>10. ASSUME k \notin entangled', NEW s \in SeriesNamed(deprecatedSeries', k)
       PROVE  s \in new
  <2>1. s.name = k /\ s \in deprecatedSeries \cup new /\ \A p \in stale : ~Matches(s, p)
    BY <1>2, <1>10 DEF SeriesNamed
  <2>2. SUFFICES ASSUME s \in deprecatedSeries PROVE s \in new
    BY <2>1
  <2>3. k \notin entangled /\ (o.label = last.label \/ Altered(last, current) = {})
    BY <1>10 DEF Observe
  <2>4. PICK t \in Present(last.conds) : s = DeprecatedLabels(k, t, last.conds[t])
    BY <1>5, <2>1, <2>2, <2>3 DEF SeriesNamed, DeprecatedSeriesKept
  <2>5. t \notin Altered(last, current)
    <3>1. SUFFICES ASSUME t \in Altered(last, current) PROVE FALSE
      OBVIOUS
    <3>2. DeprecatedLabels(k, t, last.conds[t]) \in stale
      BY <1>7, <2>3, <3>1
    <3> QED
      BY <2>1, <2>4, <3>2, MatchDeprecated
  <2>6. /\ current[t] # None
        /\ current[t].status = last.conds[t].status /\ current[t].reason = last.conds[t].reason
    BY <2>4, <2>5 DEF Altered, Stale
  <2>7. t \in Present(current) /\ s = DeprecatedLabels(k, t, current[t])
    BY <2>4, <2>6 DEF Present, DeprecatedLabels
  <2> QED
    BY <2>7 DEF DeprecatedSeriesOf
<1>11. DeprecatedExpected(k)' = new
  <2>1. observed'[k] = [conds |-> current, label |-> o.label]
    BY <1>3 DEF TypeOK
  <2>2. observed'[k] \in Observation
    BY <1>1, <2>1 DEF Observation
  <2> QED
    BY <2>1, <2>2, ControllerAssumption DEF DeprecatedExpected
<1>12. \A j \in Keys \ {k} : DeprecatedExpected(j)' = DeprecatedExpected(j) /\ (j \in entangled' <=> j \in entangled)
  BY <1>3 DEF DeprecatedExpected, TypeOK, Observe
<1> QED
  BY <1>8, <1>9, <1>10, <1>11, <1>12 DEF DeprecatedSeriesKept, SeriesNamed

\* The deprecated gauges never miss a present condition, and keep an old one
\* only where its label changed with it, for any objects, types and labels.
THEOREM DeprecatedGaugesKept == Spec => []DeprecatedSeriesKept
<1>1. Init => DeprecatedSeriesKept
  BY DEF Init, DeprecatedSeriesKept, DeprecatedExpected, SeriesNamed
<1>2. ASSUME TypeOK, DeprecatedSeriesKept, [Next]_vars
      PROVE  DeprecatedSeriesKept'
  <2>1. ASSUME NEW k \in Keys, ReconcileFound(k) PROVE DeprecatedSeriesKept'
    <3>1. cache[k] \in Object /\ Observe(k, cache[k])
      BY <1>2, <2>1 DEF ReconcileFound, TypeOK
    <3> QED
      BY <1>2, <3>1, ObserveDeprecated
  <2>2. ASSUME NEW k \in Keys, ReconcileNotFound(k) PROVE DeprecatedSeriesKept'
    BY <1>2, <2>2, ForgetExact DEF ReconcileNotFound
  <2>3. CASE UNCHANGED <<controller, metrics>>
    BY <1>2, <2>3 DEF controller, metrics, DeprecatedSeriesKept, DeprecatedExpected, SeriesNamed
  <2>4. CASE UNCHANGED vars
    BY <2>3, <2>4 DEF vars, controller, metrics
  <2> QED
    BY <1>2, <2>1, <2>2, <2>3, <2>4, OtherSteps DEF Next, Reconcile
<1> QED
  BY <1>1, <1>2, TypeCorrect, PTL DEF Spec

-----------------------------------------------------------------------------
(* No request is lost.                                                     *)

\* An object that was seen is looked at again, whatever Get answers: the
\* request is due, or waits for its delay, until a NotFound cleans it up.
THEOREM RequestsKept == Spec => []NeverForgotten
<1>1. Init => NeverForgotten
  BY DEF Init, NeverForgotten
<1>2. ASSUME TypeOK, NeverForgotten, [Next]_vars
      PROVE  NeverForgotten'
  <2>1. ASSUME NEW k \in Keys, ReconcileFound(k) PROVE NeverForgotten'
    BY <1>2, <2>1 DEF ReconcileFound, Observe, NeverForgotten, TypeOK
  <2>2. ASSUME NEW k \in Keys, ReconcileNotFound(k) PROVE NeverForgotten'
    BY <1>2, <2>2 DEF ReconcileNotFound, Forget, NeverForgotten, TypeOK
  <2>3. ASSUME NEW k \in Keys, Environment(k) PROVE NeverForgotten'
    BY <1>2, <2>3, EnvironmentShape DEF NeverForgotten, controller
  <2>4. ASSUME NEW k \in Keys, Deliver(k) PROVE NeverForgotten'
    BY <1>2, <2>4 DEF Deliver, NeverForgotten, controller, TypeOK
  <2>5. ASSUME NEW k \in Keys, Timer(k) PROVE NeverForgotten'
    BY <1>2, <2>5 DEF Timer, NeverForgotten, controller
  <2>6. ASSUME NEW k \in Keys, ReconcileError(k) PROVE NeverForgotten'
    BY <1>2, <2>6 DEF ReconcileError, NeverForgotten, controller
  <2>7. CASE UNCHANGED vars
    BY <1>2, <2>7 DEF vars, NeverForgotten, controller
  <2> QED
    BY <1>2, <2>1, <2>2, <2>3, <2>4, <2>5, <2>6, <2>7 DEF Next, Reconcile
<1> QED
  BY <1>1, <1>2, TypeCorrect, PTL DEF Spec

\* A request has a termination series exactly while its terminating object is
\* remembered, so the NotFound that drops the series observes the duration.
THEOREM TerminationKept == Spec => []TerminationRemembered
<1>1. Init => TerminationRemembered
  BY DEF Init, TerminationRemembered, SeriesNamed
<1>2. ASSUME TypeOK, TerminationRemembered, [Next]_vars
      PROVE  TerminationRemembered'
  <2>1. ASSUME NEW k \in Keys, ReconcileFound(k) PROVE TerminationRemembered'
    <3> DEFINE o == cache[k]
               s == [name |-> k, label |-> o.label]
    <3>1. CASE o.terminating
      <4>1. /\ terminationSeries' = terminationSeries \cup {s}
            /\ terminatingObjects' = [terminatingObjects EXCEPT ![k] = o]
            /\ o # None
        BY <2>1, <3>1 DEF ReconcileFound, Observe, TerminationSet
      <4>2. s.name = k
        OBVIOUS
      <4>3. \A j \in Keys \ {k} : SeriesNamed(terminationSeries', j) = SeriesNamed(terminationSeries, j)
        BY <4>1, <4>2 DEF SeriesNamed
      <4>4. s \in SeriesNamed(terminationSeries', k)
        BY <4>1, <4>2 DEF SeriesNamed
      <4>5. terminatingObjects'[k] = o /\ \A j \in Keys \ {k} : terminatingObjects'[j] = terminatingObjects[j]
        BY <1>2, <4>1 DEF TypeOK
      <4>6. ASSUME NEW j \in Keys
            PROVE  terminatingObjects'[j] # None <=> SeriesNamed(terminationSeries', j) # {}
        BY <1>2, <4>1, <4>3, <4>4, <4>5 DEF TerminationRemembered
      <4> QED
        BY <4>6 DEF TerminationRemembered, SeriesNamed
    <3>2. CASE ~o.terminating
      BY <1>2, <2>1, <3>2 DEF ReconcileFound, Observe, TerminationSet, TerminationRemembered, SeriesNamed
    <3> QED
      BY <3>1, <3>2
  <2>2. ASSUME NEW k \in Keys, ReconcileNotFound(k) PROVE TerminationRemembered'
    <3>1. \A s \in terminationSeries : Matches(s, [name |-> k]) <=> s.name = k
      BY <1>2 DEF TypeOK, Matches
    <3>2. terminationSeries' = {s \in terminationSeries : s.name # k}
      BY <2>2, <3>1 DEF ReconcileNotFound, Forget, Without
    <3>3. terminatingObjects'[k] = None /\ \A j \in Keys \ {k} : terminatingObjects'[j] = terminatingObjects[j]
      BY <1>2, <2>2 DEF ReconcileNotFound, Terminated, TypeOK
    <3> QED
      BY <1>2, <3>2, <3>3 DEF TerminationRemembered, SeriesNamed
  <2>3. CASE UNCHANGED <<controller, metrics>>
    BY <1>2, <2>3 DEF controller, metrics, TerminationRemembered, SeriesNamed
  <2>4. CASE UNCHANGED vars
    BY <2>3, <2>4 DEF vars, controller, metrics
  <2> QED
    BY <1>2, <2>1, <2>2, <2>3, <2>4, OtherSteps DEF Next, Reconcile
<1> QED
  BY <1>1, <1>2, TypeCorrect, PTL DEF Spec

-----------------------------------------------------------------------------
(* The termination histogram.                                              *)

\* No uid is ahead of the objects created under its name.
UidBound ==
    /\ \A k \in Keys : api[k] # None => api[k].uid <= created[k]
    /\ \A k \in Keys : cache[k] # None => cache[k].uid <= created[k]
    /\ \A k \in Keys, u \in Nat : <<k, u>> \in noticed => u <= created[k]

\* What is remembered was noticed and has not been replaced.
RememberedNoticed ==
    /\ replaced \subseteq noticed
    /\ \A k \in Keys : terminatingObjects[k] # None =>
          <<k, terminatingObjects[k].uid>> \in noticed \ replaced

\* An object that is still in the cache is remembered once it was noticed.
CachedNoticed ==
    \A k \in Keys : cache[k] # None /\ <<k, cache[k].uid>> \in noticed =>
        terminatingObjects[k] # None /\ terminatingObjects[k].uid = cache[k].uid

\* What was noticed was seen in the cache: the cache does not go back.
StoredNoticed ==
    \A k \in Keys : api[k] # None /\ <<k, api[k].uid>> \in noticed =>
        cache[k] # None /\ cache[k].uid = api[k].uid

TerminationInv ==
    /\ TypeOK
    /\ UidBound
    /\ RememberedNoticed
    /\ CachedNoticed
    /\ StoredNoticed
    /\ IsFiniteSet(noticed)
    /\ TerminationsObserved

\* The types of the uids there are.
LEMMA UidType ==
    ASSUME TypeOK, NEW k \in Keys
    PROVE  /\ api[k] # None => api[k].uid \in Nat
           /\ cache[k] # None => cache[k].uid \in Nat
           /\ terminatingObjects[k] # None => terminatingObjects[k].uid \in Nat
           /\ created[k] \in Nat
BY DEF TypeOK, Object

\* Nothing was noticed yet, so nothing is to be observed.
LEMMA TerminationInit ==
    ASSUME IsFiniteSet(Keys), Init, TypeOK
    PROVE  TerminationInv
<1>1. Remembered = {} /\ noticed = {} /\ replaced = {} /\ terminationDuration = 0
  BY DEF Init, Remembered
<1>2. TerminationsObserved /\ IsFiniteSet(noticed)
  BY <1>1, FS_EmptySet DEF TerminationsObserved
<1>3. UidBound
  <2>1. \A k \in Keys : api[k] # None => api[k].uid = 1 /\ created[k] = 1
    BY DEF Init, Existing
  <2> QED
    BY <1>1, <2>1 DEF Init, UidBound
<1>4. RememberedNoticed /\ CachedNoticed /\ StoredNoticed
  BY <1>1 DEF Init, RememberedNoticed, CachedNoticed, StoredNoticed
<1> QED
  BY <1>2, <1>3, <1>4 DEF TerminationInv

\* A write leaves noticed objects alone: a new object has a new uid.
LEMMA TerminationEnvironment ==
    ASSUME TerminationInv, NEW k \in Keys, Environment(k), TypeOK'
    PROVE  TerminationInv'
<1> USE DEF TerminationInv
<1>1. UNCHANGED <<cache, terminatingObjects, noticed, replaced, terminationDuration>>
  BY EnvironmentShape DEF controller, metrics
<1>2. RememberedNoticed' /\ CachedNoticed' /\ IsFiniteSet(noticed)' /\ TerminationsObserved'
  BY <1>1 DEF RememberedNoticed, CachedNoticed, TerminationsObserved, Remembered
<1>3. UidBound' /\ StoredNoticed'
  <2>1. CASE Create(k)
    <3>1. PICK o \in Object : o.uid = created[k] + 1 /\ api' = [api EXCEPT ![k] = o]
      BY <2>1, CreateShape DEF Put
    <3>2. created' = [created EXCEPT ![k] = created[k] + 1]
      BY <2>1, CreateShape
    <3>3. api'[k] = o /\ \A j \in Keys \ {k} : api'[j] = api[j]
      BY <3>1 DEF TypeOK
    <3>4. \A j \in Keys : created[j] \in Nat
                         /\ created'[j] = IF j = k THEN created[j] + 1 ELSE created[j]
      BY <3>2 DEF TypeOK
    <3>5. <<k, o.uid>> \notin noticed
      BY <3>1, <3>4 DEF UidBound
    <3>6. UidBound'
      <4>1. \A j \in Keys : api'[j] # None => api'[j].uid <= created'[j]
        BY <3>1, <3>3, <3>4 DEF UidBound
      <4>2. \A j \in Keys : cache[j] # None => cache[j].uid <= created'[j]
        <5>1. \A j \in Keys : cache[j] # None => cache[j].uid \in Nat
          BY UidType
        <5> QED
          BY <3>4, <5>1 DEF UidBound
      <4>3. \A j \in Keys, u \in Nat : <<j, u>> \in noticed => u <= created'[j]
        BY <3>4 DEF UidBound
      <4> QED
        BY <1>1, <4>1, <4>2, <4>3 DEF UidBound
    <3> QED
      BY <1>1, <3>3, <3>5, <3>6 DEF StoredNoticed
  <2>2. CASE \E o \in Object \cup {None} : Write(k, o) /\ api[k] # None /\ (o # None => o.uid = api[k].uid)
    <3>1. PICK o \in Object \cup {None} : Write(k, o) /\ api[k] # None /\ (o # None => o.uid = api[k].uid)
      BY <2>2
    <3>2. created' = created /\ api'[k] = o /\ \A j \in Keys \ {k} : api'[j] = api[j]
      BY <3>1 DEF Write, Put, TypeOK
    <3>3. \A j \in Keys : api'[j] # None => api[j] # None /\ api'[j].uid = api[j].uid
      BY <3>1, <3>2
    <3> QED
      BY <1>1, <3>2, <3>3 DEF UidBound, StoredNoticed
  <2> QED
    BY <2>1, <2>2, WriteKeepsUid
<1> QED
  BY <1>2, <1>3

\* The informer hands over what the API server stores.
LEMMA TerminationDeliver ==
    ASSUME TerminationInv, NEW k \in Keys, Deliver(k), TypeOK'
    PROVE  TerminationInv'
<1> USE DEF TerminationInv
<1>1. UNCHANGED <<api, created, terminatingObjects, noticed, replaced, terminationDuration>>
  BY DEF Deliver, controller, metrics
<1>2. cache'[k] = api[k] /\ \A j \in Keys \ {k} : cache'[j] = cache[j]
  BY DEF Deliver, TypeOK
<1>3. RememberedNoticed' /\ IsFiniteSet(noticed)' /\ TerminationsObserved'
  BY <1>1 DEF RememberedNoticed, TerminationsObserved, Remembered
<1>4. UidBound' /\ StoredNoticed'
  BY <1>1, <1>2 DEF UidBound, StoredNoticed
<1>5. CachedNoticed'
  BY <1>1, <1>2 DEF CachedNoticed, StoredNoticed
<1> QED
  BY <1>3, <1>4, <1>5

\* A look at an object that is terminating: it is noticed for the first time,
\* with or without another one to replace, or it is the one remembered.
LEMMA TerminationFound ==
    ASSUME IsFiniteSet(Keys), TerminationInv, NEW k \in Keys, ReconcileFound(k), TypeOK'
    PROVE  TerminationInv'
<1> USE DEF TerminationInv
<1> DEFINE o == cache[k]
           t == terminatingObjects[k]
           n == <<k, o.uid>>
<1>1. UNCHANGED <<api, cache, created, terminationDuration>> /\ o # None /\ o \in Object /\ o.uid \in Nat
  BY UidType DEF ReconcileFound, TypeOK
<1>2. CASE ~o.terminating
  <2>1. UNCHANGED <<terminatingObjects, noticed, replaced>>
    BY <1>2 DEF ReconcileFound, Observe
  <2> QED
    BY <1>1, <2>1 DEF UidBound, RememberedNoticed, CachedNoticed, StoredNoticed, TerminationsObserved, Remembered
<1>3. CASE o.terminating
  <2>1. /\ terminatingObjects'[k] = o
        /\ \A j \in Keys \ {k} : terminatingObjects'[j] = terminatingObjects[j]
        /\ noticed' = noticed \cup {n}
        /\ replaced' = IF t # None /\ t.uid # o.uid THEN replaced \cup {<<k, t.uid>>} ELSE replaced
    BY <1>3 DEF ReconcileFound, Observe, TypeOK
  <2>2. n \in noticed <=> t # None /\ t.uid = o.uid
    BY <1>1 DEF CachedNoticed, RememberedNoticed
  <2>3. t # None => <<k, t.uid>> \in noticed \ replaced
    BY DEF RememberedNoticed
  <2>4. UidBound'
    <3>1. \A j \in Keys, u \in Nat : <<j, u>> \in noticed' => u <= created[j]
      BY <1>1, <2>1 DEF UidBound
    <3> QED
      BY <1>1, <3>1 DEF UidBound
  <2>5. RememberedNoticed'
    <3>1. replaced' \subseteq noticed'
      BY <2>1, <2>3 DEF RememberedNoticed
    <3>2. n \notin replaced'
      BY <2>1, <2>2, <2>3 DEF RememberedNoticed
    <3>3. ASSUME NEW j \in Keys \ {k}, terminatingObjects[j] # None
          PROVE  <<j, terminatingObjects[j].uid>> \in noticed' \ replaced'
      <4>1. <<j, terminatingObjects[j].uid>> \in noticed \ replaced
        BY <3>3 DEF RememberedNoticed
      <4>2. <<j, terminatingObjects[j].uid>> # <<k, t.uid>>
        OBVIOUS
      <4> QED
        BY <2>1, <4>1, <4>2
    <3> QED
      BY <2>1, <3>1, <3>2, <3>3 DEF RememberedNoticed
  <2>6. CachedNoticed' /\ StoredNoticed'
    <3>1. \A j \in Keys \ {k}, u \in Nat : <<j, u>> \in noticed' => <<j, u>> \in noticed
      BY <2>1
    <3>2. \A j \in Keys : cache[j] # None => cache[j].uid \in Nat
      BY UidType
    <3>3. \A j \in Keys : api[j] # None => api[j].uid \in Nat
      BY UidType
    <3>4. CachedNoticed'
      BY <1>1, <2>1, <3>1, <3>2 DEF CachedNoticed
    <3>5. ASSUME api[k] # None, <<k, api[k].uid>> \in noticed' PROVE cache[k].uid = api[k].uid
      <4>1. CASE <<k, api[k].uid>> = n
        BY <4>1
      <4>2. CASE <<k, api[k].uid>> \in noticed
        BY <3>5, <4>2 DEF StoredNoticed
      <4> QED
        BY <2>1, <3>5, <4>1, <4>2
    <3>6. StoredNoticed'
      BY <1>1, <3>1, <3>3, <3>5 DEF StoredNoticed
    <3> QED
      BY <3>4, <3>6
  <2>7. IsFiniteSet(noticed')
    BY <2>1, FS_AddElement
  <2>8. TerminationsObserved'
    <3>1. /\ IsFiniteSet(noticed) /\ IsFiniteSet(replaced) /\ IsFiniteSet(Remembered)
          /\ Cardinality(noticed) \in Nat /\ Cardinality(replaced) \in Nat /\ Cardinality(Remembered) \in Nat
      BY FS_Subset, FS_CardinalityType DEF RememberedNoticed, Remembered
    <3>2. Cardinality(noticed') = IF t # None /\ t.uid = o.uid THEN Cardinality(noticed) ELSE Cardinality(noticed) + 1
      BY <2>1, <2>2, <3>1, FS_AddElement
    <3>3. Cardinality(replaced') = IF t # None /\ t.uid # o.uid THEN Cardinality(replaced) + 1 ELSE Cardinality(replaced)
      BY <2>1, <2>3, <3>1, FS_AddElement
    <3>4. Cardinality(Remembered') = IF t # None THEN Cardinality(Remembered) ELSE Cardinality(Remembered) + 1
      <4>1. Remembered' = Remembered \cup {k} /\ (k \in Remembered <=> t # None)
        BY <1>1, <2>1 DEF Remembered
      <4> QED
        BY <3>1, <4>1, FS_AddElement
    <3>5. Cardinality(noticed') = terminationDuration + Cardinality(replaced') + Cardinality(Remembered')
      <4>1. terminationDuration \in Nat
        BY DEF TypeOK
      <4>2. Cardinality(noticed) = terminationDuration + Cardinality(replaced) + Cardinality(Remembered)
        BY DEF TerminationsObserved
      <4> HIDE DEF t, o, n
      <4> QED
        BY ONLY <3>1, <3>2, <3>3, <3>4, <4>1, <4>2
    <3> QED
      BY <1>1, <3>5 DEF TerminationsObserved
  <2> QED
    BY <2>4, <2>5, <2>6, <2>7, <2>8
<1> QED
  BY <1>2, <1>3

\* NotFound observes what is remembered and forgets it.
LEMMA TerminationNotFound ==
    ASSUME IsFiniteSet(Keys), TerminationInv, NEW k \in Keys, ReconcileNotFound(k), TypeOK'
    PROVE  TerminationInv'
<1> USE DEF TerminationInv
<1>1. UNCHANGED <<api, cache, created, noticed, replaced>> /\ cache[k] = None
  BY DEF ReconcileNotFound
<1>2. /\ terminatingObjects'[k] = None
      /\ \A j \in Keys \ {k} : terminatingObjects'[j] = terminatingObjects[j]
      /\ terminationDuration' = terminationDuration + IF terminatingObjects[k] # None THEN 1 ELSE 0
  BY DEF ReconcileNotFound, Terminated, TypeOK
<1>3. UidBound' /\ StoredNoticed' /\ RememberedNoticed' /\ CachedNoticed' /\ IsFiniteSet(noticed)'
  BY <1>1, <1>2 DEF UidBound, StoredNoticed, RememberedNoticed, CachedNoticed
<1>4. TerminationsObserved'
  <2>1. Remembered' = Remembered \ {k} /\ (k \in Remembered <=> terminatingObjects[k] # None)
    BY <1>2 DEF Remembered
  <2>2. IsFiniteSet(Remembered) /\ Cardinality(Remembered) \in Nat
    BY FS_Subset, FS_CardinalityType DEF Remembered
  <2>3. Cardinality(Remembered') = IF terminatingObjects[k] # None THEN Cardinality(Remembered) - 1
                                   ELSE Cardinality(Remembered)
    BY <2>1, <2>2, FS_RemoveElement
  <2>4. Cardinality(replaced) \in Nat
    BY FS_Subset, FS_CardinalityType DEF RememberedNoticed
  <2>5. terminationDuration \in Nat
    BY DEF TypeOK
  <2>6. Cardinality(noticed) = terminationDuration' + Cardinality(replaced) + Cardinality(Remembered')
    BY <1>2, <2>2, <2>3, <2>4, <2>5 DEF TerminationsObserved
  <2> QED
    BY <1>1, <2>6 DEF TerminationsObserved
<1> QED
  BY <1>3, <1>4

\* With finitely many names, every object that was noticed terminating is
\* observed exactly once, still remembered, or was replaced before a NotFound
\* by another terminating object of its name; no object is observed again,
\* whatever the cache skips and however often NotFound is reconciled.
THEOREM TerminationsCounted == IsFiniteSet(Keys) => (Spec => []TerminationsObserved)
<1> SUFFICES ASSUME IsFiniteSet(Keys) PROVE Spec => []TerminationsObserved
  OBVIOUS
<1>1. Init /\ TypeOK => TerminationInv
  BY TerminationInit
<1>2. ASSUME TerminationInv, [Next]_vars
      PROVE  TerminationInv'
  <2>1. TypeOK'
    BY <1>2, TypeStep DEF TerminationInv
  <2>2. CASE \E k \in Keys : Timer(k) \/ ReconcileError(k)
    <3>1. UNCHANGED <<api, cache, created, terminatingObjects, noticed, replaced, terminationDuration>>
      BY <2>2 DEF Timer, ReconcileError, controller, metrics
    <3> QED
      BY <1>2, <2>1, <3>1 DEF TerminationInv, UidBound, StoredNoticed, RememberedNoticed, CachedNoticed,
                              TerminationsObserved, Remembered
  <2>3. CASE UNCHANGED vars
    <3>1. UNCHANGED <<api, cache, created, terminatingObjects, noticed, replaced, terminationDuration>>
      BY <2>3 DEF vars, controller, metrics
    <3> QED
      BY <1>2, <2>1, <3>1 DEF TerminationInv, UidBound, StoredNoticed, RememberedNoticed, CachedNoticed,
                              TerminationsObserved, Remembered
  <2> QED
    BY <1>2, <2>1, <2>2, <2>3, TerminationEnvironment, TerminationDeliver, TerminationFound,
       TerminationNotFound DEF Next, Reconcile
<1>3. TerminationInv => TerminationsObserved
  BY DEF TerminationInv
<1> QED
  BY <1>1, <1>2, <1>3, TypeCorrect, PTL DEF Spec

-----------------------------------------------------------------------------
(* The counters and histograms that all requests share.                    *)

\* One request enters or leaves a finite set: its size follows.
LEMMA OneMember ==
    ASSUME NEW S, NEW T, NEW k, IsFiniteSet(S), S \ {k} = T \ {k}
    PROVE  /\ IsFiniteSet(T)
           /\ Cardinality(S) \in Nat
           /\ Cardinality(T) = Cardinality(S) + (IF k \in T \ S THEN 1 ELSE 0)
                                              - (IF k \in S \ T THEN 1 ELSE 0)
<1>1. Cardinality(S) \in Nat
  BY FS_CardinalityType
<1>2. CASE k \in T \ S
  <2>1. T = S \cup {k}
    BY <1>2
  <2> QED
    BY <1>1, <1>2, <2>1, FS_AddElement
<1>3. CASE k \in S \ T
  <2>1. T = S \ {k}
    BY <1>3
  <2> QED
    BY <1>1, <1>3, <2>1, FS_RemoveElement
<1>4. CASE k \notin T \ S /\ k \notin S \ T
  <2>1. T = S
    BY <1>4
  <2> QED
    BY <1>1, <1>4, <2>1
<1> QED
  BY <1>2, <1>3, <1>4

\* Being seen in a status, by way of what was last observed.
LEMMA HeldInLast ==
    ASSUME TypeOK, NEW k \in Keys, NEW t \in Types, NEW s \in Status
    PROVE  k \in HeldIn(t, s) <=> LastObserved(k).conds[t] # None /\ LastObserved(k).conds[t].status = s
<1>1. CASE observed[k] = None
  BY <1>1 DEF HeldIn, LastObserved, NothingObserved
<1>2. CASE observed[k] # None
  BY <1>2 DEF HeldIn, LastObserved
<1> QED
  BY <1>1, <1>2

\* Counter and histogram agree for any number of objects: what was counted
\* into a status was counted out, vanished, or is still seen in it.
THEOREM CountersBalance == IsFiniteSet(Keys) => (Spec => []TransitionsBalance)
<1> SUFFICES ASSUME IsFiniteSet(Keys) PROVE Spec => []TransitionsBalance
  OBVIOUS
<1>1. Init => TransitionsBalance
  <2>1. Init => \A t \in Types, s \in {"True", "False"} : Cardinality(HeldIn(t, s)) = 0
    <3>1. Init => \A t \in Types, s \in {"True", "False"} : HeldIn(t, s) = {}
      BY DEF Init, HeldIn
    <3> QED
      BY <3>1, FS_EmptySet
  <2>2. Init => \A t \in Types, s \in {"True", "False"} :
                   transitionsTotal[t][s] = 0 /\ conditionDuration[t][s] = 0 /\ vanished[t][s] = 0
    BY DEF Init, Status
  <2> QED
    BY <2>1, <2>2 DEF TransitionsBalance
<1>2. ASSUME TypeOK, TransitionsBalance, [Next]_vars
      PROVE  TransitionsBalance'
  <2>1. ASSUME NEW k \in Keys, ReconcileFound(k) PROVE TransitionsBalance'
    <3> DEFINE current == StatusConditions(cache[k].conds)
               last == LastObserved(k)
               moved == Transitioned(last.conds, current)
    <3>1. /\ transitionsTotal' = incCounterMetric(moved, current)
          /\ conditionDuration' = observeHistogram(moved, last.conds)
          /\ vanished' = Vanish(last.conds, current)
          /\ observed' = [observed EXCEPT ![k] = [conds |-> current, label |-> cache[k].label]]
      BY <2>1 DEF ReconcileFound, Observe
    <3>2. current \in Conditions /\ cache[k].label \in Labels
      BY <1>2, <2>1, ConditionsType DEF ReconcileFound, Object, TypeOK
    <3>3. observed'[k] = [conds |-> current, label |-> cache[k].label] /\ observed'[k] # None
      <4>1. observed'[k] = [conds |-> current, label |-> cache[k].label]
        BY <1>2, <3>1 DEF TypeOK
      <4>2. observed'[k] \in Observation
        BY <3>2, <4>1 DEF Observation
      <4> QED
        BY <4>1, <4>2, ControllerAssumption
    <3>4. ASSUME NEW t \in Types, NEW s \in {"True", "False"}
          PROVE  transitionsTotal'[t][s] = conditionDuration'[t][s] + vanished'[t][s] + Cardinality(HeldIn(t, s)')
      <4> DEFINE in == HeldIn(t, s)'
                 out == HeldIn(t, s)
      <4>1. out \ {k} = in \ {k}
        BY <1>2, <3>1 DEF HeldIn, TypeOK
      <4>2. k \in out <=> last.conds[t] # None /\ last.conds[t].status = s
        BY <1>2, HeldInLast DEF Status
      <4>3. k \in in <=> current[t] # None /\ current[t].status = s
        BY <3>3 DEF HeldIn
      <4>4. t \in moved <=> current[t] # None /\ GetStatus(last.conds[t]) # current[t].status
        BY DEF Transitioned, Present
      <4>5. s \in Status /\ s # "Unknown"
        BY DEF Status
      <4>6. transitionsTotal'[t][s] = transitionsTotal[t][s] + IF k \in in \ out THEN 1 ELSE 0
        <5>1. (t \in moved /\ current[t].status = s) <=> k \in in \ out
          BY <4>2, <4>3, <4>4, <4>5 DEF GetStatus
        <5>2. transitionsTotal'[t][s] = transitionsTotal[t][s] + IF t \in moved /\ current[t].status = s THEN 1 ELSE 0
          BY <3>1, <4>5 DEF incCounterMetric
        <5> QED
          BY <5>1, <5>2
      <4>7. /\ conditionDuration'[t][s] = conditionDuration[t][s] + IF t \in moved /\ last.conds[t] # None /\ last.conds[t].status = s THEN 1 ELSE 0
            /\ vanished'[t][s] = vanished[t][s] + IF last.conds[t] # None /\ current[t] = None /\ last.conds[t].status = s THEN 1 ELSE 0
        BY <3>1, <4>5 DEF observeHistogram, Vanish
      <4>8. /\ (t \in moved /\ last.conds[t] # None /\ last.conds[t].status = s) <=> (k \in out \ in /\ current[t] # None)
            /\ (last.conds[t] # None /\ current[t] = None /\ last.conds[t].status = s) <=> (k \in out \ in /\ current[t] = None)
        BY <4>2, <4>3, <4>4 DEF GetStatus
      <4>9. /\ conditionDuration'[t][s] = conditionDuration[t][s] + IF k \in out \ in /\ current[t] # None THEN 1 ELSE 0
            /\ vanished'[t][s] = vanished[t][s] + IF k \in out \ in /\ current[t] = None THEN 1 ELSE 0
        BY <4>7, <4>8
      <4>10. IsFiniteSet(out)
        BY FS_Subset DEF HeldIn
      <4>11. /\ Cardinality(out) \in Nat
             /\ Cardinality(in) = Cardinality(out) + (IF k \in in \ out THEN 1 ELSE 0)
                                                   - (IF k \in out \ in THEN 1 ELSE 0)
        BY ONLY <4>1, <4>10, OneMember
      <4>12. /\ transitionsTotal[t][s] = conditionDuration[t][s] + vanished[t][s] + Cardinality(out)
             /\ transitionsTotal[t][s] \in Nat /\ conditionDuration[t][s] \in Nat /\ vanished[t][s] \in Nat
        BY <1>2, <4>5 DEF TransitionsBalance, TypeOK
      <4> QED
        BY ONLY <4>6, <4>9, <4>11, <4>12
    <3> QED
      BY <3>4 DEF TransitionsBalance
  <2>2. ASSUME NEW k \in Keys, ReconcileNotFound(k) PROVE TransitionsBalance'
    <3> DEFINE last == LastObserved(k)
    <3>1. /\ transitionsTotal' = transitionsTotal /\ conditionDuration' = conditionDuration
          /\ vanished' = Vanish(last.conds, NothingObserved.conds)
          /\ observed' = [observed EXCEPT ![k] = None]
      BY <2>2 DEF ReconcileNotFound, Forget
    <3>2. ASSUME NEW t \in Types, NEW s \in {"True", "False"}
          PROVE  transitionsTotal'[t][s] = conditionDuration'[t][s] + vanished'[t][s] + Cardinality(HeldIn(t, s)')
      <4> DEFINE in == HeldIn(t, s)'
                 out == HeldIn(t, s)
      <4>1. out \ {k} = in \ {k} /\ k \notin in
        BY <1>2, <3>1 DEF HeldIn, TypeOK
      <4>2. s \in Status
        BY DEF Status
      <4>3. k \in out <=> last.conds[t] # None /\ last.conds[t].status = s
        BY <1>2, <4>2, HeldInLast
      <4>4. vanished'[t][s] = vanished[t][s] + IF k \in out THEN 1 ELSE 0
        BY <3>1, <4>2, <4>3 DEF Vanish, NothingObserved
      <4>5. IsFiniteSet(out)
        BY FS_Subset DEF HeldIn
      <4>6. /\ Cardinality(out) \in Nat
            /\ Cardinality(in) = Cardinality(out) + (IF k \in in \ out THEN 1 ELSE 0)
                                                  - (IF k \in out \ in THEN 1 ELSE 0)
        BY ONLY <4>1, <4>5, OneMember
      <4>7. /\ transitionsTotal[t][s] = conditionDuration[t][s] + vanished[t][s] + Cardinality(out)
            /\ transitionsTotal[t][s] \in Nat /\ conditionDuration[t][s] \in Nat /\ vanished[t][s] \in Nat
        BY <1>2, <4>2 DEF TransitionsBalance, TypeOK
      <4> QED
        BY ONLY <3>1, <4>1, <4>4, <4>6, <4>7
    <3> QED
      BY <3>2 DEF TransitionsBalance
  <2>3. CASE UNCHANGED <<controller, metrics>>
    BY <1>2, <2>3 DEF controller, metrics, TransitionsBalance, HeldIn
  <2>4. CASE UNCHANGED vars
    BY <2>3, <2>4 DEF vars, controller, metrics
  <2> QED
    BY <1>2, <2>1, <2>2, <2>3, <2>4, OtherSteps DEF Next, Reconcile
<1> QED
  BY <1>1, <1>2, TypeCorrect, PTL DEF Spec

HasFinalizer(f) == {k \in Keys : observedFinalizers[k] # None /\ f \in observedFinalizers[k]}

\* Every finalizer that was seen and went is announced exactly once, however
\* many objects carry it.
THEOREM FinalizersCounted == IsFiniteSet(Keys) => (Spec => []FinalizersAnnounced)
<1> SUFFICES ASSUME IsFiniteSet(Keys) PROVE Spec => []FinalizersAnnounced
  OBVIOUS
<1>0. FinalizersAnnounced <=> \A f \in Finalizers : appeared[f] = finalizedEvents[f] + Cardinality(HasFinalizer(f))
  BY DEF FinalizersAnnounced, HasFinalizer
<1>1. Init => FinalizersAnnounced
  <2>1. Init => \A f \in Finalizers : HasFinalizer(f) = {}
    BY DEF Init, HasFinalizer
  <2> QED
    BY <1>0, <2>1, FS_EmptySet DEF Init
<1>2. ASSUME TypeOK, FinalizersAnnounced, NEW k \in Keys, NEW fs \in SUBSET Finalizers, NEW seen,
             RecordFinalized(k, fs), observedFinalizers' = [observedFinalizers EXCEPT ![k] = seen],
             seen = fs \/ (seen = None /\ fs = {})
      PROVE  FinalizersAnnounced'
  <2>1. ASSUME NEW f \in Finalizers
        PROVE  appeared'[f] = finalizedEvents'[f] + Cardinality(HasFinalizer(f)')
    <3> DEFINE in == HasFinalizer(f)'
               out == HasFinalizer(f)
    <3>1. out \ {k} = in \ {k}
      BY <1>2 DEF HasFinalizer, TypeOK
    <3>2. k \in out <=> observedFinalizers[k] # None /\ f \in observedFinalizers[k]
      BY DEF HasFinalizer
    <3>3. k \in in <=> f \in fs
      <4>1. observedFinalizers'[k] = seen
        BY <1>2 DEF TypeOK
      <4> QED
        BY <1>2, <4>1, ControllerAssumption DEF HasFinalizer
    <3>4. finalizedEvents'[f] = finalizedEvents[f] + IF k \in out \ in THEN 1 ELSE 0
      <4>1. f \in Finalized(k, fs) <=> k \in out \ in
        BY <3>2, <3>3 DEF Finalized
      <4> QED
        BY <1>2, <4>1 DEF RecordFinalized
    <3>5. appeared'[f] = appeared[f] + IF k \in in \ out THEN 1 ELSE 0
      <4>1. (f \in fs /\ (observedFinalizers[k] = None \/ f \notin observedFinalizers[k])) <=> k \in in \ out
        BY <3>2, <3>3
      <4>2. appeared'[f] = appeared[f] + IF f \in fs /\ (observedFinalizers[k] = None \/ f \notin observedFinalizers[k])
                                         THEN 1 ELSE 0
        BY <1>2 DEF RecordFinalized
      <4> QED
        BY <4>1, <4>2
    <3>6. IsFiniteSet(out)
      BY FS_Subset DEF HasFinalizer
    <3>7. /\ Cardinality(out) \in Nat
          /\ Cardinality(in) = Cardinality(out) + (IF k \in in \ out THEN 1 ELSE 0)
                                                - (IF k \in out \ in THEN 1 ELSE 0)
      BY ONLY <3>1, <3>6, OneMember
    <3>8. appeared[f] = finalizedEvents[f] + Cardinality(out) /\ appeared[f] \in Nat /\ finalizedEvents[f] \in Nat
      BY <1>0, <1>2 DEF TypeOK
    <3> QED
      BY ONLY <3>4, <3>5, <3>7, <3>8
  <2> QED
    BY <2>1 DEF FinalizersAnnounced, HasFinalizer
<1>3. ASSUME TypeOK, FinalizersAnnounced, [Next]_vars
      PROVE  FinalizersAnnounced'
  <2>1. ASSUME NEW k \in Keys, ReconcileFound(k) PROVE FinalizersAnnounced'
    <3>1. cache[k].finalizers \in SUBSET Finalizers
      BY <1>3, <2>1 DEF ReconcileFound, Object, TypeOK
    <3> QED
      BY <1>2, <1>3, <2>1, <3>1 DEF ReconcileFound
  <2>2. ASSUME NEW k \in Keys, ReconcileNotFound(k) PROVE FinalizersAnnounced'
    BY <1>2, <1>3, <2>2 DEF ReconcileNotFound
  <2>3. CASE UNCHANGED <<controller, metrics>>
    BY <1>3, <2>3 DEF controller, metrics, FinalizersAnnounced
  <2>4. CASE UNCHANGED vars
    BY <2>3, <2>4 DEF vars, controller, metrics
  <2> QED
    BY <1>3, <2>1, <2>2, <2>3, <2>4, OtherSteps DEF Next, Reconcile
<1> QED
  BY <1>1, <1>3, TypeCorrect, PTL DEF Spec
=============================================================================
