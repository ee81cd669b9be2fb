---------------------------- MODULE ConditionSet ----------------------------
(***************************************************************************)
(* The status conditions of one object, and the ConditionSet through which *)
(* operator code changes them (src/status/condition_set.go).               *)
(*                                                                         *)
(* An object keeps a list of conditions.  One type, the root (Ready or     *)
(* Succeeded), is never meant to be written by hand: every Set of another  *)
(* type recomputes it from the dependents.  Types that are neither are     *)
(* independent: present only while operator code wants them.  A condition  *)
(* remembers the generation of the object it was computed for, so that a   *)
(* spec change makes old verdicts stale without touching them.             *)
(*                                                                         *)
(* The list is modelled by two variables: conds, what each type says, and  *)
(* order, the types in list order.                                         *)
(***************************************************************************)
EXTENDS Integers, Sequences, FiniteSets

CONSTANTS
    Root,           \* the root condition type
    Dependents,     \* the types the root is computed from
    Independents,   \* types operator code uses beside the known ones
    Settable,       \* the types operator code passes to the setters
    Reasons,        \* reasons operator code gives
    TypeRank,       \* the alphabetical rank of a type
    NoCondition,    \* "the list holds no condition of this type"
    MaxGeneration,  \* bound on spec updates
    MaxTime         \* bound on the clock

Known == {Root} \cup Dependents
Types == Known \cup Independents
Status == {"True", "False", "Unknown"}

AllReasons ==
    Reasons \cup Types
        \cup {"AwaitingReconciliation", "ReconcilingDependents", "UnhealthyDependents"}

\* The root's message names the unhealthy dependents with their statuses;
\* messages written by operator code carry no meaning here and are empty.
Messages == SUBSET (Dependents \X Status)

Condition ==
    [status : Status, reason : AllReasons, message : Messages,
     observedGeneration : Nat, lastTransitionTime : Nat]

\* newConditionTypes removes the root from the dependents it is given.
ASSUME TypesAssumption ==
    /\ Root \notin Dependents
    /\ Independents \cap Known = {}
    /\ Settable \subseteq Types
    /\ NoCondition \notin Condition

ASSUME RankAssumption ==
    /\ TypeRank \in [Types -> Nat]
    /\ \A t, u \in Types : TypeRank[t] = TypeRank[u] => t = u

ASSUME BoundsAssumption == MaxGeneration \in Nat /\ MaxTime \in Nat

VARIABLES
    conds,       \* [Types -> Condition \cup {NoCondition}]
    order,       \* the present types, in list order
    todo,        \* the known types For has still to look at
    generation,  \* metadata.generation
    deleting,    \* metadata.deletionTimestamp is set
    now          \* the clock that metav1.Now reads; the object is created at 0

vars == <<conds, order, todo, generation, deleting, now>>

CreationTimestamp == 0

Present(cs) == {t \in Types : cs[t] # NoCondition}

IsDependentCondition(t) == t \in Known

-----------------------------------------------------------------------------
(* Set, recomputeRootCondition, findUnhealthyDependents.                   *)

\* What the caller asks for; Set adds the generation and the time.
Request(status, reason, message) ==
    [status |-> status, reason |-> reason, message |-> message]

\* Plausible bug: a repeated status counts as a transition.
StampedMutant(cs, t, r) ==
    [status |-> r.status, reason |-> r.reason, message |-> r.message,
     observedGeneration |-> generation,
     lastTransitionTime |->
        IF cs[t] # NoCondition
        THEN now
        ELSE IF IsDependentCondition(t) THEN CreationTimestamp ELSE now]

\* Plausible bug: a first transition time is never filled in and stays the
\* zero time, before every other.
StampedZero(cs, t, r) ==
    [status |-> r.status, reason |-> r.reason, message |-> r.message,
     observedGeneration |-> generation,
     lastTransitionTime |->
        IF cs[t] # NoCondition
        THEN IF cs[t].status = r.status THEN cs[t].lastTransitionTime ELSE now
        ELSE -1]

\* The condition Set stores for request r: the transition time moves only
\* when the status does, and the first one of a known type is the creation.
Stamped(cs, t, r) ==
    [status |-> r.status, reason |-> r.reason, message |-> r.message,
     observedGeneration |-> generation,
     lastTransitionTime |->
        IF cs[t] # NoCondition
        THEN IF cs[t].status = r.status THEN cs[t].lastTransitionTime ELSE now
        ELSE IF IsDependentCondition(t) THEN CreationTimestamp ELSE now]

\* The reflect.DeepEqual early return.
Modifies(cs, t, r) == Stamped(cs, t, r) # cs[t]

\* Plausible bug: the observed generations of a deleting object stay behind.
StoreMutant(cs, t, r) == [cs EXCEPT ![t] = Stamped(cs, t, r)]

\* The loop of Set: replace t, and while the object is being deleted bump the
\* observed generation of all the others.
Store(cs, t, r) ==
    [u \in Types |->
        IF u = t
        THEN Stamped(cs, t, r)
        ELSE IF deleting /\ cs[u] # NoCondition
             THEN [cs[u] EXCEPT !.observedGeneration = generation]
             ELSE cs[u]]

\* Plausible bug: a verdict about an older spec counts as healthy.
UnhealthyMutant(cs, g) ==
    {d \in Dependents : cs[d] # NoCondition /\ cs[d].status \in {"False", "Unknown"}}

\* Plausible bug: an Unknown dependent is not unhealthy.
UnhealthyFalseOnly(cs, g) ==
    {d \in Dependents :
        /\ cs[d] # NoCondition
        /\ \/ cs[d].status = "False"
           \/ cs[d].observedGeneration # g}

\* findUnhealthyDependents, for generation g.  Types the list does not hold
\* are not looked at.
Unhealthy(cs, g) ==
    {d \in Dependents :
        /\ cs[d] # NoCondition
        /\ \/ cs[d].status \in {"False", "Unknown"}
           \/ cs[d].observedGeneration # g}

\* What recomputeRootCondition asks for the root at generation g.
Verdict(cs, g) ==
    LET bad == Unhealthy(cs, g)
        failed == \E d \in bad : cs[d].status = "False" /\ cs[d].observedGeneration = g
    IN  IF bad = {}
        THEN Request("True", Root, {})
        ELSE Request(IF failed THEN "False" ELSE "Unknown",
                     IF failed THEN "UnhealthyDependents" ELSE "ReconcilingDependents",
                     {<<d, cs[d].status>> : d \in bad})

\* Set of one type, without what follows for the root.
SetOne(cs, t, r) == IF Modifies(cs, t, r) THEN Store(cs, t, r) ELSE cs

\* Plausible bug: the root is recomputed for dependents only.
SetMutant(cs, t, r) ==
    IF Modifies(cs, t, r) /\ t \in Dependents
    THEN LET stored == Store(cs, t, r)
         IN  SetOne(stored, Root, Verdict(stored, generation))
    ELSE SetOne(cs, t, r)

\* The whole of Set: an unmodified condition returns before the root is
\* recomputed, and the root is not recomputed from a Set of itself.
Set(cs, t, r) ==
    IF Modifies(cs, t, r) /\ t # Root
    THEN LET stored == Store(cs, t, r)
         IN  SetOne(stored, Root, Verdict(stored, generation))
    ELSE SetOne(cs, t, r)

-----------------------------------------------------------------------------
(* The order of the list.                                                  *)

\* A stable sort of the entries of s at the indices kept: an entry gets ahead
\* of an earlier one only if Less says so, and its place is one more than the
\* number of those before it.
StableSort(s, kept, Less(_, _)) ==
    LET Before(i, j) == IF i < j THEN ~Less(s[j], s[i]) ELSE Less(s[i], s[j])
        places == {<<i, Cardinality({j \in kept \ {i} : Before(j, i)}) + 1>> : i \in kept}
    IN  [k \in 1 .. Cardinality(kept) |-> s[CHOOSE i \in kept : <<i, k>> \in places]]

\* Where the list has conditions of other types than t, which is what the
\* loops of Set and Clear keep of it.
Others(ord, t) == {i \in 1 .. Len(ord) : ord[i] # t}

\* The less function of Set's sort: by transition time, the root at the end.
Earlier(cs, a, b) ==
    IF a = Root \/ b = Root
    THEN b = Root
    ELSE cs[a].lastTransitionTime < cs[b].lastTransitionTime

\* Plausible bug: the condition is appended without dropping its old entry.
PutOrderMutant(ord, t, cs) ==
    StableSort(Append(ord, t), 1 .. Len(ord) + 1, LAMBDA a, b : Earlier(cs, a, b))

\* t is dropped from the list, appended, and the list sorted.
PutOrder(ord, t, cs) ==
    StableSort(Append(ord, t), Others(ord, t) \cup {Len(ord) + 1},
               LAMBDA a, b : Earlier(cs, a, b))

SetOrder(ord, cs, t, r) ==
    LET stored == Store(cs, t, r)
        placed == PutOrder(ord, t, stored)
        verdict == Verdict(stored, generation)
    IN  IF ~Modifies(cs, t, r)
        THEN ord
        ELSE IF t = Root \/ ~Modifies(stored, Root, verdict)
             THEN placed
             ELSE PutOrder(placed, Root, Store(stored, Root, verdict))

\* Set on the object.
DoSet(t, status, reason) ==
    /\ conds' = Set(conds, t, Request(status, reason, {}))
    /\ order' = SetOrder(order, conds, t, Request(status, reason, {}))

-----------------------------------------------------------------------------
(* For: every StatusConditions() call fills in the known types first.      *)

\* Operator code calls StatusConditions() before it sets anything.
StatusConditions ==
    /\ todo = {}
    /\ \E t \in Known : conds[t] = NoCondition
    /\ todo' = Known
    /\ UNCHANGED <<conds, order, generation, deleting, now>>

\* One turn of the loop of For: the root comes first.
ForNext ==
    \E t \in todo :
        /\ Root \in todo => t = Root
        /\ todo' = todo \ {t}
        /\ IF conds[t] = NoCondition
           THEN DoSet(t, "Unknown", "AwaitingReconciliation")
           ELSE UNCHANGED <<conds, order>>
        /\ UNCHANGED <<generation, deleting, now>>

\* Operator code holds a ConditionSet, so For has returned.
HasConditionSet == todo = {} /\ Known \subseteq Present(conds)

SetTrueWithReason(t, reason) ==
    /\ HasConditionSet
    /\ DoSet(t, "True", reason)
    /\ UNCHANGED <<todo, generation, deleting, now>>

SetTrue(t) == SetTrueWithReason(t, t)

SetUnknownWithReason(t, reason) ==
    /\ HasConditionSet
    /\ DoSet(t, "Unknown", reason)
    /\ UNCHANGED <<todo, generation, deleting, now>>

SetUnknown(t) == SetUnknownWithReason(t, "AwaitingReconciliation")

SetFalse(t, reason) ==
    /\ HasConditionSet
    /\ DoSet(t, "False", reason)
    /\ UNCHANGED <<todo, generation, deleting, now>>

\* Plausible bug: the guard against clearing known conditions is dropped.
ClearMutant(t) ==
    /\ HasConditionSet
    /\ t \in Present(conds)
    /\ conds' = [conds EXCEPT ![t] = NoCondition]
    /\ order' = StableSort(order, Others(order, t), LAMBDA a, b : TypeRank[a] < TypeRank[b])
    /\ UNCHANGED <<todo, generation, deleting, now>>

\* Clear refuses known types, ignores absent ones, and sorts what is left by
\* name.  The root is not recomputed.
Clear(t) ==
    /\ HasConditionSet
    /\ ~IsDependentCondition(t)
    /\ t \in Present(conds)
    /\ conds' = [conds EXCEPT ![t] = NoCondition]
    /\ order' = StableSort(order, Others(order, t), LAMBDA a, b : TypeRank[a] < TypeRank[b])
    /\ UNCHANGED <<todo, generation, deleting, now>>

-----------------------------------------------------------------------------
(* The world around the object: users, the API server and the clock.       *)

UpdateSpec ==
    /\ todo = {}
    /\ generation < MaxGeneration
    /\ generation' = generation + 1
    /\ UNCHANGED <<conds, order, todo, deleting, now>>

\* The API server counts setting the deletion timestamp as a new generation.
Delete ==
    /\ todo = {}
    /\ ~deleting
    /\ generation < MaxGeneration
    /\ deleting' = TRUE
    /\ generation' = generation + 1
    /\ UNCHANGED <<conds, order, todo, now>>

Tick ==
    /\ now < MaxTime
    /\ now' = now + 1
    /\ UNCHANGED <<conds, order, todo, generation, deleting>>

Init ==
    /\ conds = [t \in Types |-> NoCondition]
    /\ order = <<>>
    /\ todo = {}
    /\ generation = 1
    /\ deleting = FALSE
    /\ now = 0

Next ==
    \/ StatusConditions
    \/ ForNext
    \/ \E t \in Settable :
          \/ SetTrue(t)
          \/ SetUnknown(t)
          \/ Clear(t)
          \/ \E reason \in Reasons :
                \/ SetTrueWithReason(t, reason)
                \/ SetUnknownWithReason(t, reason)
                \/ SetFalse(t, reason)
    \/ UpdateSpec
    \/ Delete
    \/ Tick

Spec == Init /\ [][Next]_vars

-----------------------------------------------------------------------------
(* What the conditions of an object must satisfy.                          *)

\* Every variable but the list order has its type: a type has at most one
\* condition, with a transition time the clock has reached and a generation
\* the object has had (Set stamps both).
TypeOK ==
    /\ conds \in [Types -> Condition \cup {NoCondition}]
    /\ todo \in SUBSET Known
    /\ generation \in Nat
    /\ deleting \in BOOLEAN
    /\ now \in Nat
    /\ \A t \in Present(conds) :
          /\ conds[t].observedGeneration <= generation
          /\ conds[t].lastTransitionTime <= now

\* The root written by For before any dependent was looked at.
Awaiting(c) == c.status = "Unknown" /\ c.reason = "AwaitingReconciliation" /\ c.message = {}

\* Nobody but recomputeRootCondition and For writes the root: what operator
\* code must respect for the root to mean anything.
RootDerived == Root \notin Settable

\* However setters, spec updates and the deletion interleave, the root says
\* exactly what its dependents amount to at the generation the root observed:
\* status, reason and message (recomputeRootCondition after every Set).  Only
\* before the first dependent is set may it still be what For wrote.
RootMatchesDependents ==
    Root \in Present(conds) =>
        \/ Awaiting(conds[Root]) /\ Dependents \cap Present(conds) = {}
        \/ LET v == Verdict(conds, conds[Root].observedGeneration)
           IN  /\ conds[Root].status = v.status
               /\ conds[Root].reason = v.reason
               /\ conds[Root].message = v.message

\* No condition was computed for a newer generation than the root was: a
\* reader that finds the root up to date need not look at the others.
RootIsFreshest ==
    \A t \in Present(conds) :
        /\ Root \in Present(conds)
        /\ conds[t].observedGeneration <= conds[Root].observedGeneration

\* Once an object is being deleted, one Set brings every condition to the
\* current generation, so no condition of it ever looks stale after that: the
\* "bump all the observed generations" loop of Set, early return included.
DeletionBumpsTogether ==
    deleting /\ (\E t \in Present(conds) : conds[t].observedGeneration = generation)
        => \A t \in Present(conds) : conds[t].observedGeneration = generation

\* For leaves every known type in the list, and nothing takes one out again
\* (Clear refuses them): code that holds a ConditionSet can rely on Get.
\* While For is at work it has seen to every known type but those in todo.
KnownStayPresent ==
    Root \in Present(conds) => \A t \in Known \ todo : t \in Present(conds)

\* What a user of kubectl wait relies on: the object is Ready for its current
\* spec exactly when all its dependents are.
ReadyIffDependentsReady ==
    HasConditionSet /\ Dependents # {} =>
        (   conds[Root].status = "True" /\ conds[Root].observedGeneration = generation
        <=> \A d \in Dependents :
                conds[d].status = "True" /\ conds[d].observedGeneration = generation)

\* An object has been Ready for no longer than each of its dependents: its
\* transition time is at least theirs (what the duration metrics build on).
ReadySinceDependentsReady ==
    Root \in Present(conds) /\ conds[Root].status = "True" =>
        \A d \in Dependents \cap Present(conds) :
            conds[d].lastTransitionTime <= conds[Root].lastTransitionTime

\* The list holds every present type exactly once, whatever Set and Clear did
\* to it before.
ListsEveryCondition ==
    /\ {order[i] : i \in DOMAIN order} = Present(conds)
    /\ \A i, j \in DOMAIN order : order[i] = order[j] => i = j

\* A step never rewinds a condition that stays in the list: generations and
\* transition times only grow, and the time moves exactly when the status
\* does, for the root that is recomputed as much as for the type that is set.
NeverRewinds ==
    [][\A t \in Present(conds) \cap Present(conds)' :
          /\ conds'[t].observedGeneration >= conds[t].observedGeneration
          /\ IF conds'[t].status = conds[t].status
             THEN conds'[t].lastTransitionTime = conds[t].lastTransitionTime
             ELSE conds'[t].lastTransitionTime = now]_vars

\* The comment in Set's sort: "Order the root status condition at the end".
RootLast ==
    Root \in Present(conds) => order[Len(order)] = Root

\* The comment on SetFalse: it sets "conditionType and the root condition to
\* False".
SetFalseFailsRoot ==
    [][\A t \in Settable, reason \in Reasons :
          SetFalse(t, reason) => conds'[Root].status = "False"]_vars
=============================================================================
