------------------------------- MODULE Events -------------------------------
(***************************************************************************)
(* The events controller (src/events/controller.go): it counts the Events  *)
(* recorded for one kind of object, and is meant to count only those of    *)
(* its own lifetime, so that a restart or a new leader does not count      *)
(* again what the informer lists again.                                    *)
(*                                                                         *)
(* A replica takes its startTime when its controllers are constructed, and *)
(* reconciles only once it leads, which may be long after.  Time runs in   *)
(* Resolution steps per second; an Event keeps only the second.  A member  *)
(* of Replicas is one run of a process.                                    *)
(***************************************************************************)
EXTENDS Integers

CONSTANTS
    Replicas,
    Names,       \* Event objects
    Ours,        \* Event objects about the controller's kind
    NoEvent,     \* an Event object that does not exist
    Standbys,    \* whether a replica may start while another one runs
    Resolution,  \* steps per second
    MaxTime      \* bound on time

ASSUME EventsAssumption ==
    /\ Ours \subseteq Names
    /\ Standbys \in BOOLEAN
    /\ Resolution \in Nat \ {0}
    /\ MaxTime \in Nat
    /\ NoEvent \notin [occurred : Nat, lastTimestamp : Nat]

VARIABLES
    now,
    state,      \* state of each replica
    startTime,  \* Controller.startTime of each replica
    events,     \* the API server's Events, with the exact time they occurred
    queue,      \* the leader's work queue
    counted,    \* history: who counted which occurrence of which Event
    skipped     \* history: who reconciled one without counting it

eventsVars == <<now, state, startTime, events, queue, counted, skipped>>

States == {"none", "standby", "leading", "ended"}

Live == {r \in Replicas : state[r] \in {"standby", "leading"}}

Existing == {e \in Names : events[e] # NoEvent}

\* metav1.Time is serialized with RFC 3339, to the second.
Second(t) == t - (t % Resolution)

-----------------------------------------------------------------------------
(* The controller.                                                         *)

\* NewController.
Construct(r) ==
    /\ state[r] = "none"
    /\ Standbys \/ Live = {}
    /\ state' = [state EXCEPT ![r] = "standby"]
    /\ startTime' = [startTime EXCEPT ![r] = now]
    /\ UNCHANGED <<now, events, queue, counted, skipped>>

\* Plausible bug: the predicate is left out.
EnqueueMutant(changed) ==
    queue' = IF \E r \in Replicas : state'[r] = "leading" THEN queue \cup changed ELSE {}

\* Register: only Events about the controller's kind reach the queue.
Enqueue(changed) ==
    queue' = IF \E r \in Replicas : state'[r] = "leading" THEN queue \cup (changed \cap Ours) ELSE {}

\* Plausible bug: Events are compared with the present, not with the start.
InLifetimeMutant(r, e) == events[e].lastTimestamp < now

\* c.startTime.Before(event.LastTimestamp.Time)
InLifetime(r, e) == startTime[r] < events[e].lastTimestamp

\* Plausible bug: Reconcile returns before it reaches the counter.
ReconcileMutant(r, e) ==
    /\ state[r] = "leading"
    /\ e \in queue
    /\ queue' = queue \ {e}
    /\ UNCHANGED <<now, state, startTime, events, counted, skipped>>

\* Reconcile an Event from the queue; one that is gone is passed over by
\* AsReconciler.
Reconcile(r, e) ==
    LET seen == IF e \in Existing THEN {[by |-> r, event |-> e, occurred |-> events[e].occurred]} ELSE {}
    IN  /\ state[r] = "leading"
        /\ e \in queue
        /\ queue' = queue \ {e}
        /\ IF e \in Existing /\ InLifetime(r, e)
           THEN counted' = counted \cup seen /\ UNCHANGED skipped
           ELSE skipped' = skipped \cup seen /\ UNCHANGED counted
        /\ UNCHANGED <<now, state, startTime, events>>

-----------------------------------------------------------------------------
(* The manager and the API server.                                         *)

\* A replica is elected: its informer lists every Event there is.
Lead(r) ==
    /\ state[r] = "standby"
    /\ \A s \in Replicas : state[s] # "leading"
    /\ state' = [state EXCEPT ![r] = "leading"]
    /\ Enqueue(Existing)
    /\ UNCHANGED <<now, startTime, events, counted, skipped>>

\* A replica stops or crashes; its queue is lost.
End(r) ==
    /\ r \in Live
    /\ state' = [state EXCEPT ![r] = "ended"]
    /\ Enqueue({})
    /\ UNCHANGED <<now, startTime, events, counted, skipped>>

\* Someone records an Event, anew or once more.
Emit(e) ==
    /\ events' = [events EXCEPT ![e] = [occurred |-> now, lastTimestamp |-> Second(now)]]
    /\ UNCHANGED state
    /\ Enqueue({e})
    /\ UNCHANGED <<now, startTime, counted, skipped>>

\* Events expire.
Expire(e) ==
    /\ e \in Existing
    /\ events' = [events EXCEPT ![e] = NoEvent]
    /\ UNCHANGED state
    /\ Enqueue({e})
    /\ UNCHANGED <<now, startTime, counted, skipped>>

\* The informer lists again, or resyncs.
Resync ==
    /\ \E r \in Replicas : state[r] = "leading"
    /\ UNCHANGED state
    /\ Enqueue(Existing)
    /\ UNCHANGED <<now, startTime, events, counted, skipped>>

Tick ==
    /\ now < MaxTime
    /\ now' = now + 1
    /\ UNCHANGED <<state, startTime, events, queue, counted, skipped>>

EventsInit ==
    /\ now = 0
    /\ state = [r \in Replicas |-> "none"]
    /\ startTime = [r \in Replicas |-> 0]
    /\ events = [e \in Names |-> NoEvent]
    /\ queue = {}
    /\ counted = {}
    /\ skipped = {}

EventsNext ==
    \/ \E r \in Replicas :
          \/ Construct(r)
          \/ Lead(r)
          \/ End(r)
          \/ \E e \in Names : Reconcile(r, e)
    \/ \E e \in Names :
          \/ Emit(e)
          \/ Expire(e)
    \/ Resync
    \/ Tick

EventsSpec == EventsInit /\ [][EventsNext]_eventsVars

\* Work queues are served.
EventsFairSpec == EventsSpec /\ \A r \in Replicas, e \in Names : WF_eventsVars(Reconcile(r, e))

-----------------------------------------------------------------------------
(* What the event metric must satisfy.                                     *)

Occurrences == [by : Replicas, event : Names, occurred : Nat]

\* Every variable has its type; only Events of the kind are in the queue.
TypeOK ==
    /\ now \in Nat
    /\ state \in [Replicas -> States]
    /\ startTime \in [Replicas -> Nat]
    /\ events \in [Names -> [occurred : Nat, lastTimestamp : Nat] \cup {NoEvent}]
    /\ queue \in SUBSET Ours
    /\ counted \in SUBSET Occurrences
    /\ skipped \in SUBSET Occurrences

\* "we don't duplicate metrics on controller restart or lease handover": no
\* two replicas count the same occurrence of an Event.
CountedByOne ==
    \A c, d \in counted :
        c.event = d.event /\ c.occurred = d.occurred => c.by = d.by

\* "We check if the event was created in the lifetime of this controller":
\* what a replica leaves out was recorded before it started.
LifetimeCounted ==
    \A c \in skipped : c.occurred <= startTime[c.by]

\* An Event recorded in a second that began after the leader started is
\* counted, unless it is recorded again, expires or the leader ends first.
EventuallyCounted ==
    \A r \in Replicas, e \in Ours, t \in 0 .. MaxTime :
        LET current == state[r] = "leading" /\ e \in Existing /\ events[e].occurred = t
        IN  (current /\ startTime[r] < Second(t))
              ~> (~current \/ [by |-> r, event |-> e, occurred |-> t] \in counted)
=============================================================================
