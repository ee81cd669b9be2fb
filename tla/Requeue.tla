------------------------------ MODULE Requeue -------------------------------
(***************************************************************************)
(* Requeueing with a rate limiter of one's own: the reconciler wrapper     *)
(* (src/reconciler/reconciler.go), the singleton adapter and its source    *)
(* (src/singleton/controller.go) and the work queue that runs them.        *)
(*                                                                         *)
(* A wrapped reconciler answers with an error, a RequeueAfter, a Requeue   *)
(* or neither.  The wrapper turns Requeue into a RequeueAfter whose length *)
(* its own limiter chooses; errors go through to the work queue, which has *)
(* a limiter too.  So each request has two failure counts, and only the    *)
(* delay tells the queue that a Requeue happened at all.                   *)
(***************************************************************************)
EXTENDS Integers

CONSTANTS
    Keys,         \* the requests; the empty request of a singleton is one
    Watched,      \* requests that a watch can bring in again
    Failing,      \* requests whose reconciler may return an error
    Requeueing,   \* requests whose reconciler may ask for a Requeue
    Delay,        \* Delay[n]: a limiter's answer after n failures
    UserDelays,   \* the RequeueAfter values reconcilers use
    None,
    MaxFailures   \* bound on the errors and the Requeues of a streak

ASSUME RequeueAssumption ==
    /\ MaxFailures \in Nat
    /\ Delay \in [0 .. 2 * MaxFailures -> Nat]
    /\ UserDelays \subseteq Nat \ {0}
    /\ None \notin Nat

VARIABLES
    queue,          \* requests that are due
    waiting,        \* time left of delayed requests, or None
    failures,       \* the wrapper's limiter: failures per request
    queueFailures,  \* the work queue's limiter
    pending,        \* sources that have not delivered their event yet
    asked,          \* history: requests whose last answer wants another run
    errors          \* history: errors since a success or a RequeueAfter

vars == <<queue, waiting, failures, queueFailures, pending, asked, errors>>

\* The delaying queue (client-go): of two delays the shorter counts.
Earlier(w, d) == IF w # None /\ w < d THEN w ELSE d

-----------------------------------------------------------------------------
(* controller-runtime's answer to the wrapped reconciler.                  *)

\* An error: the work queue's own limiter chooses the delay.
QueueRateLimited(k) ==
    /\ queueFailures' = [queueFailures EXCEPT ![k] = @ + 1]
    /\ IF Delay[queueFailures[k]] = 0
       THEN queue' = (queue \ {k}) \cup {k} /\ UNCHANGED waiting
       ELSE /\ queue' = queue \ {k}
            /\ waiting' = [waiting EXCEPT ![k] = Earlier(@, Delay[queueFailures[k]])]

\* No error: the queue's limiter forgets, and only a positive delay brings the
\* request back.
QueueResult(k, requeueAfter) ==
    /\ queueFailures' = [queueFailures EXCEPT ![k] = 0]
    /\ queue' = queue \ {k}
    /\ IF requeueAfter > 0
       THEN waiting' = [waiting EXCEPT ![k] = Earlier(@, requeueAfter)]
       ELSE UNCHANGED waiting

-----------------------------------------------------------------------------
(* AsReconcilerWithRateLimiter: the four answers in the order it tests.    *)

ReconcileFails(k) ==
    /\ k \in queue \cap Failing
    /\ errors[k] < MaxFailures
    /\ QueueRateLimited(k)
    /\ asked' = asked \cup {k}
    /\ errors' = [errors EXCEPT ![k] = @ + 1]
    /\ UNCHANGED <<failures, pending>>

\* A positive RequeueAfter wins over Requeue and forgets the failures.
ReconcileAfter(k, d) ==
    /\ k \in queue
    /\ d > 0
    /\ failures' = [failures EXCEPT ![k] = 0]
    /\ QueueResult(k, d)
    /\ asked' = asked \cup {k}
    /\ errors' = [errors EXCEPT ![k] = 0]
    /\ UNCHANGED pending

\* Plausible bug: the limiter forgets the request with every Requeue.
ReconcileRequeueMutant(k) ==
    /\ k \in queue \cap Requeueing
    /\ failures[k] < MaxFailures
    /\ failures' = [failures EXCEPT ![k] = 0]
    /\ QueueResult(k, Delay[failures[k]])
    /\ asked' = asked \cup {k}
    /\ UNCHANGED <<pending, errors>>

\* Plausible bug: Requeue is passed on as it is and lost.
ReconcileRequeueLost(k) ==
    /\ k \in queue \cap Requeueing
    /\ failures[k] < MaxFailures
    /\ failures' = [failures EXCEPT ![k] = @ + 1]
    /\ QueueResult(k, 0)
    /\ asked' = asked \cup {k}
    /\ UNCHANGED <<pending, errors>>

\* Requeue: the wrapper's limiter counts a failure and chooses the delay.
ReconcileRequeue(k) ==
    /\ k \in queue \cap Requeueing
    /\ failures[k] < MaxFailures
    /\ failures' = [failures EXCEPT ![k] = @ + 1]
    /\ QueueResult(k, Delay[failures[k]])
    /\ asked' = asked \cup {k}
    /\ UNCHANGED <<pending, errors>>

\* Plausible bug: the limiter is not told of the success.
ReconcileDoneMutant(k) ==
    /\ k \in queue
    /\ QueueResult(k, 0)
    /\ asked' = asked \ {k}
    /\ errors' = [errors EXCEPT ![k] = 0]
    /\ UNCHANGED <<failures, pending>>

\* Plausible bug: a success takes one failure back instead of all.
ReconcileDoneOne(k) ==
    /\ k \in queue
    /\ failures' = [failures EXCEPT ![k] = @ - 1]
    /\ QueueResult(k, 0)
    /\ asked' = asked \ {k}
    /\ errors' = [errors EXCEPT ![k] = 0]
    /\ UNCHANGED pending

\* Neither error nor requeue: the limiter forgets the request.
ReconcileDone(k) ==
    /\ k \in queue
    /\ failures' = [failures EXCEPT ![k] = 0]
    /\ QueueResult(k, 0)
    /\ asked' = asked \ {k}
    /\ errors' = [errors EXCEPT ![k] = 0]
    /\ UNCHANGED pending

-----------------------------------------------------------------------------
(* Sources and time.                                                       *)

\* singleton.Source: one event, buffered before anything runs.
Source(k) ==
    /\ k \in pending
    /\ pending' = pending \ {k}
    /\ queue' = queue \cup {k}
    /\ UNCHANGED <<waiting, failures, queueFailures, asked, errors>>

WatchEvent(k) ==
    /\ k \in Watched \ queue
    /\ queue' = queue \cup {k}
    /\ UNCHANGED <<waiting, failures, queueFailures, pending, asked, errors>>

Tick ==
    LET due == {k \in Keys : waiting[k] # None /\ waiting[k] <= 1}
    IN  /\ \E k \in Keys : waiting[k] # None
        /\ queue' = queue \cup due
        /\ waiting' = [k \in Keys |->
                         IF waiting[k] = None \/ k \in due THEN None ELSE waiting[k] - 1]
        /\ UNCHANGED <<failures, queueFailures, pending, asked, errors>>

Init ==
    /\ queue = {}
    /\ waiting = [k \in Keys |-> None]
    /\ failures = [k \in Keys |-> 0]
    /\ queueFailures = [k \in Keys |-> 0]
    /\ pending = Keys
    /\ asked = {}
    /\ errors = [k \in Keys |-> 0]

Next ==
    \/ \E k \in Keys :
          \/ ReconcileFails(k)
          \/ \E d \in UserDelays : ReconcileAfter(k, d)
          \/ ReconcileRequeue(k)
          \/ ReconcileDone(k)
          \/ Source(k)
          \/ WatchEvent(k)
    \/ Tick

Spec == Init /\ [][Next]_vars

\* Timers expire.
FairSpec == Spec /\ WF_vars(Tick)

-----------------------------------------------------------------------------
(* What requeueing must satisfy.                                           *)

\* Every variable has its type.
TypeOK ==
    /\ queue \in SUBSET Keys
    /\ waiting \in [Keys -> (Nat \ {0}) \cup {None}]
    /\ failures \in [Keys -> Nat]
    /\ queueFailures \in [Keys -> Nat]
    /\ pending \in SUBSET Keys
    /\ asked \in SUBSET Keys
    /\ errors \in [Keys -> Nat]

\* "Result adds Requeue functionality back to reconcile results": a request
\* whose reconciler last asked for another run, in whatever way, is due or
\* waits for its delay.  Nothing else would ever bring a singleton back.
NoLostRequeue ==
    \A k \in asked : k \in queue \/ waiting[k] # None

\* A success leaves no failure behind, in either limiter: the next streak of
\* errors or Requeues starts from the shortest delay again.
CountsFollowAnswers ==
    \A k \in Keys \ asked : failures[k] = 0 /\ queueFailures[k] = 0

\* A request that wants another run gets it.
AskedRunsAgain ==
    \A k \in Keys : (k \in asked /\ k \notin queue) ~> (k \in queue)

\* What controller-runtime's own Requeue: true counted: the errors and the
\* Requeues of a streak, in one limiter.
Native == INSTANCE NativeRequeue WITH requeues <- failures

\* The wrapper's two limiters next to that one.  A streak of Requeues alone or
\* of errors alone waits exactly as long as it did with Requeue: true; where a
\* reconciler mixes them, an answer never backs off as if there had been more
\* failures than the streak has, and a Requeue never as if there had been
\* fewer than the Requeues alone; a success or a RequeueAfter ends the streak.
BacksOffAsNative == Native!SplitSpec

\* "This implements the same behavior as Requeue: True."  Not where a
\* reconciler mixes errors and Requeues: a Requeue clears the queue's count.
SameAsNative == Native!Spec

\* A limiter that never answers zero, as the exponential ones do.
PositiveDelay == \A n \in DOMAIN Delay : Delay[n] > 0
=============================================================================
