---------------------------- MODULE NativeRequeue ---------------------------
(***************************************************************************)
(* What controller-runtime's own Requeue: true promised, before it was     *)
(* deprecated: one rate limiter per controller, whose failure count of a   *)
(* request grows with every error and every Requeue and is forgotten by a  *)
(* success or an explicit delay.  External to this repository; it is the   *)
(* behaviour src/singleton/controller.go says its wrapper implements.      *)
(*                                                                         *)
(* Spec is that promise.  SplitSpec is what is left of it when errors and  *)
(* Requeues are counted apart: the same delays as long as a streak is of   *)
(* one kind, and bounds on them where it mixes both.  Module Requeue is    *)
(* checked and proved to implement SplitSpec, and shown not to implement   *)
(* Spec.                                                                   *)
(***************************************************************************)
EXTENDS Integers

CONSTANTS
    Keys,       \* the requests
    Delay,      \* Delay[n]: the limiter's answer after n failures
    UserDelays, \* explicit RequeueAfter delays
    None        \* not waiting

VARIABLES
    queue,      \* requests that are due
    waiting,    \* time left of delayed requests, or None
    errors,     \* errors of the request's streak
    requeues    \* Requeues of the request's streak

vars == <<queue, waiting, errors, requeues>>

\* The limiter's count: every failure of the streak, of either kind.
Failures(k) == errors[k] + requeues[k]

\* The delaying queue: a request that already waits keeps the shorter delay,
\* and a delay of zero is an ordinary Add.
Earlier(w, d) == IF w # None /\ w < d THEN w ELSE d

AddAfter(k, d) ==
    IF d = 0
    THEN queue' = (queue \ {k}) \cup {k} /\ waiting' = waiting
    ELSE queue' = queue \ {k} /\ waiting' = [waiting EXCEPT ![k] = Earlier(waiting[k], d)]

\* A success or an explicit delay ends the streak.
Forget(k) ==
    /\ errors' = [errors EXCEPT ![k] = 0]
    /\ requeues' = [requeues EXCEPT ![k] = 0]

\* A request comes in: the watch, or the source of a singleton.
Add(k) ==
    /\ queue' = queue \cup {k}
    /\ UNCHANGED <<waiting, errors, requeues>>

\* Time passes; requests whose delay ends become due.
Tick ==
    LET due == {k \in Keys : waiting[k] # None /\ waiting[k] <= 1}
    IN  /\ \E k \in Keys : waiting[k] # None
        /\ queue' = queue \cup due
        /\ waiting' = [k \in Keys |->
                         IF waiting[k] = None \/ k \in due THEN None ELSE waiting[k] - 1]
        /\ UNCHANGED <<errors, requeues>>

\* An error, delayed as after n failures.
Error(k, n) ==
    /\ k \in queue
    /\ AddAfter(k, Delay[n])
    /\ errors' = [errors EXCEPT ![k] = @ + 1]
    /\ UNCHANGED requeues

\* Requeue: true, delayed as after n failures.
Requeue(k, n) ==
    /\ k \in queue
    /\ AddAfter(k, Delay[n])
    /\ requeues' = [requeues EXCEPT ![k] = @ + 1]
    /\ UNCHANGED errors

\* RequeueAfter: Forget and AddAfter.
After(k, d) ==
    /\ k \in queue
    /\ AddAfter(k, d)
    /\ Forget(k)

\* Neither: Forget.
Done(k) ==
    /\ k \in queue
    /\ queue' = queue \ {k}
    /\ Forget(k)
    /\ UNCHANGED waiting

Init ==
    /\ queue = {}
    /\ waiting = [k \in Keys |-> None]
    /\ errors = [k \in Keys |-> 0]
    /\ requeues = [k \in Keys |-> 0]

\* The steps that no failure count decides.
Unlimited ==
    \/ \E k \in Keys : Add(k) \/ Done(k) \/ \E d \in UserDelays : After(k, d)
    \/ Tick

Next ==
    \/ \E k \in Keys : Error(k, Failures(k)) \/ Requeue(k, Failures(k))
    \/ Unlimited

Spec == Init /\ [][Next]_vars

-----------------------------------------------------------------------------
(* Errors and Requeues counted apart.                                      *)

\* The failures after which an error of k may be delayed.
ErrorCounts(k) == IF requeues[k] = 0 THEN {errors[k]} ELSE 0 .. Failures(k)

\* Those of a Requeue: exactly the streak's when it has no error.
RequeueCounts(k) == requeues[k] .. Failures(k)

SplitNext ==
    \/ \E k \in Keys :
          \/ \E n \in ErrorCounts(k) : Error(k, n)
          \/ \E n \in RequeueCounts(k) : Requeue(k, n)
    \/ Unlimited

SplitSpec == Init /\ [][SplitNext]_vars
=============================================================================
