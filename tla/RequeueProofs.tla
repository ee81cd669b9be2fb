---------------------------- MODULE RequeueProofs ---------------------------
(***************************************************************************)
(* Proofs about Requeue, for any requests, limiter and delays, among them  *)
(* how far its two limiters behave as the one of controller-runtime's own  *)
(* Requeue: exactly, as long as a streak is of one kind, and within bounds *)
(* when a reconciler mixes errors and Requeues.                            *)
(***************************************************************************)
EXTENDS Requeue, TLAPS

\* Delays of the limiter within the bound on the counts.
LEMMA DelayType ==
    ASSUME NEW n \in Nat, n <= MaxFailures
    PROVE  n \in DOMAIN Delay /\ Delay[n] \in Nat
BY RequeueAssumption

\* The shorter of a wait and a positive delay is a positive wait.
LEMMA EarlierType ==
    ASSUME NEW w \in (Nat \ {0}) \cup {None}, NEW d \in Nat \ {0}
    PROVE  Earlier(w, d) \in Nat \ {0} /\ Earlier(w, d) # None
BY RequeueAssumption DEF Earlier

\* The queue's limiter never counts more than the errors of the streak, and
\* counts exactly them until the first Requeue.
Streaks ==
    /\ TypeOK
    /\ \A k \in Keys : errors[k] <= MaxFailures /\ queueFailures[k] <= errors[k]
    /\ \A k \in Keys : failures[k] = 0 => queueFailures[k] = errors[k]

\* What the queue's limiter answers to an error.
LEMMA ErrorDelay ==
    ASSUME Streaks, NEW k \in Keys, ReconcileFails(k)
    PROVE  queueFailures[k] \in DOMAIN Delay /\ Delay[queueFailures[k]] \in Nat
<1>1. queueFailures[k] \in Nat /\ queueFailures[k] <= MaxFailures
  BY RequeueAssumption DEF Streaks, TypeOK, ReconcileFails
<1> QED
  BY <1>1, DelayType

\* TypeOK is preserved.
LEMMA TypeStep ==
    ASSUME Streaks, [Next]_vars
    PROVE  TypeOK'
<1>0. TypeOK
  BY DEF Streaks
<1>1. ASSUME NEW k \in Keys, NEW d \in Nat, QueueResult(k, d)
      PROVE  /\ queue' \in SUBSET Keys
             /\ waiting' \in [Keys -> (Nat \ {0}) \cup {None}]
             /\ queueFailures' \in [Keys -> Nat]
  <2>1. d > 0 => Earlier(waiting[k], d) \in Nat \ {0}
    <3>1. waiting[k] \in (Nat \ {0}) \cup {None}
      BY <1>0 DEF TypeOK
    <3>2. d > 0 => d \in Nat \ {0}
      OBVIOUS
    <3> QED
      BY <3>1, <3>2, EarlierType
  <2> QED
    BY <1>0, <1>1, <2>1 DEF QueueResult, TypeOK
<1>2. ASSUME NEW k \in Keys, ReconcileFails(k) PROVE TypeOK'
  <2>1. Delay[queueFailures[k]] \in Nat
    BY <1>2, ErrorDelay
  <2>2. Delay[queueFailures[k]] # 0 => Earlier(waiting[k], Delay[queueFailures[k]]) \in Nat \ {0}
    BY <1>0, <2>1, EarlierType DEF TypeOK
  <2>3. queue' \in SUBSET Keys /\ waiting' \in [Keys -> (Nat \ {0}) \cup {None}]
    BY <1>0, <1>2, <2>2 DEF ReconcileFails, QueueRateLimited, TypeOK
  <2>4. queueFailures' \in [Keys -> Nat]
    BY <1>0, <1>2 DEF ReconcileFails, QueueRateLimited, TypeOK
  <2>5. errors' \in [Keys -> Nat]
    BY <1>0, <1>2 DEF ReconcileFails, TypeOK
  <2> QED
    BY <1>0, <1>2, <2>3, <2>4, <2>5 DEF ReconcileFails, TypeOK
<1>3. ASSUME NEW k \in Keys, NEW d \in UserDelays, ReconcileAfter(k, d) PROVE TypeOK'
  <2>1. d \in Nat
    BY RequeueAssumption
  <2> QED
    BY <1>0, <1>1, <1>3, <2>1 DEF ReconcileAfter, TypeOK
<1>4. ASSUME NEW k \in Keys, ReconcileRequeue(k) PROVE TypeOK'
  <2>1. Delay[failures[k]] \in Nat
    BY <1>0, <1>4, DelayType, RequeueAssumption DEF ReconcileRequeue, TypeOK
  <2> QED
    BY <1>0, <1>1, <1>4, <2>1 DEF ReconcileRequeue, TypeOK
<1>5. ASSUME NEW k \in Keys, ReconcileDone(k) PROVE TypeOK'
  BY <1>0, <1>1, <1>5 DEF ReconcileDone, TypeOK
<1>6. ASSUME NEW k \in Keys, Source(k) \/ WatchEvent(k) PROVE TypeOK'
  BY <1>0, <1>6 DEF Source, WatchEvent, TypeOK
<1>7. CASE Tick
  <2>1. \A k \in Keys : waiting[k] # None => waiting[k] \in Nat \ {0}
    BY <1>0 DEF TypeOK
  <2>2. waiting' \in [Keys -> (Nat \ {0}) \cup {None}]
    BY <1>7, <2>1 DEF Tick
  <2> QED
    BY <1>0, <1>7, <2>2 DEF Tick, TypeOK
<1>8. CASE UNCHANGED vars
  BY <1>0, <1>8 DEF vars, TypeOK
<1> QED
  BY <1>2, <1>3, <1>4, <1>5, <1>6, <1>7, <1>8 DEF Next

\* Streaks is inductive.
LEMMA StreaksStep ==
    ASSUME Streaks, [Next]_vars
    PROVE  Streaks'
<1>1. TypeOK /\ TypeOK'
  BY TypeStep DEF Streaks
<1>2. ASSUME NEW k \in Keys, ReconcileFails(k) PROVE Streaks'
  <2>1. /\ errors' = [errors EXCEPT ![k] = errors[k] + 1]
        /\ queueFailures' = [queueFailures EXCEPT ![k] = queueFailures[k] + 1]
        /\ failures' = failures
        /\ errors[k] < MaxFailures
    BY <1>2 DEF ReconcileFails, QueueRateLimited
  <2> QED
    BY <1>1, <2>1, RequeueAssumption DEF Streaks, TypeOK
<1>3. ASSUME NEW k \in Keys, failures' = [failures EXCEPT ![k] = 0],
             queueFailures' = [queueFailures EXCEPT ![k] = 0],
             errors' = [errors EXCEPT ![k] = 0]
      PROVE  Streaks'
  BY <1>1, <1>3, RequeueAssumption DEF Streaks, TypeOK
<1>4. ASSUME NEW k \in Keys, ReconcileRequeue(k) PROVE Streaks'
  <2>1. /\ failures' = [failures EXCEPT ![k] = failures[k] + 1]
        /\ queueFailures' = [queueFailures EXCEPT ![k] = 0]
        /\ errors' = errors
    BY <1>4 DEF ReconcileRequeue, QueueResult
  <2>2. failures'[k] # 0
    BY <1>1, <2>1 DEF TypeOK
  <2> QED
    BY <1>1, <2>1, <2>2, RequeueAssumption DEF Streaks, TypeOK
<1>5. ASSUME NEW k \in Keys, (\E d \in UserDelays : ReconcileAfter(k, d)) \/ ReconcileDone(k)
      PROVE  Streaks'
  BY <1>3, <1>5 DEF ReconcileAfter, ReconcileDone, QueueResult
<1>6. CASE UNCHANGED <<failures, queueFailures, errors>>
  BY <1>1, <1>6 DEF Streaks
<1> QED
  BY <1>2, <1>4, <1>5, <1>6 DEF Next, Source, WatchEvent, Tick, vars

\* Streaks holds in every behaviour.
LEMMA StreaksHold == Spec => []Streaks
<1>1. Init => Streaks
  BY RequeueAssumption DEF Init, Streaks, TypeOK
<1>2. Streaks /\ [Next]_vars => Streaks'
  BY StreaksStep
<1> QED
  BY <1>1, <1>2, PTL DEF Spec

\* Type correctness: in particular, no request waits for a delay of zero.
THEOREM TypeCorrect == Spec => []TypeOK
<1>1. Streaks => TypeOK
  BY DEF Streaks
<1> QED
  BY <1>1, StreaksHold, PTL

\* With a limiter that never answers zero, a request whose reconciler asked
\* for another run is due or waiting: a singleton never stops by accident.
THEOREM RequeueKept == PositiveDelay => (Spec => []NoLostRequeue)
<1> SUFFICES ASSUME PositiveDelay PROVE Spec => []NoLostRequeue
  OBVIOUS
<1>1. Init => NoLostRequeue
  BY DEF Init, NoLostRequeue
<1>2. ASSUME Streaks, NoLostRequeue, [Next]_vars
      PROVE  NoLostRequeue'
  <2>0. TypeOK
    BY <1>2 DEF Streaks
  <2>1. ASSUME NEW k \in Keys, NEW d \in Nat \ {0}, QueueResult(k, d), asked' = asked \cup {k}
        PROVE  NoLostRequeue'
    <3>1. waiting'[k] # None
      <4>1. waiting[k] \in (Nat \ {0}) \cup {None} /\ d > 0
        BY <2>0, <2>1 DEF TypeOK
      <4>2. Earlier(waiting[k], d) # None
        BY <4>1, EarlierType
      <4> QED
        BY <1>2, <2>0, <2>1, <4>1, <4>2 DEF QueueResult, TypeOK
    <3>2. \A j \in Keys \ {k} : waiting'[j] = waiting[j] /\ (j \in queue <=> j \in queue')
      BY <1>2, <2>0, <2>1 DEF QueueResult, TypeOK
    <3> QED
      BY <1>2, <2>0, <2>1, <3>1, <3>2 DEF NoLostRequeue, TypeOK
  <2>2. ASSUME NEW k \in Keys, ReconcileFails(k) PROVE NoLostRequeue'
    <3>1. Delay[queueFailures[k]] \in Nat \ {0}
      BY <1>2, <2>2, ErrorDelay DEF PositiveDelay
    <3>2. waiting'[k] # None /\ \A j \in Keys \ {k} : waiting'[j] = waiting[j] /\ (j \in queue <=> j \in queue')
      BY <1>2, <2>0, <2>2, <3>1, EarlierType DEF ReconcileFails, QueueRateLimited, TypeOK
    <3> QED
      BY <1>2, <2>0, <2>2, <3>2 DEF ReconcileFails, NoLostRequeue, TypeOK
  <2>3. ASSUME NEW k \in Keys, NEW d \in UserDelays, ReconcileAfter(k, d) PROVE NoLostRequeue'
    BY <2>1, <2>3, RequeueAssumption DEF ReconcileAfter
  <2>4. ASSUME NEW k \in Keys, ReconcileRequeue(k) PROVE NoLostRequeue'
    <3>1. Delay[failures[k]] \in Nat \ {0}
      BY <2>0, <2>4, DelayType, RequeueAssumption DEF ReconcileRequeue, TypeOK, PositiveDelay
    <3> QED
      BY <2>1, <2>4, <3>1 DEF ReconcileRequeue
  <2>5. ASSUME NEW k \in Keys, ReconcileDone(k) PROVE NoLostRequeue'
    BY <1>2, <2>5 DEF ReconcileDone, QueueResult, NoLostRequeue
  <2>6. ASSUME NEW k \in Keys, Source(k) \/ WatchEvent(k) PROVE NoLostRequeue'
    BY <1>2, <2>6 DEF Source, WatchEvent, NoLostRequeue
  <2>7. CASE Tick
    <3>1. \A k \in Keys : waiting[k] # None => waiting[k] \in Nat \ {0}
      BY <2>0 DEF TypeOK
    <3>2. \A k \in Keys : waiting[k] # None => k \in queue' \/ waiting'[k] # None
      BY <2>7, <3>1, RequeueAssumption DEF Tick
    <3> QED
      BY <1>2, <2>0, <2>7, <3>2 DEF Tick, NoLostRequeue, TypeOK
  <2>8. CASE UNCHANGED vars
    BY <1>2, <2>8 DEF vars, NoLostRequeue
  <2> QED
    BY <1>2, <2>2, <2>3, <2>4, <2>5, <2>6, <2>7, <2>8 DEF Next
<1> QED
  BY <1>1, <1>2, StreaksHold, PTL DEF Spec

\* A success clears both limiters of its request, whatever errors, delays and
\* Requeues came before it and in whatever order.
THEOREM SuccessForgets == Spec => []CountsFollowAnswers
<1>1. Init => CountsFollowAnswers
  BY DEF Init, CountsFollowAnswers
<1>2. ASSUME TypeOK, CountsFollowAnswers, [Next]_vars
      PROVE  CountsFollowAnswers'
  <2>1. ASSUME NEW k \in Keys, asked' = asked \cup {k},
               \A j \in Keys \ {k} : failures'[j] = failures[j] /\ queueFailures'[j] = queueFailures[j]
        PROVE  CountsFollowAnswers'
    BY <1>2, <2>1 DEF CountsFollowAnswers
  <2>2. ASSUME NEW k \in Keys, ReconcileFails(k) PROVE CountsFollowAnswers'
    BY <1>2, <2>1, <2>2 DEF ReconcileFails, QueueRateLimited, TypeOK
  <2>3. ASSUME NEW k \in Keys, NEW d \in UserDelays, ReconcileAfter(k, d) PROVE CountsFollowAnswers'
    BY <1>2, <2>1, <2>3 DEF ReconcileAfter, QueueResult, TypeOK
  <2>4. ASSUME NEW k \in Keys, ReconcileRequeue(k) PROVE CountsFollowAnswers'
    BY <1>2, <2>1, <2>4 DEF ReconcileRequeue, QueueResult, TypeOK
  <2>5. ASSUME NEW k \in Keys, ReconcileDone(k) PROVE CountsFollowAnswers'
    BY <1>2, <2>5 DEF ReconcileDone, QueueResult, CountsFollowAnswers, TypeOK
  <2>6. CASE UNCHANGED <<failures, queueFailures, asked>>
    BY <1>2, <2>6 DEF CountsFollowAnswers
  <2> QED
    BY <1>2, <2>2, <2>3, <2>4, <2>5, <2>6 DEF Next, Source, WatchEvent, Tick, vars
<1> QED
  BY <1>1, <1>2, TypeCorrect, PTL DEF Spec

-----------------------------------------------------------------------------
(* The wrapper's two limiters and Requeue: true.                           *)

\* An error, next to one limiter: the same count while there is no Requeue in
\* the streak, and no more than the streak's in any case.
LEMMA ErrorCount ==
    ASSUME Streaks, NEW k \in Keys
    PROVE  queueFailures[k] \in Native!ErrorCounts(k)
<1>1. queueFailures[k] \in Nat /\ errors[k] \in Nat /\ failures[k] \in Nat
  BY DEF Streaks, TypeOK
<1>2. CASE failures[k] = 0
  BY <1>2 DEF Streaks, Native!ErrorCounts
<1>3. CASE failures[k] # 0
  <2>1. queueFailures[k] <= errors[k] + failures[k]
    BY <1>1 DEF Streaks
  <2> QED
    BY <1>1, <1>3, <2>1 DEF Native!ErrorCounts, Native!Failures
<1> QED
  BY <1>2, <1>3

\* A Requeue: as many failures as the Requeues of the streak.
LEMMA RequeueCount ==
    ASSUME Streaks, NEW k \in Keys
    PROVE  failures[k] \in Native!RequeueCounts(k)
BY DEF Streaks, TypeOK, Native!RequeueCounts, Native!Failures

\* Every step of the wrapper and its queue is one of a limiter that counts
\* errors and Requeues apart.
LEMMA NativeStep ==
    ASSUME PositiveDelay, Streaks, [Next]_vars
    PROVE  [Native!SplitNext]_(Native!vars)
<1>0. TypeOK
  BY DEF Streaks
<1>1. ASSUME NEW k \in Keys, ReconcileFails(k) PROVE Native!SplitNext
  <2>1. Delay[queueFailures[k]] # 0
    BY <1>1, ErrorDelay DEF PositiveDelay
  <2>2. Native!Error(k, queueFailures[k])
    BY <1>1, <2>1
    DEF ReconcileFails, QueueRateLimited, Native!Error, Native!AddAfter, Native!Earlier, Earlier
  <2> QED
    BY <2>2, ErrorCount DEF Native!SplitNext
<1>2. ASSUME NEW k \in Keys, NEW d \in UserDelays, ReconcileAfter(k, d) PROVE Native!After(k, d)
  <2>1. d # 0 /\ d > 0
    BY RequeueAssumption
  <2> QED
    BY <1>2, <2>1
    DEF ReconcileAfter, QueueResult, Native!After, Native!Forget, Native!AddAfter, Native!Earlier, Earlier
<1>3. ASSUME NEW k \in Keys, ReconcileRequeue(k) PROVE Native!SplitNext
  <2>1. Delay[failures[k]] # 0 /\ Delay[failures[k]] > 0
    <3>1. failures[k] \in DOMAIN Delay /\ Delay[failures[k]] \in Nat
      BY <1>0, <1>3, DelayType, RequeueAssumption DEF ReconcileRequeue, TypeOK
    <3> QED
      BY <3>1 DEF PositiveDelay
  <2>2. Native!Requeue(k, failures[k])
    BY <1>3, <2>1
    DEF ReconcileRequeue, QueueResult, Native!Requeue, Native!AddAfter, Native!Earlier, Earlier
  <2> QED
    BY <2>2, RequeueCount DEF Native!SplitNext
<1>4. ASSUME NEW k \in Keys, ReconcileDone(k) PROVE Native!Done(k)
  BY <1>4 DEF ReconcileDone, QueueResult, Native!Done, Native!Forget
<1>5. ASSUME NEW k \in Keys, Source(k) \/ WatchEvent(k) PROVE Native!Add(k)
  BY <1>5 DEF Source, WatchEvent, Native!Add
<1>6. CASE Tick
  BY <1>6 DEF Tick, Native!SplitNext, Native!Unlimited, Native!Tick
<1>7. CASE UNCHANGED vars
  BY <1>7 DEF vars, Native!vars
<1> QED
  BY <1>1, <1>2, <1>3, <1>4, <1>5, <1>6, <1>7 DEF Next, Native!SplitNext, Native!Unlimited

\* For every request, every reconciler and every positive limiter: a streak of
\* Requeues alone, or of errors alone, is delayed exactly as by the one
\* limiter of Requeue: true, and no mixed streak backs off beyond its failures.
THEOREM ImplementsNative == PositiveDelay => (Spec => BacksOffAsNative)
<1> SUFFICES ASSUME PositiveDelay PROVE Spec => BacksOffAsNative
  OBVIOUS
<1>1. Init => Native!Init
  BY DEF Init, Native!Init
<1>2. Streaks /\ [Next]_vars => [Native!SplitNext]_(Native!vars)
  BY NativeStep
<1> QED
  BY <1>1, <1>2, StreaksHold, PTL DEF Spec, BacksOffAsNative, Native!SplitSpec
=============================================================================
