------------------------- MODULE LeaseHijackerProofs ------------------------
(***************************************************************************)
(* Proofs about LeaseHijacker for any electors, hijackers and durations:   *)
(* one leader, given timing that leaves room for the skew of the clocks,   *)
(* and a hijacked lease that nobody but another hijacker takes away.       *)
(***************************************************************************)
EXTENDS LeaseHijacker, TLAPS

\* The lease covers every leader: until what it says has run out on every
\* clock, with room for the skew, a leader has given up.
Covered ==
    \A p \in Leading : now < deadline[p] /\ deadline[p] + MaxSkew <= renewed + lease.duration

\* The history variables bracket what the lease says.
History ==
    /\ renewed <= written /\ written <= now
    /\ renewed <= lease.renewTime /\ lease.renewTime <= renewed + MaxSkew
    /\ \A p \in Procs \ unseen : mode[p] # "exited" => written <= observed[p]

\* A copy that is not stale describes the lease as it is.
CopyFits ==
    \A h \in Hijackers \ stale : mode[h] = "read" =>
        /\ copy[h].time <= now
        /\ renewed <= copy[h].time
        /\ copy[h].duration = lease.duration
        /\ renewed + lease.duration <= copy[h].time + copy[h].until + MaxSkew
        /\ copy[h].until <= lease.duration + MaxSkew

\* A hijacker that holds the lease wakes after every leader has given up and,
\* but for the time its Update took, before the lease, made longer, runs out.
SleepFits ==
    \A h \in Hijackers : lease.holder = h /\ mode[h] \in {"updating", "sleeping", "candidate"} =>
        /\ \A p \in Leading : deadline[p] <= Wake(h)
        /\ Wake(h) + Extra <= written + lease.duration + MaxSkew + late[h]
        /\ mode[h] = "candidate" => Wake(h) <= now

\* Who can hold the lease: nobody who has not written it, and nobody leads
\* while it is free.
HolderFits ==
    /\ \A h \in Hijackers : lease.holder = h => mode[h] \notin {"start", "read"}
    /\ \A e \in Electors : lease.holder = e => mode[e] # "candidate"
    /\ lease.holder = Nobody => Leading = {}

\* Only hijackers hijack.
ModeFits ==
    \A e \in Electors : mode[e] \in {"candidate", "leading", "exited"}

Inv ==
    /\ TypeOK
    /\ ModeFits
    /\ History
    /\ Covered
    /\ CopyFits
    /\ SleepFits
    /\ HolderFits
    /\ OneLeader

-----------------------------------------------------------------------------

\* Skews are bounded naturals.
LEMMA SkewType ==
    /\ \A p \in Procs : Skew[p] \in Nat /\ Skew[p] <= MaxSkew
    /\ MaxSkew \in Nat /\ Extra \in Nat
    /\ GiveUp \in Nat /\ GiveUp > 0
    /\ LeaseDuration \in Nat /\ LeaseDuration > 0
BY LeaseAssumption

\* What a process forgets keeps its type.
LEMMA EndType ==
    ASSUME TypeOK, NEW p \in Procs, End(p)
    PROVE  /\ mode' \in [Procs -> Modes] /\ deadline' \in [Procs -> Int]
           /\ observed' \in [Procs -> Nat]
           /\ copy' \in [Hijackers -> [time : Nat, until : Int, duration : Nat]]
           /\ wake' \in [Hijackers -> Int] /\ late' \in [Hijackers -> Nat]
<1>1. NoCopy \in [time : Nat, until : Int, duration : Nat]
  BY DEF NoCopy
<1>2. copy' \in [Hijackers -> [time : Nat, until : Int, duration : Nat]]
  BY <1>1 DEF End, TypeOK
<1> QED
  BY <1>2 DEF End, TypeOK, Modes

\* TypeOK is inductive.
LEMMA TypeStep ==
    ASSUME TypeOK, [Next]_vars
    PROVE  TypeOK'
<1> USE SkewType
<1>1. ASSUME NEW h \in Hijackers, HijackRead(h) PROVE TypeOK'
  <2>1. UntilElection(h) \in Int
    BY DEF UntilElection, TypeOK, Procs
  <2> QED
    BY <1>1, <2>1 DEF HijackRead, TypeOK, Modes
<1>2. ASSUME NEW h \in Hijackers, NEW t \in copy[h].time .. now, HijackUpdate(h, t) PROVE TypeOK'
  <2>1. copy[h] \in [time : Nat, until : Int, duration : Nat]
    BY DEF TypeOK
  <2>2. t \in Nat
    BY <2>1 DEF TypeOK
  <2>3. Hijacked(h, t) \in [holder : Procs \cup {Nobody}, renewTime : Int, duration : Nat]
    BY <2>1, <2>2 DEF Hijacked, Procs
  <2> QED
    BY <1>2, <2>2, <2>3 DEF HijackUpdate, Write, TypeOK, Modes
<1>10. ASSUME NEW h \in Hijackers, HijackReturn(h) PROVE TypeOK'
  <2>1. SleepEnd(h) \in Int /\ NoCopy \in [time : Nat, until : Int, duration : Nat]
    BY DEF TypeOK, SleepEnd, NoCopy
  <2> QED
    BY <1>10, <2>1 DEF HijackReturn, TypeOK, Modes
<1>3. ASSUME NEW h \in Hijackers, HijackConflict(h) \/ HijackWake(h) PROVE TypeOK'
  BY <1>3 DEF HijackConflict, HijackWake, TypeOK, Modes
<1>4. ASSUME NEW p \in Procs, Observe(p) PROVE TypeOK'
  BY <1>4 DEF Observe, TypeOK
<1>5. ASSUME NEW p \in Procs, Acquire(p) PROVE TypeOK'
  <2>1. [holder |-> p, renewTime |-> now + Skew[p], duration |-> LeaseDuration]
          \in [holder : Procs \cup {Nobody}, renewTime : Int, duration : Nat]
    BY DEF TypeOK
  <2> QED
    BY <1>5, <2>1 DEF Acquire, Write, TypeOK, Modes
<1>6. ASSUME NEW p \in Procs, Release(p) PROVE TypeOK'
  <2>1. [holder |-> Nobody, renewTime |-> now + Skew[p], duration |-> ReleasedDuration]
          \in [holder : Procs \cup {Nobody}, renewTime : Int, duration : Nat]
    BY DEF TypeOK, ReleasedDuration
  <2>2. End(p) => /\ mode' \in [Procs -> Modes] /\ deadline' \in [Procs -> Int]
                  /\ observed' \in [Procs -> Nat]
                  /\ copy' \in [Hijackers -> [time : Nat, until : Int, duration : Nat]]
                  /\ wake' \in [Hijackers -> Int] /\ late' \in [Hijackers -> Nat]
    BY EndType
  <2> QED
    BY <1>6, <2>1, <2>2 DEF Release, Write, TypeOK
<1>7. ASSUME NEW p \in Procs, Exit(p) PROVE TypeOK'
  BY <1>7, EndType DEF Exit, TypeOK
<1>8. CASE Tick
  BY <1>8 DEF Tick, TypeOK
<1>9. CASE UNCHANGED vars
  BY <1>9 DEF vars, TypeOK
<1> QED
  BY <1>1, <1>2, <1>3, <1>4, <1>5, <1>6, <1>7, <1>8, <1>9, <1>10 DEF Next

\* The initial states have their types.
LEMMA TypeInit == Init => TypeOK
<1> SUFFICES ASSUME Init PROVE TypeOK
  OBVIOUS
<1>1. PICK e \in Electors :
        /\ now = 0
        /\ lease = [holder |-> e, renewTime |-> Skew[e], duration |-> LeaseDuration]
        /\ renewed = 0
        /\ written = 0
        /\ mode = [p \in Procs |-> IF p \in Hijackers THEN "start"
                                   ELSE IF p = e THEN "leading" ELSE "candidate"]
        /\ deadline = [p \in Procs |-> IF p = e THEN GiveUp ELSE 0]
        /\ observed = [p \in Procs |-> 0]
        /\ unseen = Procs
        /\ copy = [h \in Hijackers |-> NoCopy]
        /\ stale = Hijackers
        /\ wake = [h \in Hijackers |-> 0]
        /\ late = [h \in Hijackers |-> 0]
  BY DEF Init
<1>2. e \in Procs /\ Skew[e] \in Int
  BY SkewType DEF Procs
<1> QED
  BY <1>1, <1>2, SkewType DEF TypeOK, NoCopy, Modes

\* Type correctness.
THEOREM TypeCorrect == Spec => []TypeOK
BY TypeInit, TypeStep, PTL DEF Spec

-----------------------------------------------------------------------------

\* Only electors and woken hijackers are candidates or leaders.
LEMMA ModeStep ==
    ASSUME TypeOK, ModeFits, [Next]_vars
    PROVE  ModeFits'
<1> USE LeaseAssumption DEF ModeFits, TypeOK, Procs
<1>1. ASSUME NEW h \in Hijackers, HijackRead(h) \/ HijackConflict(h) \/ HijackReturn(h) \/ HijackWake(h)
      PROVE  ModeFits'
  BY <1>1 DEF HijackRead, HijackConflict, HijackReturn, HijackWake
<1>2. ASSUME NEW h \in Hijackers, NEW t \in copy[h].time .. now, HijackUpdate(h, t) PROVE ModeFits'
  BY <1>2 DEF HijackUpdate
<1>3. ASSUME NEW p \in Procs, Observe(p) \/ Acquire(p) \/ Release(p) \/ Exit(p) PROVE ModeFits'
  BY <1>3 DEF Observe, Acquire, Release, Exit, End
<1>4. CASE Tick \/ UNCHANGED vars
  BY <1>4 DEF Tick, vars
<1> QED
  BY <1>1, <1>2, <1>3, <1>4 DEF Next

\* When an elector that does not lead may acquire the lease, nobody leads.
LEMMA FreeToLead ==
    ASSUME Inv, NEW p \in Procs, Acquire(p), mode[p] = "candidate"
    PROVE  Leading = {}
<1> USE SkewType
<1> SUFFICES ASSUME NEW q \in Leading PROVE FALSE
  OBVIOUS
<1>0. /\ q \in Procs /\ now \in Nat /\ deadline[q] \in Int /\ lease.duration \in Nat
      /\ renewed \in Nat /\ written \in Nat /\ observed[p] \in Nat
  BY DEF Inv, TypeOK, Leading
<1>1. CASE lease.holder = Nobody
  BY <1>1 DEF Inv, HolderFits
<1>2. CASE lease.holder = p
  <2>1. p \in Hijackers
    BY <1>2 DEF Inv, HolderFits, Procs
  <2>2. deadline[q] <= wake[p] /\ wake[p] <= now /\ wake[p] \in Int
    BY <1>2, <2>1 DEF Inv, SleepFits, Wake, TypeOK
  <2>3. now < deadline[q]
    BY DEF Inv, Covered
  <2> QED
    BY <1>0, <2>2, <2>3
<1>3. CASE p \notin unseen /\ observed[p] + lease.duration <= now
  <2>1. renewed <= written /\ written <= observed[p]
    BY <1>3 DEF Inv, History
  <2>2. now < deadline[q] /\ deadline[q] + MaxSkew <= renewed + lease.duration
    BY DEF Inv, Covered
  <2> QED
    BY <1>0, <1>3, <2>1, <2>2
<1> QED
  BY <1>1, <1>2, <1>3 DEF Acquire, MayAcquire

\* After an acquisition the only leader is the one that acquired.
LEMMA AcquireLeads ==
    ASSUME Inv, NEW p \in Procs, Acquire(p)
    PROVE  Leading' = {p}
<1>1. Leading \subseteq {p}
  <2>1. CASE mode[p] = "candidate"
    BY <2>1, FreeToLead
  <2>2. CASE mode[p] = "leading"
    BY <2>2 DEF Inv, OneLeader, Leading
  <2> QED
    BY <2>1, <2>2 DEF Acquire
<1> QED
  BY <1>1 DEF Acquire, Leading, Inv, TypeOK

-----------------------------------------------------------------------------
(* Inv is inductive, action by action.                                     *)

\* Get changes nothing but the hijacker's own copy.
LEMMA ReadStep ==
    ASSUME Inv, NEW h \in Hijackers, HijackRead(h), TypeOK', ModeFits'
    PROVE  Inv'
<1> USE SkewType DEF Inv
<1>1. Leading' = Leading
  BY DEF HijackRead, Leading, TypeOK, Procs
<1>2. mode' = [mode EXCEPT ![h] = "read"] /\ mode[h] = "start" /\ h \in Procs
  BY DEF HijackRead, Procs
<1>3. UNCHANGED <<now, lease, renewed, written, deadline, observed, unseen, wake, late>>
  BY DEF HijackRead
<1>4. History'
  BY <1>2, <1>3 DEF History, TypeOK
<1>5. Covered' /\ OneLeader'
  BY <1>1, <1>3 DEF Covered, OneLeader
<1>6. CopyFits'
  <2>1. SUFFICES ASSUME NEW g \in Hijackers \ stale', mode'[g] = "read"
                 PROVE  /\ copy'[g].time <= now
                        /\ renewed <= copy'[g].time
                        /\ copy'[g].duration = lease.duration
                        /\ renewed + lease.duration <= copy'[g].time + copy'[g].until + MaxSkew
                        /\ copy'[g].until <= lease.duration + MaxSkew
    BY <1>3 DEF CopyFits
  <2>2. CASE g = h
    <3>1. copy'[g] = [time |-> now, until |-> UntilElection(h), duration |-> lease.duration]
      BY <2>2 DEF HijackRead, TypeOK
    <3>2. /\ now \in Nat /\ lease.duration \in Nat /\ lease.renewTime \in Int /\ renewed \in Nat
          /\ Skew[h] \in Nat /\ Skew[h] <= MaxSkew
      BY DEF TypeOK, Procs
    <3>3. renewed <= now /\ renewed <= lease.renewTime /\ lease.renewTime <= renewed + MaxSkew
      BY <3>2 DEF History, TypeOK
    <3> QED
      BY <3>1, <3>2, <3>3 DEF UntilElection
  <2>3. CASE g # h
    <3>1. copy'[g] = copy[g] /\ g \notin stale
      BY <2>3 DEF HijackRead, TypeOK
    <3>2. mode[g] = "read"
      BY <1>2, <2>1, <2>3 DEF TypeOK, Procs
    <3> QED
      BY <3>1, <3>2 DEF CopyFits
  <2> QED
    BY <2>2, <2>3
<1>7. SleepFits'
  <2>1. \A g \in Hijackers : mode'[g] \in {"updating", "sleeping", "candidate"} =>
          mode'[g] = mode[g] /\ copy'[g] = copy[g]
    BY <1>2 DEF HijackRead, TypeOK, Procs
  <2> QED
    BY <1>1, <1>3, <2>1 DEF SleepFits, Wake, SleepEnd
<1>8. HolderFits'
  BY <1>1, <1>2, <1>3 DEF HolderFits, TypeOK, Procs
<1> QED
  BY <1>4, <1>5, <1>6, <1>7, <1>8

\* A hijack lengthens the lease: a sleep that started now would fit into it.
LEMMA UpdateStep ==
    ASSUME Inv, NEW h \in Hijackers, NEW t \in copy[h].time .. now, HijackUpdate(h, t), TypeOK', ModeFits'
    PROVE  Inv'
<1> USE SkewType DEF Inv
<1>1. Leading' = Leading
  BY DEF HijackUpdate, Leading, TypeOK, Procs
<1>2. mode' = [mode EXCEPT ![h] = "updating"] /\ mode[h] = "read" /\ h \in Procs /\ h # Nobody
  BY LeaseAssumption DEF HijackUpdate, Procs
<1>3. /\ copy[h].time <= now /\ renewed <= copy[h].time
      /\ copy[h].duration = lease.duration
      /\ renewed + lease.duration <= copy[h].time + copy[h].until + MaxSkew
      /\ copy[h].until <= lease.duration + MaxSkew
      /\ copy[h].time \in Nat /\ copy[h].until \in Int
  BY DEF HijackUpdate, CopyFits, TypeOK
<1>4. /\ lease' = [holder |-> h, renewTime |-> t + Skew[h], duration |-> lease.duration + Extra]
      /\ renewed' = t /\ written' = now /\ now' = now /\ deadline' = deadline
      /\ unseen' = Procs /\ stale' = Hijackers
      /\ copy' = copy /\ late'[h] = 0
  BY <1>3 DEF HijackUpdate, Write, Hijacked, TypeOK
<1>5. /\ now \in Nat /\ renewed \in Nat /\ t \in Nat /\ renewed <= t /\ t <= now
      /\ lease.duration \in Nat /\ copy[h].time <= t
      /\ Skew[h] \in Nat /\ Skew[h] <= MaxSkew
  BY <1>3 DEF TypeOK, Procs
<1>6. History'
  BY <1>4, <1>5 DEF History
<1>7. Covered' /\ OneLeader'
  <2>1. \A p \in Leading : deadline[p] \in Int /\ now < deadline[p]
                           /\ deadline[p] + MaxSkew <= renewed + lease.duration
    BY DEF Covered, Leading, TypeOK
  <2>2. \A p \in Leading : deadline[p] + MaxSkew <= t + (lease.duration + Extra)
    BY <1>5, <2>1
  <2>3. lease'.duration = lease.duration + Extra
    BY <1>4
  <2> QED
    BY <1>1, <1>4, <2>1, <2>2, <2>3 DEF Covered, OneLeader
<1>8. CopyFits'
  BY <1>4 DEF CopyFits
<1>9. SleepFits'
  <2>1. \A p \in Leading : deadline[p] \in Int /\ deadline[p] + MaxSkew <= renewed + lease.duration
    BY DEF Covered, Leading, TypeOK
  <2>2. \A p \in Leading : deadline[p] <= now + copy[h].until
    BY <1>3, <1>5, <2>1
  <2>3. (now + copy[h].until) + Extra <= now + (lease.duration + Extra) + MaxSkew
    BY <1>3, <1>5
  <2>4. lease'.duration = lease.duration + Extra /\ lease'.holder = h /\ mode'[h] = "updating"
    BY <1>2, <1>4 DEF TypeOK
  <2>5. Wake(h)' = now + copy[h].until
    BY <1>4, <2>4 DEF Wake, SleepEnd
  <2>6. lease.duration + Extra \in Nat
    BY <1>5
  <2>7. Wake(h)' + Extra <= written' + lease'.duration + MaxSkew + late'[h]
    BY <1>3, <1>4, <1>5, <2>3, <2>4, <2>5, <2>6
  <2> QED
    BY <1>1, <1>4, <2>2, <2>4, <2>5, <2>7 DEF SleepFits
<1>10. HolderFits'
  <2>1. lease'.holder = h /\ mode'[h] = "updating"
    BY <1>2, <1>4 DEF TypeOK
  <2> QED
    BY <1>2, <2>1 DEF HolderFits
<1> QED
  BY <1>6, <1>7, <1>8, <1>9, <1>10

\* The answer to a hijack's Update makes its time to sleep a time to wake.
LEMMA ReturnStep ==
    ASSUME Inv, NEW h \in Hijackers, HijackReturn(h), TypeOK', ModeFits'
    PROVE  Inv'
<1> USE DEF Inv
<1>1. Leading' = Leading
  BY DEF HijackReturn, Leading, TypeOK, Procs
<1>2. /\ h \in Procs /\ mode[h] = "updating" /\ mode' = [mode EXCEPT ![h] = "sleeping"]
      /\ wake'[h] = SleepEnd(h)
      /\ \A g \in Hijackers \ {h} : wake'[g] = wake[g] /\ copy'[g] = copy[g]
  BY DEF HijackReturn, Procs, TypeOK
<1>3. UNCHANGED <<now, lease, renewed, written, deadline, observed, unseen, stale, late>>
  BY DEF HijackReturn
<1>4. CopyFits'
  <2>1. \A g \in Hijackers : mode'[g] = "read" => mode[g] = "read" /\ g # h
    BY <1>2 DEF TypeOK, Procs
  <2> QED
    BY <1>2, <1>3, <2>1 DEF CopyFits
<1>5. SleepFits'
  <2>1. ASSUME NEW g \in Hijackers, mode'[g] \in {"updating", "sleeping", "candidate"}
        PROVE  /\ Wake(g)' = Wake(g)
               /\ mode[g] \in {"updating", "sleeping", "candidate"}
               /\ mode'[g] = "candidate" => mode[g] = "candidate"
    BY <1>2, <1>3, <2>1 DEF Wake, SleepEnd, TypeOK, Procs
  <2> QED
    BY <1>1, <1>3, <2>1 DEF SleepFits
<1>6. Covered' /\ OneLeader'
  BY <1>1, <1>3 DEF Covered, OneLeader
<1>7. HolderFits'
  BY <1>1, <1>2, <1>3, LeaseAssumption DEF HolderFits, TypeOK, Procs
<1>8. History'
  BY <1>2, <1>3 DEF History, TypeOK
<1> QED
  BY <1>4, <1>5, <1>6, <1>7, <1>8

\* The end of a sleep, or of a hijack that failed.
LEMMA WakeStep ==
    ASSUME Inv, NEW h \in Hijackers, HijackConflict(h) \/ HijackWake(h), TypeOK', ModeFits'
    PROVE  Inv'
<1> USE SkewType DEF Inv
<1>1. Leading' = Leading
  BY DEF HijackConflict, HijackWake, Leading, TypeOK, Procs
<1>2. /\ h \in Procs
      /\ \/ mode[h] = "read" /\ mode' = [mode EXCEPT ![h] = "panicked"]
         \/ mode[h] = "sleeping" /\ wake[h] <= now /\ mode' = [mode EXCEPT ![h] = "candidate"]
  BY DEF HijackConflict, HijackWake, Procs
<1>3. UNCHANGED <<now, lease, renewed, written, deadline, observed, unseen, copy, stale, wake, late>>
  BY DEF HijackConflict, HijackWake
<1>4. CopyFits'
  <2>1. \A g \in Hijackers : mode'[g] = "read" => mode[g] = "read"
    BY <1>2 DEF TypeOK, Procs
  <2> QED
    BY <1>3, <2>1 DEF CopyFits
<1>5. SleepFits'
  BY <1>1, <1>2, <1>3 DEF SleepFits, Wake, SleepEnd, TypeOK, Procs
<1>6. Covered' /\ OneLeader'
  BY <1>1, <1>3 DEF Covered, OneLeader
<1>7. HolderFits'
  BY <1>1, <1>2, <1>3, LeaseAssumption DEF HolderFits, TypeOK, Procs
<1>8. History'
  BY <1>2, <1>3 DEF History, TypeOK
<1> QED
  BY <1>4, <1>5, <1>6, <1>7, <1>8

\* Observing the lease changes only what the elector remembers of it.
LEMMA ObserveStep ==
    ASSUME Inv, NEW p \in Procs, Observe(p), TypeOK', ModeFits'
    PROVE  Inv'
<1> USE DEF Inv
<1>1. UNCHANGED <<now, lease, renewed, written, mode, deadline, copy, stale, wake, late>>
  BY DEF Observe
<1>2. Leading' = Leading
  BY <1>1 DEF Leading
<1>3. History'
  <2>1. \A q \in Procs \ unseen' : mode[q] # "exited" => written <= observed'[q]
    BY DEF History, Observe, TypeOK
  <2> QED
    BY <1>1, <2>1 DEF History
<1>4. Covered' /\ OneLeader' /\ CopyFits' /\ SleepFits' /\ HolderFits'
  BY <1>1, <1>2 DEF Covered, OneLeader, CopyFits, SleepFits, Wake, SleepEnd, HolderFits
<1> QED
  BY <1>3, <1>4

\* An acquisition or a renewal: the new leader is the only one, and its
\* lease covers it if the timing is safe.
LEMMA AcquireStep ==
    ASSUME SafeTiming, Inv, NEW p \in Procs, Acquire(p), TypeOK', ModeFits'
    PROVE  Inv'
<1> USE SkewType DEF Inv
<1>1. Leading' = {p}
  BY AcquireLeads
<1>2. /\ lease' = [holder |-> p, renewTime |-> now + Skew[p], duration |-> LeaseDuration]
      /\ renewed' = now /\ written' = now /\ now' = now
      /\ deadline'[p] = now + GiveUp /\ observed'[p] = now
      /\ unseen' = Procs \ {p} /\ stale' = Hijackers
      /\ mode'[p] = "leading"
  BY DEF Acquire, Write, TypeOK
<1>3. now \in Nat /\ Skew[p] \in Nat /\ Skew[p] <= MaxSkew
  BY DEF TypeOK
<1>4. History'
  BY <1>2, <1>3 DEF History
<1>5. Covered' /\ OneLeader'
  BY <1>1, <1>2, <1>3 DEF Covered, OneLeader, SafeTiming
<1>6. CopyFits'
  BY <1>2 DEF CopyFits
<1>7. SleepFits'
  BY <1>2 DEF SleepFits
<1>8. HolderFits'
  BY <1>2, LeaseAssumption DEF HolderFits
<1> QED
  BY <1>4, <1>5, <1>6, <1>7, <1>8

\* The leader was the only one, so a lease it gives back has no leader.
LEMMA ReleaseStep ==
    ASSUME Inv, NEW p \in Procs, Release(p), TypeOK', ModeFits'
    PROVE  Inv'
<1> USE SkewType DEF Inv
<1>1. Leading' = {}
  BY DEF Release, End, OneLeader, Leading, TypeOK
<1>2. /\ lease' = [holder |-> Nobody, renewTime |-> now + Skew[p], duration |-> ReleasedDuration]
      /\ renewed' = now /\ written' = now /\ now' = now
      /\ unseen' = Procs /\ stale' = Hijackers
  BY DEF Release, Write
<1>3. now \in Nat /\ Skew[p] \in Nat /\ Skew[p] <= MaxSkew
  BY DEF TypeOK
<1>4. History'
  BY <1>2, <1>3 DEF History
<1>5. Covered' /\ OneLeader' /\ CopyFits'
  BY <1>1, <1>2 DEF Covered, OneLeader, CopyFits
<1>6. SleepFits' /\ HolderFits'
  BY <1>1, <1>2, LeaseAssumption DEF SleepFits, HolderFits, Procs
<1> QED
  BY <1>4, <1>5, <1>6

\* A process that ends only leaves the leaders.
LEMMA ExitStep ==
    ASSUME Inv, NEW p \in Procs, Exit(p), TypeOK', ModeFits'
    PROVE  Inv'
<1> USE DEF Inv
<1>1. UNCHANGED <<now, lease, renewed, written, unseen, stale>>
  BY DEF Exit
<1>2. /\ mode'[p] = "exited"
      /\ \A q \in Procs \ {p} : mode'[q] = mode[q] /\ deadline'[q] = deadline[q] /\ observed'[q] = observed[q]
      /\ \A h \in Hijackers \ {p} : copy'[h] = copy[h] /\ wake'[h] = wake[h] /\ late'[h] = late[h]
  BY DEF Exit, End, TypeOK
<1>3. Leading' = Leading \ {p}
  BY <1>2 DEF Leading
<1>4. Leading \subseteq Procs
  BY DEF Leading
<1>5. History'
  BY <1>1, <1>2 DEF History
<1>6. Covered' /\ OneLeader'
  BY <1>1, <1>2, <1>3, <1>4 DEF Covered, OneLeader
<1>7. CopyFits'
  BY <1>1, <1>2 DEF CopyFits, Procs
<1>8. SleepFits'
  <2>1. \A q \in Leading' : q \in Leading /\ deadline'[q] = deadline[q]
    BY <1>2, <1>3, <1>4
  <2>2. \A h \in Hijackers : mode'[h] \in {"updating", "sleeping", "candidate"} =>
          mode'[h] = mode[h] /\ Wake(h)' = Wake(h) /\ late'[h] = late[h]
    BY <1>1, <1>2 DEF Wake, SleepEnd, Procs
  <2> QED
    BY <1>1, <2>1, <2>2 DEF SleepFits
<1>9. HolderFits'
  BY <1>1, <1>2, <1>3 DEF HolderFits, Procs
<1> QED
  BY <1>5, <1>6, <1>7, <1>8, <1>9

\* Time reaches no leader's deadline.
LEMMA TickStep ==
    ASSUME Inv, Tick, TypeOK', ModeFits'
    PROVE  Inv'
<1> USE DEF Inv
<1>1. /\ UNCHANGED <<lease, renewed, written, mode, deadline, observed, unseen, copy, stale, wake>>
      /\ now' = now + 1 /\ now \in Nat
  BY DEF Tick, TypeOK
<1>2. Leading' = Leading
  BY <1>1 DEF Leading
<1>3. History'
  BY <1>1 DEF History, TypeOK
<1>4. Covered' /\ OneLeader'
  BY <1>1, <1>2 DEF Covered, OneLeader, Tick
<1>5. CopyFits'
  BY <1>1 DEF CopyFits, TypeOK
<1>6. SleepFits'
  <2>1. SUFFICES ASSUME NEW h \in Hijackers, lease.holder = h,
                        mode[h] \in {"updating", "sleeping", "candidate"}
                 PROVE  /\ \A p \in Leading : deadline[p] <= Wake(h)'
                        /\ Wake(h)' + Extra <= written + lease.duration + MaxSkew + late'[h]
                        /\ mode[h] = "candidate" => Wake(h)' <= now'
    BY <1>1, <1>2 DEF SleepFits
  <2>2. /\ now \in Nat /\ written \in Nat /\ lease.duration \in Nat /\ copy[h].until \in Int
        /\ wake[h] \in Int /\ late[h] \in Nat
        /\ \A p \in Leading : deadline[p] \in Int
    BY DEF TypeOK, Leading
  <2>3. /\ \A p \in Leading : deadline[p] <= Wake(h)
        /\ Wake(h) + Extra <= written + lease.duration + MaxSkew + late[h]
        /\ mode[h] = "candidate" => Wake(h) <= now
    BY <2>1 DEF SleepFits
  <2>4. CASE mode[h] = "updating"
    <3>1. /\ Wake(h) = now + copy[h].until /\ Wake(h)' = (now + 1) + copy[h].until
          /\ late'[h] = late[h] + 1
      BY <1>1, <2>4 DEF Wake, SleepEnd, Tick
    <3> QED
      BY <2>2, <2>3, <2>4, <3>1, SkewType
  <2>5. CASE mode[h] # "updating"
    <3>1. Wake(h) = wake[h] /\ Wake(h)' = wake[h] /\ late'[h] = late[h]
      BY <1>1, <2>5 DEF Wake, Tick
    <3> QED
      BY <1>1, <2>2, <2>3, <3>1, SkewType
  <2> QED
    BY <2>4, <2>5
<1>7. HolderFits'
  BY <1>1, <1>2 DEF HolderFits
<1> QED
  BY <1>3, <1>4, <1>5, <1>6, <1>7

\* Inv is inductive under safe timing.
LEMMA InvStep ==
    ASSUME SafeTiming, Inv, [Next]_vars
    PROVE  Inv'
<1>1. TypeOK' /\ ModeFits'
  BY TypeStep, ModeStep DEF Inv
<1>2. CASE UNCHANGED vars
  <2>1. Leading' = Leading
    BY <1>2 DEF vars, Leading
  <2> QED
    BY <1>1, <1>2, <2>1 DEF vars, Inv, History, Covered, CopyFits, SleepFits, Wake, SleepEnd, HolderFits, OneLeader
<1> QED
  BY <1>1, <1>2, ReadStep, UpdateStep, ReturnStep, WakeStep, ObserveStep, AcquireStep, ReleaseStep, ExitStep, TickStep DEF Next

\* The initial leader is covered by its lease under safe timing.
LEMMA InvInit == SafeTiming /\ Init => Inv
<1> SUFFICES ASSUME SafeTiming, Init PROVE Inv
  OBVIOUS
<1> USE SkewType
<1>0. TypeOK
  BY TypeInit
<1>1. PICK e \in Electors :
        /\ now = 0
        /\ lease = [holder |-> e, renewTime |-> Skew[e], duration |-> LeaseDuration]
        /\ renewed = 0
        /\ written = 0
        /\ mode = [p \in Procs |-> IF p \in Hijackers THEN "start"
                                   ELSE IF p = e THEN "leading" ELSE "candidate"]
        /\ deadline = [p \in Procs |-> IF p = e THEN GiveUp ELSE 0]
        /\ observed = [p \in Procs |-> 0]
        /\ unseen = Procs
        /\ copy = [h \in Hijackers |-> NoCopy]
        /\ stale = Hijackers
        /\ wake = [h \in Hijackers |-> 0]
        /\ late = [h \in Hijackers |-> 0]
  BY DEF Init
<1>2. e \in Procs /\ e \notin Hijackers /\ e # Nobody /\ Skew[e] \in Nat /\ Skew[e] <= MaxSkew
  BY LeaseAssumption DEF Procs
<1>3. Leading = {e} /\ deadline[e] = GiveUp /\ lease.holder = e /\ lease.duration = LeaseDuration
  BY <1>1, <1>2 DEF Leading
<1>4. ModeFits
  BY <1>1, LeaseAssumption DEF ModeFits, Procs
<1>5. History
  BY <1>1, <1>2 DEF History
<1>6. Covered /\ OneLeader
  BY <1>1, <1>3 DEF Covered, OneLeader, SafeTiming
<1>7. CopyFits
  BY <1>1 DEF CopyFits
<1>8. SleepFits /\ HolderFits
  BY <1>1, <1>2, <1>3 DEF SleepFits, HolderFits, Procs
<1> QED
  BY <1>0, <1>4, <1>5, <1>6, <1>7, <1>8 DEF Inv

\* If a leader gives up before its lease has run out on every clock, the
\* sleep of untilElection is long enough: hijacking never makes two leaders,
\* whatever the durations, the processes and their crashes.
THEOREM MutualExclusion == SafeTiming => (Spec => []OneLeader)
<1> SUFFICES ASSUME SafeTiming PROVE Spec => []OneLeader
  OBVIOUS
<1>1. Init => Inv
  BY InvInit
<1>2. Inv /\ [Next]_vars => Inv'
  BY InvStep
<1>3. Inv => OneLeader
  BY DEF Inv
<1> QED
  BY <1>1, <1>2, <1>3, PTL DEF Spec

\* The duration made longer keeps every elector away until Extra - MaxSkew after
\* the hijacker's sleep, less the time that Update took to return: an elector
\* comes before the sleep is over only if that was more than Extra - MaxSkew.
THEOREM HijackersWin == SafeTiming => (Spec => HijackWins)
<1> SUFFICES ASSUME SafeTiming PROVE Spec => HijackWins
  OBVIOUS
<1>1. Init => Inv
  BY InvInit
<1>2. Inv /\ [Next]_vars => Inv'
  BY InvStep
<1>3. ASSUME Inv, [Next]_vars, NEW h \in Hijackers, lease.holder = h,
             mode[h] \in {"updating", "sleeping", "candidate"},
             now < Wake(h) + Extra - MaxSkew - late[h]
      PROVE  KeptOrHijacked(h)
  <2>1. ASSUME NEW p \in Procs, Acquire(p) PROVE lease'.holder = h
    <3>1. CASE p = h
      BY <2>1, <3>1 DEF Acquire, Write
    <3>2. CASE p # h
      <4>1. h # Nobody
        BY LeaseAssumption DEF Procs
      <4>2. p \notin unseen /\ observed[p] + lease.duration <= now
        BY <1>3, <2>1, <3>2, <4>1 DEF Acquire, MayAcquire
      <4>3. written <= observed[p]
        BY <1>3, <2>1, <4>2 DEF Acquire, Inv, History
      <4>4. Wake(h) + Extra <= written + lease.duration + MaxSkew + late[h]
        BY <1>3 DEF Inv, SleepFits
      <4>6. Wake(h) \in Int
        BY <1>3 DEF Inv, TypeOK, Wake, SleepEnd
      <4>5. /\ late[h] \in Nat /\ written \in Nat /\ observed[p] \in Nat /\ now \in Nat
            /\ lease.duration \in Nat
        BY <1>3 DEF Inv, TypeOK
      <4> QED
        BY <1>3, <4>2, <4>3, <4>4, <4>5, <4>6, SkewType
    <3> QED
      BY <3>1, <3>2
  <2>2. ASSUME NEW g \in Hijackers, NEW t \in copy[g].time .. now, HijackUpdate(g, t)
        PROVE  lease'.holder \in Hijackers /\ mode'[lease'.holder] = "updating"
    <3>1. lease'.holder = g /\ mode'[g] = "updating"
      BY <1>3, <2>2 DEF HijackUpdate, Write, Hijacked, Inv, TypeOK, Procs
    <3> QED
      BY <3>1
  <2>3. ASSUME NEW p \in Procs, Release(p) PROVE FALSE
    BY <1>3, <2>3 DEF Release
  <2>4. ASSUME NEW g \in Hijackers, HijackRead(g) \/ HijackConflict(g) \/ HijackReturn(g) \/ HijackWake(g)
        PROVE  lease'.holder = h
    BY <1>3, <2>4 DEF HijackRead, HijackConflict, HijackReturn, HijackWake
  <2>5. ASSUME NEW p \in Procs, Observe(p) \/ Exit(p) PROVE lease'.holder = h
    BY <1>3, <2>5 DEF Observe, Exit
  <2>6. ASSUME Tick \/ UNCHANGED vars PROVE lease'.holder = h
    BY <1>3, <2>6 DEF Tick, vars
  <2> QED
    BY <1>3, <2>1, <2>2, <2>3, <2>4, <2>5, <2>6 DEF Next, KeptOrHijacked
<1>4. Inv /\ [Next]_vars =>
        [\A h \in Hijackers :
            /\ lease.holder = h
            /\ mode[h] \in {"updating", "sleeping", "candidate"}
            /\ now < Wake(h) + Extra - MaxSkew - late[h]
            => KeptOrHijacked(h)]_vars
  BY <1>3
<1> QED
  BY <1>1, <1>2, <1>4, PTL DEF Spec, HijackWins
=============================================================================
