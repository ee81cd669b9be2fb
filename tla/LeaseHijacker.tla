--------------------------- MODULE LeaseHijacker ----------------------------
(***************************************************************************)
(* Lease stealing (src/leaderelection/leasehijacker.go) next to the leader *)
(* electors of client-go that it steals from.                              *)
(*                                                                         *)
(* A hijacker reads the lease, works out how long the present holder may   *)
(* still believe it leads, writes its own name with a longer duration and  *)
(* sleeps that long before it starts an elector of its own.  Two things    *)
(* have to hold: the sleep is long enough for the old leader to give up,   *)
(* and the longer duration keeps everybody else away until the sleep ends. *)
(* The sleep starts when the answer to the write has come, which the code  *)
(* waits for without a timeout: the two are steps of their own, and time   *)
(* passes between them.                                                    *)
(*                                                                         *)
(* Time is an integer; every process has a clock that may run ahead of the *)
(* slowest one by at most MaxSkew.  A member of Electors or Hijackers is   *)
(* one run of a process: an identity is never used twice, so a restart is  *)
(* another member.                                                         *)
(***************************************************************************)
EXTENDS Integers

CONSTANTS
    Electors,       \* processes with HIJACK_LEASE unset
    Hijackers,      \* processes with HIJACK_LEASE=true
    Nobody,         \* the holder of a released lease
    Skew,           \* Skew[p]: how far p's clock is ahead
    MaxSkew,        \* bound on Skew
    LeaseDuration,  \* the electors' configured LeaseDuration
    GiveUp,         \* longest a leader leads after the renewTime it wrote last:
                    \* RetryPeriod + RenewDeadline + the time the call took
    Extra,          \* what a hijacker adds to the duration (5 s)
    MaxTime         \* bound on time

Procs == Electors \cup Hijackers

ASSUME LeaseAssumption ==
    /\ Electors \cap Hijackers = {}
    /\ Nobody \notin Procs
    /\ MaxSkew \in Nat
    /\ Skew \in [Procs -> 0 .. MaxSkew]
    /\ LeaseDuration \in Nat \ {0}
    /\ GiveUp \in Nat \ {0}
    /\ Extra \in Nat
    /\ MaxTime \in Nat

\* The duration client-go writes when it releases a lease.
ReleasedDuration == 1

VARIABLES
    now,       \* the time, on the slowest clock
    lease,     \* the Lease object: holder, renewTime and duration
    renewed,   \* history: when renewTime was read off the writer's clock
    written,   \* history: when the lease was last written
    mode,      \* what each process is doing
    deadline,  \* when a leader gives up unless it renews
    observed,  \* when an elector first saw the lease as it last saw it
    unseen,    \* electors that have not seen the lease as it is
    copy,      \* the lease a hijacker has read, and untilElection
    stale,     \* hijackers whose copy's resourceVersion is outdated
    wake,      \* when a hijacker's sleep ends
    late       \* history: how long a hijacker's Update has waited for its answer

vars == <<now, lease, renewed, written, mode, deadline, observed, unseen, copy, stale, wake, late>>

Modes == {"start", "read", "panicked", "updating", "sleeping", "candidate", "leading", "exited"}

NoCopy == [time |-> 0, until |-> 0, duration |-> 0]

Leading == {p \in Procs : mode[p] = "leading"}

\* Every write gives the object a new resourceVersion.
Write(l, t) ==
    /\ lease' = l
    /\ renewed' = t
    /\ written' = now
    /\ stale' = Hijackers

-----------------------------------------------------------------------------
(* LeaseHijacker.                                                          *)

\* time.Until(renewTime + duration), on the hijacker's own clock.
UntilElection(h) == lease.renewTime + lease.duration - (now + Skew[h])

\* Get the lease and compute untilElection.  Nothing is lost by taking the two
\* as one instant: while the lease stays as it was read a later Get reads the
\* same, and once it is written again Update conflicts, whatever was computed.
HijackRead(h) ==
    /\ mode[h] = "start"
    /\ mode' = [mode EXCEPT ![h] = "read"]
    /\ copy' = [copy EXCEPT ![h] = [time |-> now, until |-> UntilElection(h), duration |-> lease.duration]]
    /\ stale' = stale \ {h}
    /\ UNCHANGED <<now, lease, renewed, written, deadline, observed, unseen, wake, late>>

\* Plausible bug: the duration stays as it was.
HijackedMutant(h, t) == [holder |-> h, renewTime |-> t + Skew[h], duration |-> copy[h].duration]

\* Plausible bug: the lease is made shorter.
HijackedShorter(h, t) == [holder |-> h, renewTime |-> t + Skew[h], duration |-> copy[h].duration - Extra]

\* The lease as the hijacker writes it, with renewTime read at time t.
Hijacked(h, t) == [holder |-> h, renewTime |-> t + Skew[h], duration |-> copy[h].duration + Extra]

\* Plausible bug: the Update does not carry the resourceVersion of the Get.
HijackUpdateMutant(h, t) ==
    /\ mode[h] = "read"
    /\ t \in copy[h].time .. now
    /\ Write(Hijacked(h, t), t)
    /\ mode' = [mode EXCEPT ![h] = "updating"]
    /\ unseen' = Procs
    /\ late' = [late EXCEPT ![h] = 0]
    /\ UNCHANGED <<now, deadline, observed, copy, wake>>

\* The API server takes an Update with the resourceVersion of the Get.
HijackUpdate(h, t) ==
    /\ mode[h] = "read"
    /\ h \notin stale
    /\ t \in copy[h].time .. now
    /\ Write(Hijacked(h, t), t)
    /\ mode' = [mode EXCEPT ![h] = "updating"]
    /\ unseen' = Procs
    /\ late' = [late EXCEPT ![h] = 0]
    /\ UNCHANGED <<now, deadline, observed, copy, wake>>

\* time.Sleep(untilElection) starts when Update returns; a negative duration
\* returns at once.
SleepEnd(h) == now + copy[h].until

\* Update returns and the sleep begins.  (An answer that is an error makes
\* lo.Must panic: Exit.)
HijackReturn(h) ==
    /\ mode[h] = "updating"
    /\ mode' = [mode EXCEPT ![h] = "sleeping"]
    /\ wake' = [wake EXCEPT ![h] = SleepEnd(h)]
    /\ copy' = [copy EXCEPT ![h] = NoCopy]
    /\ UNCHANGED <<now, lease, renewed, written, deadline, observed, unseen, stale, late>>

\* Update conflicts with any write since the Get: lo.Must panics.
HijackConflict(h) ==
    /\ mode[h] = "read"
    /\ h \in stale
    /\ mode' = [mode EXCEPT ![h] = "panicked"]
    /\ UNCHANGED <<now, lease, renewed, written, deadline, observed, unseen, copy, stale, wake, late>>

\* The sleep is over and the lock is handed to an elector.
HijackWake(h) ==
    /\ mode[h] = "sleeping"
    /\ wake[h] <= now
    /\ mode' = [mode EXCEPT ![h] = "candidate"]
    /\ UNCHANGED <<now, lease, renewed, written, deadline, observed, unseen, copy, stale, wake, late>>

-----------------------------------------------------------------------------
(* client-go's elector: tryAcquireOrRenew, without the attempts that leave *)
(* no trace, and giving up.                                                *)

\* An attempt that finds the lease changed takes note of the time.
Observe(p) ==
    /\ mode[p] \in {"candidate", "leading"}
    /\ p \in unseen
    /\ observed' = [observed EXCEPT ![p] = now]
    /\ unseen' = unseen \ {p}
    /\ UNCHANGED <<now, lease, renewed, written, mode, deadline, copy, stale, wake, late>>

MayAcquire(p) ==
    \/ lease.holder \in {p, Nobody}
    \/ p \notin unseen /\ observed[p] + lease.duration <= now

\* An attempt that succeeds: a first acquisition or a renewal.
Acquire(p) ==
    /\ mode[p] \in {"candidate", "leading"}
    /\ MayAcquire(p)
    /\ Write([holder |-> p, renewTime |-> now + Skew[p], duration |-> LeaseDuration], now)
    /\ mode' = [mode EXCEPT ![p] = "leading"]
    /\ deadline' = [deadline EXCEPT ![p] = now + GiveUp]
    /\ observed' = [observed EXCEPT ![p] = now]
    /\ unseen' = Procs \ {p}
    /\ UNCHANGED <<now, copy, wake, late>>

\* The end of a process, and of what it remembers.
End(p) ==
    /\ mode' = [mode EXCEPT ![p] = "exited"]
    /\ deadline' = [deadline EXCEPT ![p] = 0]
    /\ observed' = [observed EXCEPT ![p] = 0]
    /\ copy' = [h \in Hijackers |-> IF h = p THEN NoCopy ELSE copy[h]]
    /\ wake' = [h \in Hijackers |-> IF h = p THEN 0 ELSE wake[h]]
    /\ late' = [h \in Hijackers |-> IF h = p THEN 0 ELSE late[h]]

\* A leader that is told to stop gives the lease back if it still holds it.
Release(p) ==
    /\ mode[p] = "leading"
    /\ lease.holder = p
    /\ Write([holder |-> Nobody, renewTime |-> now + Skew[p], duration |-> ReleasedDuration], now)
    /\ End(p)
    /\ unseen' = Procs
    /\ now' = now

\* A process that loses the lease, or is killed, leads no more.
Exit(p) ==
    /\ mode[p] \notin {"exited", "panicked"}
    /\ End(p)
    /\ UNCHANGED <<now, lease, renewed, written, unseen, stale>>

\* A leader that has not renewed has stopped when its deadline comes; answers
\* that have not come are later still.
Tick ==
    /\ now < MaxTime
    /\ \A p \in Leading : now + 1 < deadline[p]
    /\ now' = now + 1
    /\ late' = [h \in Hijackers |-> IF mode[h] = "updating" THEN late[h] + 1 ELSE late[h]]
    /\ UNCHANGED <<lease, renewed, written, mode, deadline, observed, unseen, copy, stale, wake>>

-----------------------------------------------------------------------------

\* One elector has just become leader and the hijackers start later.
Init ==
    \E e \in Electors :
        /\ now = 0
        /\ lease = [holder |-> e, renewTime |-> Skew[e], duration |-> LeaseDuration]
        /\ renewed = 0
        /\ written = 0
        /\ mode = [p \in Procs |-> IF p \in Hijackers THEN "start"
                                   ELSE IF p = e THEN "leading" ELSE "candidate"]
        /\ deadline = [p \in Procs |-> IF p = e THEN GiveUp ELSE 0]
        /\ observed = [p \in Procs |-> 0]
        /\ unseen = Procs
        /\ copy = [h \in Hijackers |-> NoCopy]
        /\ stale = Hijackers
        /\ wake = [h \in Hijackers |-> 0]
        /\ late = [h \in Hijackers |-> 0]

Next ==
    \/ \E h \in Hijackers :
          \/ HijackRead(h)
          \/ \E t \in copy[h].time .. now : HijackUpdate(h, t)
          \/ HijackConflict(h)
          \/ HijackReturn(h)
          \/ HijackWake(h)
    \/ \E p \in Procs :
          \/ Observe(p)
          \/ Acquire(p)
          \/ Release(p)
          \/ Exit(p)
    \/ Tick

Spec == Init /\ [][Next]_vars

-----------------------------------------------------------------------------
(* What stealing a lease must not break.                                   *)

\* Every variable has its type.
TypeOK ==
    /\ now \in Nat
    /\ lease \in [holder : Procs \cup {Nobody}, renewTime : Int, duration : Nat]
    /\ renewed \in Nat
    /\ written \in Nat
    /\ mode \in [Procs -> Modes]
    /\ deadline \in [Procs -> Int]
    /\ observed \in [Procs -> Nat]
    /\ unseen \in SUBSET Procs
    /\ copy \in [Hijackers -> [time : Nat, until : Int, duration : Nat]]
    /\ stale \in SUBSET Hijackers
    /\ wake \in [Hijackers -> Int]
    /\ late \in [Hijackers -> Nat]

\* The hijacker waits untilElection so that it does not lead next to the
\* leader it displaced: at most one process leads, however many hijackers
\* and electors there are.
OneLeader ==
    \A p, q \in Leading : p = q

\* When h's sleep ends; while the answer has not come, when it would end if
\* the answer came now.
Wake(h) == IF mode[h] = "updating" THEN SleepEnd(h) ELSE wake[h]

\* The lease is kept or goes to another hijack.
KeptOrHijacked(h) ==
    \/ lease'.holder = h
    \/ lease'.holder \in Hijackers /\ mode'[lease'.holder] = "updating"

\* "Make our lease longer to guarantee we win the next election", for what the
\* code can keep of it: the sleep is counted from the answer and the lease from
\* the write, so the lease outlasts the sleep by Extra, less the skew, less the
\* time the answer took.  Until then only another hijacker takes it: an elector
\* comes before the sleep has ended only if the answer took longer than
\* Extra - MaxSkew.
HijackWins ==
    [][\A h \in Hijackers :
          /\ lease.holder = h
          /\ mode[h] \in {"updating", "sleeping", "candidate"}
          /\ now < Wake(h) + Extra - MaxSkew - late[h]
          => KeptOrHijacked(h)]_vars

\* The guarantee as the comment states it, whatever the answer took: until the
\* sleep has ended no elector takes the lease.
HijackAlwaysWins ==
    [][\A h \in Hijackers :
          lease.holder = h /\ mode[h] \in {"updating", "sleeping"} => KeptOrHijacked(h)]_vars

\* "your local process will forcibly become leader": no hijacker fails.
HijackNeverFails ==
    \A h \in Hijackers : mode[h] # "panicked"

\* The timing the electors are configured with: a leader has given up before
\* its lease runs out on anybody's clock.
SafeTiming == GiveUp + MaxSkew <= LeaseDuration
=============================================================================
