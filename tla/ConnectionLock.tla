--------------------------- MODULE ConnectionLock ---------------------------
(***************************************************************************)
(* The lock of one Airtable connection: the ConnectionDO Durable Object of *)
(* apps/server and the backup-base and restore-base tasks of               *)
(* apps/workflows that take it before they read Airtable.                  *)
(*                                                                         *)
(* The Durable Object keeps one boolean in memory and one alarm in its     *)
(* storage.  Taking the lock arms the alarm, releasing it disarms it, and  *)
(* the alarm clears the flag under a holder that did not release in time.  *)
(* The boolean does not say who holds it, a release does not say who       *)
(* releases, and the memory does not survive an eviction of the object.    *)
(*                                                                         *)
(* One Tick is the 5 seconds between two attempts of a waiting task.       *)
(* Requests take much less, so no Tick happens while one is under way.     *)
(***************************************************************************)
EXTENDS Naturals, FiniteSets

CONSTANTS
  Tasks,         \* tasks of one connection, of any Space and run
  Restores,      \* those that are restore-base tasks
  TTL,           \* LOCK_TTL_MS in ticks
  MaxWait,       \* LOCK_MAX_TOTAL_MS in ticks
  MaxHold,       \* maxDuration of a task in ticks
  MaxEvictions,  \* bound: evictions of the Durable Object
  MaxFaults      \* bound: lost requests, crashes and throws together

ASSUME TasksAssumption == IsFiniteSet(Tasks) /\ Restores \subseteq Tasks
ASSUME TimesAssumption ==
  TTL \in Nat \ {0} /\ MaxWait \in Nat \ {0} /\ MaxHold \in Nat
ASSUME BoundsAssumption == MaxEvictions \in Nat /\ MaxFaults \in Nat

VARIABLES
  locked,     \* the flag in the memory of the Durable Object
  alarm,      \* ticks until the stored alarm is due, or NoAlarm
  pc,         \* where each task is
  waited,     \* ticks since the task entered its lock loop
  held,       \* ticks since the task was granted the lock
  evictions, faults

vars == <<locked, alarm, pc, waited, held, evictions, faults>>

NoAlarm == TTL + 1

Holding == {"granted", "working", "unlocking"}
Settled == {"done", "failed", "refused", "dead"}
TaskPc  == {"idle", "locking", "waiting"} \cup Holding \cup Settled

TypeOK ==
  /\ locked \in BOOLEAN
  /\ alarm \in 0..NoAlarm
  /\ pc \in [Tasks -> TaskPc]
  /\ waited \in [Tasks -> 0..MaxWait]
  /\ held \in [Tasks -> 0..MaxHold]
  /\ evictions \in 0..MaxEvictions
  /\ faults \in 0..MaxFaults

Init ==
  /\ locked = FALSE
  /\ alarm = NoAlarm
  /\ pc = [t \in Tasks |-> "idle"]
  /\ waited = [t \in Tasks |-> 0]
  /\ held = [t \in Tasks |-> 0]
  /\ evictions = 0
  /\ faults = 0

Fault == faults < MaxFaults /\ faults' = faults + 1

Goto(t, where) == pc' = [pc EXCEPT ![t] = where]

-----------------------------------------------------------------------------
(* ConnectionDO.  blockConcurrencyWhile makes each handler one step.       *)

\* setAlarm(now + LOCK_TTL_MS) replaces the alarm that is stored.
AlarmAfterLockForgotten == alarm
AlarmAfterLock == TTL

\* tryLock on a free lock.
TakeLock ==
  /\ ~ locked
  /\ locked' = TRUE
  /\ alarm' = AlarmAfterLock

\* unlockNow: whoever asks, the flag is cleared and the alarm deleted.
ReleaseLock ==
  /\ locked' = FALSE
  /\ alarm' = NoAlarm

\* The alarm may be delivered late, never before it is due.
AlarmFires ==
  /\ alarm = 0
  /\ alarm' = NoAlarm
  /\ locked' = FALSE
  /\ UNCHANGED <<pc, waited, held, evictions, faults>>

\* The object is evicted (idle, deployed or crashed): its memory is gone,
\* its stored alarm stays.
Evict ==
  /\ evictions < MaxEvictions
  /\ evictions' = evictions + 1
  /\ locked' = FALSE
  /\ UNCHANGED <<alarm, pc, waited, held, faults>>

-----------------------------------------------------------------------------
(* The tasks: the lock loop of runBackupBase and runRestoreBase.           *)

StartTask(t) ==
  /\ pc[t] = "idle"
  /\ Goto(t, "locking")
  /\ UNCHANGED <<locked, alarm, waited, held, evictions, faults>>

\* The attempt answers 200.
LockGranted(t) ==
  /\ pc[t] = "locking"
  /\ TakeLock
  /\ Goto(t, "granted")
  /\ UNCHANGED <<waited, held, evictions, faults>>

\* Now + LOCK_RETRY_INTERVAL_MS is past the deadline.  The clock has moved
\* by the ticks waited and by the round trips, which are less than a tick.
PastDeadlineOneLate(t, roundTrips) == waited[t] + roundTrips > MaxWait + 1
PastDeadline(t, roundTrips) == waited[t] + 1 + roundTrips > MaxWait

\* A loop inside the try block would release a lock it never got.
LockBusyReleases(t) ==
  /\ pc[t] = "locking"
  /\ locked
  /\ \E roundTrips \in {0, 1} :
       IF PastDeadline(t, roundTrips) THEN Goto(t, "refused") /\ ReleaseLock
                                      ELSE Goto(t, "waiting") /\ UNCHANGED <<locked, alarm>>
  /\ UNCHANGED <<waited, held, evictions, faults>>

\* The attempt answers 409: sleep for a tick or give up (lock_unavailable).
LockBusy(t) ==
  /\ pc[t] = "locking"
  /\ locked
  /\ \E roundTrips \in {0, 1} :
       Goto(t, IF PastDeadline(t, roundTrips) THEN "refused" ELSE "waiting")
  /\ UNCHANGED <<locked, alarm, waited, held, evictions, faults>>

\* The attempt fails on the wire or with another status, before or after the
\* object took the lock for the task; the task fails and has no lock to
\* release, as far as it knows.
LockRequestFails(t) ==
  /\ pc[t] = "locking"
  /\ Fault
  /\ Goto(t, "failed")
  /\ TakeLock \/ UNCHANGED <<locked, alarm>>
  /\ UNCHANGED <<waited, held, evictions>>

\* The task resolves its storage credentials and writer and enters the try
\* block whose finally releases the lock.
EnterTry(t) ==
  /\ pc[t] = "granted"
  /\ Goto(t, "working")
  /\ UNCHANGED <<locked, alarm, waited, held, evictions, faults>>

\* That setup of a backup throws outside the try block: nobody releases.
SetupThrows(t) ==
  /\ pc[t] = "granted"
  /\ t \notin Restores
  /\ Fault
  /\ Goto(t, "failed")
  /\ UNCHANGED <<locked, alarm, waited, held, evictions>>

\* The work returns or throws; either way the finally block runs.
FinishWork(t) ==
  /\ pc[t] = "working"
  /\ Goto(t, "unlocking")
  /\ UNCHANGED <<locked, alarm, waited, held, evictions, faults>>

Unlock(t) ==
  /\ pc[t] = "unlocking"
  /\ ReleaseLock
  /\ Goto(t, "done")
  /\ UNCHANGED <<waited, held, evictions, faults>>

\* The POST /unlock fails and is swallowed: "alarm will clean up".
UnlockLost(t) ==
  /\ pc[t] = "unlocking"
  /\ Fault
  /\ Goto(t, "done")
  /\ UNCHANGED <<locked, alarm, waited, held, evictions>>

\* The runner dies: no finally.
TaskDies(t) ==
  /\ pc[t] \in {"locking", "waiting"} \cup Holding
  /\ Fault
  /\ Goto(t, "dead")
  /\ UNCHANGED <<locked, alarm, waited, held, evictions>>

-----------------------------------------------------------------------------

\* Five seconds pass.  maxDuration ends a task before it works any longer.
Tick ==
  /\ \A t \in Tasks : pc[t] \notin {"locking", "granted", "unlocking"}
  /\ \/ alarm \in 1..TTL
     \/ \E t \in Tasks : pc[t] \in {"waiting", "working"}
  /\ \A t \in Tasks : pc[t] = "working" => held[t] < MaxHold
  /\ alarm' = IF alarm \in 1..TTL THEN alarm - 1 ELSE alarm
  /\ pc' = [t \in Tasks |-> IF pc[t] = "waiting" THEN "locking" ELSE pc[t]]
  /\ waited' = [t \in Tasks |-> IF pc[t] = "waiting" THEN waited[t] + 1 ELSE waited[t]]
  /\ held' = [t \in Tasks |-> IF pc[t] = "working" THEN held[t] + 1 ELSE held[t]]
  /\ UNCHANGED <<locked, evictions, faults>>

\* Every task is over and the lock will not move any more.
AtRest ==
  /\ \A t \in Tasks : pc[t] \in Settled
  /\ alarm = NoAlarm
  /\ UNCHANGED vars

LockStep(t) == LockGranted(t) \/ LockBusy(t)
WorkStep(t) == EnterTry(t) \/ FinishWork(t) \/ Unlock(t)
FaultStep(t) == LockRequestFails(t) \/ SetupThrows(t) \/ UnlockLost(t) \/ TaskDies(t)

Next ==
  \/ \E t \in Tasks : StartTask(t) \/ LockStep(t) \/ WorkStep(t) \/ FaultStep(t)
  \/ AlarmFires \/ Evict
  \/ Tick
  \/ AtRest

Spec == Init /\ [][Next]_vars

\* Requests are answered, work ends (maxDuration at the latest), a due alarm
\* is delivered at some time, and time passes.
Fairness ==
  /\ \A t \in Tasks : WF_vars(LockStep(t)) /\ WF_vars(WorkStep(t))
  /\ WF_vars(AlarmFires) /\ WF_vars(Tick)

FairSpec == Spec /\ Fairness

-----------------------------------------------------------------------------
(* What holds.                                                             *)

\* The safety net is armed: a lock that is taken always has a stored alarm,
\* whatever was evicted, lost or left behind, and a lock request overtaken by
\* an unlock of another task cannot disarm it.
LockHasAlarm == locked => alarm # NoAlarm

\* Mutual exclusion as far as it goes: while no task has held the lock for
\* the whole TTL and the object was not evicted, at most one task uses the
\* connection; crashes, lost requests and leaked locks do not change that.
Undisturbed == evictions = 0 /\ \A t \in Tasks : held[t] < TTL
ExclusionWithinTTL ==
  Undisturbed => \A t, u \in Tasks : pc[t] \in Holding /\ pc[u] \in Holding => t = u

\* A holder's time is its own: until then the flag is up for every holder and
\* the alarm is as far away as its TTL has left, never the alarm of a task
\* that held the lock before.
HolderHasLease ==
  Undisturbed => \A t \in Tasks : pc[t] \in Holding => locked /\ alarm + held[t] = TTL

\* A taken lock becomes free again, also when its holder died, lost its
\* release or failed before it knew about the lock.
LockIsFreed == locked ~> ~ locked

=============================================================================
