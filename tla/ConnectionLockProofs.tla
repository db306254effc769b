------------------------ MODULE ConnectionLockProofs ------------------------
(***************************************************************************)
(* The invariants of ConnectionLock for every set of tasks, every TTL,     *)
(* every waiting budget and every number of evictions and faults, and the  *)
(* proof that ConnectionLock implements ConnectionLease.                   *)
(***************************************************************************)
EXTENDS LockRefinement, TLAPS

\* A sleeping task has another attempt within its budget.
WaitInv == \A t \in Tasks : pc[t] = "waiting" => waited[t] < MaxWait

\* A task has held the lock for no time before it is granted.
FreshInv == \A t \in Tasks : pc[t] \in {"idle", "locking", "waiting"} => held[t] = 0

IInv == /\ TypeOK
        /\ WaitInv
        /\ FreshInv
        /\ LockHasAlarm
        /\ HolderHasLease
        /\ ExclusionWithinTTL

(* Initially no task holds anything and the lock is free.                  *)
THEOREM InitInv == Init => IInv
  <1> SUFFICES ASSUME Init PROVE IInv
    OBVIOUS
  <1>1. \A t \in Tasks : pc[t] = "idle" /\ held[t] = 0
    BY DEF Init
  <1>2. TypeOK
    <2>1. locked \in BOOLEAN
      BY Zenon DEF Init
    <2>2. QED
      BY <2>1, TimesAssumption, BoundsAssumption DEF Init, TypeOK, NoAlarm, TaskPc
  <1>3. WaitInv /\ FreshInv
    BY <1>1 DEF WaitInv, FreshInv
  <1>4. LockHasAlarm
    BY DEF Init, LockHasAlarm
  <1>5. HolderHasLease /\ ExclusionWithinTTL
    BY <1>1 DEF HolderHasLease, ExclusionWithinTTL, Holding
  <1>6. QED
    BY <1>2, <1>3, <1>4, <1>5 DEF IInv

(* Types, the waiting budget and the freshness of held are inductive by    *)
(* themselves.                                                             *)
LEMMA TypeStep ==
  ASSUME TypeOK, WaitInv, FreshInv, [Next]_vars
  PROVE  TypeOK' /\ WaitInv' /\ FreshInv'
  <1> USE TimesAssumption, BoundsAssumption DEF TypeOK, WaitInv, FreshInv, NoAlarm
  <1>1. ASSUME NEW t \in Tasks, StartTask(t)
        PROVE  TypeOK' /\ WaitInv' /\ FreshInv'
    BY <1>1 DEF StartTask, Goto, TaskPc, Holding, Settled
  <1>2. ASSUME NEW t \in Tasks, LockGranted(t)
        PROVE  TypeOK' /\ WaitInv' /\ FreshInv'
    BY <1>2 DEF LockGranted, TakeLock, AlarmAfterLock, Goto, TaskPc, Holding, Settled
  <1>3. ASSUME NEW t \in Tasks, LockBusy(t)
        PROVE  TypeOK' /\ WaitInv' /\ FreshInv'
    <2>1. PICK roundTrips \in {0, 1} :
            Goto(t, IF PastDeadline(t, roundTrips) THEN "refused" ELSE "waiting")
      BY <1>3 DEF LockBusy
    <2>2. CASE PastDeadline(t, roundTrips)
      BY <1>3, <2>1, <2>2 DEF LockBusy, Goto, TaskPc, Holding, Settled
    <2>3. CASE ~ PastDeadline(t, roundTrips)
      <3>1. waited[t] < MaxWait
        BY <2>3 DEF PastDeadline
      <3>2. QED
        BY <1>3, <2>1, <2>3, <3>1 DEF LockBusy, Goto, TaskPc, Holding, Settled
    <2>4. QED
      BY <2>2, <2>3
  <1>4. ASSUME NEW t \in Tasks, LockRequestFails(t)
        PROVE  TypeOK' /\ WaitInv' /\ FreshInv'
    <2>1. locked' \in BOOLEAN
      BY <1>4, Zenon DEF LockRequestFails, TakeLock
    <2>2. alarm' \in 0..NoAlarm
      BY <1>4 DEF LockRequestFails, TakeLock, AlarmAfterLock
    <2>3. QED
      BY <1>4, <2>1, <2>2 DEF LockRequestFails, Fault, Goto, TaskPc, Holding, Settled
  <1>5. ASSUME NEW t \in Tasks, WorkStep(t)
        PROVE  TypeOK' /\ WaitInv' /\ FreshInv'
    <2>1. CASE EnterTry(t) \/ FinishWork(t)
      BY <2>1 DEF EnterTry, FinishWork, Goto, TaskPc, Holding, Settled
    <2>2. CASE Unlock(t)
      <3>1. locked' \in BOOLEAN
        BY <2>2, Zenon DEF Unlock, ReleaseLock
      <3>2. QED
        BY <2>2, <3>1 DEF Unlock, ReleaseLock, Goto, TaskPc, Holding, Settled
    <2>3. QED
      BY <1>5, <2>1, <2>2 DEF WorkStep
  <1>6. ASSUME NEW t \in Tasks, SetupThrows(t) \/ UnlockLost(t) \/ TaskDies(t)
        PROVE  TypeOK' /\ WaitInv' /\ FreshInv'
    BY <1>6 DEF SetupThrows, UnlockLost, TaskDies, Fault, Goto, TaskPc, Holding, Settled
  <1>7. CASE AlarmFires \/ Evict
    <2>1. locked' \in BOOLEAN
      BY <1>7, Zenon DEF AlarmFires, Evict
    <2>2. QED
      BY <1>7, <2>1 DEF AlarmFires, Evict
  <1>8. CASE Tick
    <2>1. locked' \in BOOLEAN /\ alarm' \in 0..NoAlarm
      BY <1>8 DEF Tick
    <2>2. pc' \in [Tasks -> TaskPc] /\ WaitInv'
      BY <1>8 DEF Tick, TaskPc, Holding, Settled
    <2>3. waited' \in [Tasks -> 0..MaxWait]
      BY <1>8 DEF Tick
    <2>4. held' \in [Tasks -> 0..MaxHold]
      BY <1>8 DEF Tick
    <2>5. FreshInv'
      BY <1>8 DEF Tick
    <2>6. QED
      BY <1>8, <2>1, <2>2, <2>3, <2>4, <2>5 DEF Tick
  <1>9. CASE UNCHANGED vars
    BY <1>9 DEF vars
  <1>10. QED
    BY <1>1, <1>2, <1>3, <1>4, <1>5, <1>6, <1>7, <1>8, <1>9
       DEF Next, LockStep, FaultStep, AtRest

(* The flag goes up only together with the alarm, and the alarm goes away  *)
(* only together with the flag.                                            *)
LEMMA AlarmStep ==
  ASSUME TypeOK, LockHasAlarm, [Next]_vars
  PROVE  LockHasAlarm'
  <1> USE TimesAssumption DEF LockHasAlarm, NoAlarm
  <1>1. ASSUME NEW t \in Tasks,
               StartTask(t) \/ LockStep(t) \/ WorkStep(t) \/ FaultStep(t)
        PROVE  LockHasAlarm'
    <2>1. UNCHANGED <<locked, alarm>> \/ TakeLock \/ ReleaseLock
      BY <1>1 DEF StartTask, LockStep, LockGranted, LockBusy, WorkStep, EnterTry,
                  FinishWork, Unlock, FaultStep, LockRequestFails, SetupThrows, UnlockLost,
                  TaskDies
    <2>2. TakeLock => alarm' # NoAlarm
      BY DEF TakeLock, AlarmAfterLock
    <2>3. ReleaseLock => ~ locked'
      BY Zenon DEF ReleaseLock
    <2>4. UNCHANGED <<locked, alarm>> => LockHasAlarm'
      BY Zenon
    <2>5. QED
      BY <2>1, <2>2, <2>3, <2>4, Zenon
  <1>2. CASE AlarmFires \/ Evict
    BY <1>2 DEF AlarmFires, Evict
  <1>3. CASE Tick
    BY <1>3 DEF Tick, TypeOK
  <1>4. CASE UNCHANGED vars
    BY <1>4 DEF vars
  <1>5. QED
    BY <1>1, <1>2, <1>3, <1>4 DEF Next, AtRest

(* Once disturbed, for ever disturbed: held and evictions only grow.       *)
LEMMA DisturbedStep ==
  ASSUME TypeOK, [Next]_vars, Undisturbed'
  PROVE  Undisturbed
  <1> USE DEF Undisturbed, TypeOK
  <1>1. CASE \E t \in Tasks : StartTask(t) \/ LockStep(t) \/ WorkStep(t) \/ FaultStep(t)
    BY <1>1 DEF StartTask, LockStep, LockGranted, LockBusy, WorkStep, EnterTry,
                FinishWork, Unlock, FaultStep, LockRequestFails, SetupThrows, UnlockLost,
                TaskDies
  <1>2. CASE AlarmFires \/ Evict
    BY <1>2, BoundsAssumption DEF AlarmFires, Evict
  <1>3. CASE Tick
    <2>1. \A t \in Tasks : held'[t] >= held[t]
      BY <1>3 DEF Tick
    <2>2. ASSUME NEW t \in Tasks PROVE held[t] < TTL
      BY <1>3, <2>1, TimesAssumption DEF Tick
    <2>3. QED
      BY <1>3, <2>2 DEF Tick
  <1>4. CASE UNCHANGED vars
    BY <1>4 DEF vars
  <1>5. QED
    BY <1>1, <1>2, <1>3, <1>4 DEF Next, AtRest

(* A holder keeps its lease, and a lease has one holder, as long as nothing *)
(* disturbs the lock.                                                       *)
LEMMA LeaseStep ==
  ASSUME IInv, [Next]_vars
  PROVE  HolderHasLease' /\ ExclusionWithinTTL'
  <1> SUFFICES ASSUME Undisturbed'
               PROVE  /\ \A t \in Tasks : pc'[t] \in Holding => locked' /\ alarm' + held'[t] = TTL
                      /\ \A t, u \in Tasks : pc'[t] \in Holding /\ pc'[u] \in Holding => t = u
    BY DEF HolderHasLease, ExclusionWithinTTL
  <1> USE TimesAssumption DEF TypeOK, NoAlarm
  <1>a. /\ TypeOK
        /\ FreshInv
        /\ Undisturbed
        /\ \A t \in Tasks : pc[t] \in Holding => locked /\ alarm + held[t] = TTL
        /\ \A t, u \in Tasks : pc[t] \in Holding /\ pc[u] \in Holding => t = u
    BY DisturbedStep DEF IInv, HolderHasLease, ExclusionWithinTTL
  <1> HIDE DEF TypeOK
  <1>1. ASSUME NEW t \in Tasks, LockGranted(t)
        PROVE  /\ \A u \in Tasks : pc'[u] \in Holding => u = t
               /\ pc'[t] \in Holding => locked' /\ alarm' + held'[t] = TTL
    <2>1. \A u \in Tasks : pc[u] \notin Holding
      BY <1>1, <1>a DEF LockGranted, TakeLock
    <2>2. held[t] = 0
      BY <1>1, <1>a DEF LockGranted, FreshInv
    <2>3. QED
      BY <1>1, <1>a, <2>1, <2>2
         DEF LockGranted, TakeLock, AlarmAfterLock, Goto, Holding, TypeOK
  <1>2. ASSUME NEW t \in Tasks, StartTask(t) \/ LockBusy(t) \/ SetupThrows(t)
                                \/ UnlockLost(t) \/ TaskDies(t)
        PROVE  /\ \A u \in Tasks : pc'[u] \in Holding => pc[u] \in Holding
               /\ UNCHANGED <<locked, alarm, held>>
    BY <1>2, <1>a DEF StartTask, LockBusy, SetupThrows, UnlockLost, TaskDies, Goto,
                      Holding, TypeOK
  <1>3. ASSUME NEW t \in Tasks, EnterTry(t) \/ FinishWork(t)
        PROVE  /\ \A u \in Tasks : pc'[u] \in Holding => pc[u] \in Holding
               /\ UNCHANGED <<locked, alarm, held>>
    BY <1>3, <1>a DEF EnterTry, FinishWork, Goto, Holding, TypeOK
  <1>4. ASSUME NEW t \in Tasks, LockRequestFails(t)
        PROVE  /\ \A u \in Tasks : pc'[u] \in Holding => pc[u] \in Holding
               /\ \/ UNCHANGED <<locked, alarm, held>>
                  \/ \A u \in Tasks : pc'[u] \notin Holding
    <2>1. \A u \in Tasks : pc'[u] \in Holding => pc[u] \in Holding
      BY <1>4, <1>a DEF LockRequestFails, Goto, Holding, TypeOK
    <2>2. CASE TakeLock
      BY <1>4, <1>a, <2>1, <2>2 DEF TakeLock
    <2>3. CASE UNCHANGED <<locked, alarm>>
      BY <1>4, <2>1, <2>3 DEF LockRequestFails
    <2>4. QED
      BY <1>4, <2>2, <2>3 DEF LockRequestFails
  <1>5. ASSUME NEW t \in Tasks, Unlock(t)
        PROVE  \A u \in Tasks : pc'[u] \notin Holding
    <2>1. pc[t] \in Holding /\ pc'[t] \notin Holding
      BY <1>5, <1>a DEF Unlock, Goto, Holding, TypeOK
    <2>2. \A u \in Tasks : u # t => pc'[u] = pc[u]
      BY <1>5, <1>a DEF Unlock, Goto, TypeOK
    <2>3. QED
      BY <1>a, <2>1, <2>2
  <1>6. CASE AlarmFires
    <2>1. \A u \in Tasks : pc[u] \notin Holding
      BY <1>6, <1>a DEF AlarmFires, Undisturbed, TypeOK
    <2>2. QED
      BY <1>6, <2>1 DEF AlarmFires
  <1>7. CASE Evict
    BY <1>7, <1>a, BoundsAssumption DEF Evict, Undisturbed, TypeOK
  <1>8. CASE Tick
    <2>1. \A u \in Tasks : pc'[u] \in Holding => pc[u] = "working" /\ held'[u] = held[u] + 1
      BY <1>8, <1>a DEF Tick, Holding, TypeOK
    <2>2. ASSUME NEW u \in Tasks, pc'[u] \in Holding
          PROVE  locked' /\ alarm' + held'[u] = TTL
      <3>1. locked /\ alarm + held[u] = TTL /\ held'[u] = held[u] + 1
        BY <1>a, <2>1, <2>2 DEF Holding
      <3>2. held[u] \in Nat /\ alarm \in Nat /\ held'[u] < TTL
        BY <1>a, <2>2 DEF TypeOK, Undisturbed
      <3>3. alarm \in 1..TTL
        BY <3>1, <3>2
      <3>4. QED
        BY <1>8, <3>1, <3>2, <3>3 DEF Tick
    <2>3. QED
      BY <1>a, <2>1, <2>2 DEF Holding
  <1>9. CASE UNCHANGED vars
    BY <1>9, <1>a DEF vars
  <1>10. ASSUME NEW t \in Tasks,
                StartTask(t) \/ LockStep(t) \/ WorkStep(t) \/ FaultStep(t)
         PROVE  /\ \A u \in Tasks : pc'[u] \in Holding => locked' /\ alarm' + held'[u] = TTL
                /\ \A u, v \in Tasks : pc'[u] \in Holding /\ pc'[v] \in Holding => u = v
    <2>1. CASE LockGranted(t)
      BY <1>1, <2>1
    <2>2. CASE StartTask(t) \/ LockBusy(t) \/ SetupThrows(t) \/ UnlockLost(t) \/ TaskDies(t)
      BY <1>2, <1>a, <2>2
    <2>3. CASE EnterTry(t) \/ FinishWork(t)
      BY <1>3, <1>a, <2>3
    <2>4. CASE LockRequestFails(t)
      BY <1>4, <1>a, <2>4
    <2>5. CASE Unlock(t)
      BY <1>5, <2>5
    <2>6. QED
      BY <1>10, <2>1, <2>2, <2>3, <2>4, <2>5 DEF LockStep, WorkStep, FaultStep
  <1>11. QED
    BY <1>6, <1>7, <1>8, <1>9, <1>10 DEF Next, AtRest

(* The invariant is inductive.                                             *)
THEOREM StepInv == IInv /\ [Next]_vars => IInv'
  BY TypeStep, AlarmStep, LeaseStep DEF IInv

(* It holds of every behaviour.                                            *)
THEOREM Invariance == Spec => []IInv
  BY InitInv, StepInv, PTL DEF Spec

(* Type correctness, with a waiting time that never exceeds the budget of  *)
(* the lock loop.                                                          *)
THEOREM TypeCorrect == Spec => []TypeOK
  <1>1. IInv => TypeOK
    BY DEF IInv
  <1>2. QED
    BY Invariance, <1>1, PTL

(* A taken lock always has an alarm that will clear it.                    *)
THEOREM SafetyNet == Spec => []LockHasAlarm
  <1>1. IInv => LockHasAlarm
    BY DEF IInv
  <1>2. QED
    BY Invariance, <1>1, PTL

(* Until its TTL is over, a holder is covered by the flag and by an alarm  *)
(* that counts from its own grant.                                         *)
THEOREM LeaseCorrect == Spec => []HolderHasLease
  <1>1. IInv => HolderHasLease
    BY DEF IInv
  <1>2. QED
    BY Invariance, <1>1, PTL

(* Mutual exclusion, as long as no task overstays its TTL and the object   *)
(* is not evicted.                                                         *)
THEOREM ExclusionCorrect == Spec => []ExclusionWithinTTL
  <1>1. IInv => ExclusionWithinTTL
    BY DEF IInv
  <1>2. QED
    BY Invariance, <1>1, PTL
-----------------------------------------------------------------------------
(* ConnectionLock implements ConnectionLease, by the mapping of             *)
(* LockRefinement.  While nothing disturbs the lock, what the lease promises *)
(* its owner is HolderHasLease and ExclusionWithinTTL.                       *)

Using == {t \in Tasks : pc[t] \in Holding}
Left  == IF locked THEN alarm ELSE NoAlarm

\* What the abstract specification sees of a state.
LEMMA Unseen ==
  ASSUME UNCHANGED <<Using, Left, Undisturbed>> PROVE UNCHANGED Promise!vars
  BY DEF Promise!vars, Using, Left

\* Leases move by taking, releasing, losing, ageing; trust only by the last two.
LEMMA TrustKept ==
  ASSUME UNCHANGED <<held, evictions>> PROVE UNCHANGED Undisturbed
  BY DEF Undisturbed

\* A step of a task moves only that task.
LEMMA OnlyMoves ==
  ASSUME TypeOK, NEW t \in Tasks, NEW where \in TaskPc, Goto(t, where)
  PROVE  Using' = IF where \in Holding THEN Using \cup {t} ELSE Using \ {t}
  BY DEF TypeOK, Goto, Using

\* An owner is alone, and its lease is up and runs from its grant.
LEMMA OwnerAlone ==
  ASSUME IInv, Undisturbed
  PROVE  \A t \in Using : locked /\ alarm + held[t] = TTL /\ Using = {t}
  <1> SUFFICES ASSUME NEW t \in Using
               PROVE  locked /\ alarm + held[t] = TTL /\ Using = {t}
    OBVIOUS
  <1>1. locked /\ alarm + held[t] = TTL
    BY DEF IInv, HolderHasLease, Using
  <1>2. Using = {t}
    BY DEF IInv, ExclusionWithinTTL, Using
  <1>3. QED
    BY <1>1, <1>2

\* A free connection is a free lease.
LEMMA InitRefines == Init => Promise!Init
  <1> SUFFICES ASSUME Init PROVE Promise!Init
    OBVIOUS
  <1>1. Using = {} /\ Left = TTL + 1
    BY DEF Init, Using, Left, NoAlarm, Holding
  <1>2. Undisturbed = TRUE
    BY TimesAssumption DEF Init, Undisturbed
  <1>3. QED
    BY <1>1, <1>2 DEF Promise!Init, Promise!Free, Using, Left

\* A grant is given only when nobody who is trusted uses the connection.
LEMMA GrantRefines ==
  ASSUME IInv, TakeLock, UNCHANGED <<held, evictions>>,
         (Using' = Using) \/ (\E t \in Tasks \ Using : Using' = Using \cup {t})
  PROVE  Promise!Grant
  <1>1. Left = TTL + 1 /\ Left' = TTL
    BY DEF TakeLock, AlarmAfterLock, Left, NoAlarm
  <1>2. Undisturbed => Using = {}
    BY OwnerAlone DEF TakeLock
  <1>3. UNCHANGED Undisturbed
    BY TrustKept
  <1>4. QED
    BY <1>1, <1>2, <1>3 DEF Promise!Grant, Promise!Free, Using, Left

\* A holder that releases is the only one while leases are trusted.
LEMMA UnlockRefines ==
  ASSUME IInv, NEW t \in Tasks, Unlock(t)
  PROVE  Promise!Release(t)
  <1>1. t \in Using /\ Using' = Using \ {t}
    BY OnlyMoves DEF IInv, Unlock, Using, Holding, TaskPc, Settled
  <1>2. Left' = TTL + 1
    BY DEF Unlock, ReleaseLock, Left, NoAlarm
  <1>3. Undisturbed => Using = {t}
    BY <1>1, OwnerAlone
  <1>4. UNCHANGED Undisturbed
    BY TrustKept DEF Unlock
  <1>5. QED
    BY <1>1, <1>2, <1>3, <1>4 DEF Promise!Release, Promise!Free, Using, Left

\* A task that ends without its release leaves the lease to the alarm.
LEMMA SilenceRefines ==
  ASSUME IInv, NEW t \in Tasks, SetupThrows(t) \/ UnlockLost(t) \/ TaskDies(t)
  PROVE  Promise!Forget(t) \/ UNCHANGED Promise!vars
  <1>1. Using' = Using \ {t}
    BY OnlyMoves DEF IInv, SetupThrows, UnlockLost, TaskDies, Holding, TaskPc, Settled
  <1>2. UNCHANGED <<Left, Undisturbed>>
    BY TrustKept DEF SetupThrows, UnlockLost, TaskDies, Left
  <1>3. CASE t \in Using
    BY <1>1, <1>2, <1>3 DEF Promise!Forget, Using, Left
  <1>4. CASE t \notin Using
    BY <1>1, <1>2, <1>4, Unseen
  <1>5. QED
    BY <1>3, <1>4

\* Nobody sees a task come, wait, set up or end its work.
LEMMA QuietSteps ==
  ASSUME IInv, NEW t \in Tasks, StartTask(t) \/ LockBusy(t) \/ EnterTry(t) \/ FinishWork(t)
  PROVE  UNCHANGED Promise!vars
  <1>1. UNCHANGED <<Left, Undisturbed>>
    BY TrustKept DEF StartTask, LockBusy, EnterTry, FinishWork, Left
  <1>2. PICK where \in TaskPc : Goto(t, where) /\ (where \in Holding <=> t \in Using)
    <2>1. CASE LockBusy(t)
      BY <2>1 DEF LockBusy, Using, Holding, TaskPc, Settled
    <2>2. CASE StartTask(t) \/ EnterTry(t) \/ FinishWork(t)
      BY <2>2 DEF StartTask, EnterTry, FinishWork, Using, Holding, TaskPc, Settled
    <2>3. QED
      BY <2>1, <2>2
  <1>3. Using' = Using
    BY <1>2, OnlyMoves DEF IInv
  <1>4. QED
    BY <1>1, <1>3, Unseen

\* The step of a task.
LEMMA TaskRefines ==
  ASSUME IInv, NEW t \in Tasks, StartTask(t) \/ LockStep(t) \/ WorkStep(t) \/ FaultStep(t)
  PROVE  [Promise!Next]_(Promise!vars)
  <1>1. CASE LockGranted(t)
    <2>1. t \notin Using /\ Using' = Using \cup {t}
      BY <1>1, OnlyMoves DEF IInv, LockGranted, Using, Holding, TaskPc
    <2>2. Promise!Grant
      BY <1>1, <2>1, GrantRefines DEF LockGranted
    <2>3. QED
      BY <2>2 DEF Promise!Next
  <1>2. CASE LockRequestFails(t)
    <2>1. Using' = Using
      BY <1>2, OnlyMoves DEF IInv, LockRequestFails, Using, Holding, TaskPc, Settled
    <2>2. CASE TakeLock
      <3>1. Promise!Grant
        BY <1>2, <2>1, <2>2, GrantRefines DEF LockRequestFails
      <3>2. QED
        BY <3>1 DEF Promise!Next
    <2>3. CASE UNCHANGED <<locked, alarm>>
      BY <1>2, <2>1, <2>3, TrustKept, Unseen DEF LockRequestFails, Left
    <2>4. QED
      BY <1>2, <2>2, <2>3 DEF LockRequestFails
  <1>3. CASE Unlock(t)
    BY <1>3, UnlockRefines DEF Promise!Next
  <1>4. CASE SetupThrows(t) \/ UnlockLost(t) \/ TaskDies(t)
    BY <1>4, SilenceRefines DEF Promise!Next
  <1>5. CASE StartTask(t) \/ LockBusy(t) \/ EnterTry(t) \/ FinishWork(t)
    BY <1>5, QuietSteps
  <1>6. QED
    BY <1>1, <1>2, <1>3, <1>4, <1>5 DEF LockStep, WorkStep, FaultStep

\* A due alarm ends a lease that no trusted owner relies on.
LEMMA AlarmRefines ==
  ASSUME IInv, AlarmFires
  PROVE  Promise!Expire \/ UNCHANGED Promise!vars
  <1>1. UNCHANGED <<Using, Undisturbed>>
    BY TrustKept DEF AlarmFires, Using
  <1>2. Left' = TTL + 1
    BY DEF AlarmFires, Left, NoAlarm
  <1>3. CASE locked
    <2>1. Left = 0
      BY <1>3 DEF AlarmFires, Left
    <2>2. Undisturbed => Using = {}
      <3>1. \A t \in Using : Undisturbed => held[t] < TTL /\ held[t] = TTL
        BY OwnerAlone DEF Undisturbed, Using, AlarmFires, IInv, TypeOK
      <3>2. \A t \in Using : held[t] \in Nat
        BY DEF Using, IInv, TypeOK
      <3>3. QED
        BY <3>1, <3>2, TimesAssumption
    <2>3. QED
      BY <1>1, <1>2, <2>1, <2>2 DEF Promise!Expire, Promise!Free, Using, Left
  <1>4. CASE ~ locked
    BY <1>1, <1>2, <1>4, Unseen DEF Left, NoAlarm
  <1>5. QED
    BY <1>3, <1>4

\* An eviction loses the lease, and the trust.
LEMMA EvictRefines ==
  ASSUME IInv, Evict
  PROVE  Promise!Lose
  <1>1. Using' = Using /\ Left' = TTL + 1
    BY DEF Evict, Using, Left, NoAlarm
  <1>2. Undisturbed' = FALSE
    BY BoundsAssumption DEF Evict, Undisturbed, IInv, TypeOK
  <1>3. QED
    BY <1>1, <1>2 DEF Promise!Lose, Promise!Free, Using, Left

\* Time ages the lease; trust ends when the last tick of one is used.
LEMMA TickRefines ==
  ASSUME IInv, Tick
  PROVE  Promise!Age \/ UNCHANGED Promise!vars
  <1> USE TimesAssumption DEF NoAlarm
  <1>1. Using' = Using
    BY DEF Tick, Using, Holding, IInv, TypeOK
  <1>2. \A t \in Tasks : held'[t] = IF t \in Using THEN held[t] + 1 ELSE held[t]
    BY DEF Tick, Using, Holding, IInv, TypeOK
  <1>3. \A t \in Tasks : held[t] \in Nat
    BY DEF IInv, TypeOK
  <1>4. Undisturbed' = (Undisturbed /\ \A t \in Using : held[t] + 1 < TTL)
    BY <1>2, <1>3 DEF Undisturbed, Tick, Using
  <1>5. CASE locked /\ alarm \in 1..TTL
    <2>1. Left \in 1..TTL /\ Left' = Left - 1
      BY <1>5 DEF Left, Tick
    <2>2. Undisturbed' = (Undisturbed /\ (Left = 1 => Using = {}))
      <3>1. ASSUME Undisturbed, NEW t \in Using
            PROVE  (held[t] + 1 < TTL) <=> (Left # 1)
        <4>1. alarm + held[t] = TTL /\ Left = alarm /\ held[t] \in Nat
          BY <1>3, <1>5, <3>1, OwnerAlone DEF Left, Using
        <4>2. QED
          BY <1>5, <4>1
      <3>2. Undisturbed =>
              ((\A t \in Using : held[t] + 1 < TTL) <=> (Left = 1 => Using = {}))
        BY <3>1
      <3>3. QED
        BY <1>4, <3>2
    <2>3. QED
      BY <1>1, <2>1, <2>2 DEF Promise!Age, Using, Left
  <1>6. CASE ~ (locked /\ alarm \in 1..TTL)
    <2>1. Left' = Left
      BY <1>6 DEF Left, Tick, IInv, TypeOK
    <2>2. Undisturbed => Using = {}
      <3>1. ASSUME Undisturbed, NEW t \in Using PROVE FALSE
        <4>1. locked /\ alarm + held[t] = TTL /\ held[t] < TTL /\ held[t] \in Nat
          BY <1>3, <3>1, OwnerAlone DEF Undisturbed, Using
        <4>2. alarm \in 1..TTL
          BY <4>1 DEF IInv, TypeOK
        <4>3. QED
          BY <1>6, <4>1, <4>2
      <3>2. QED
        BY <3>1
    <2>3. Undisturbed' = Undisturbed
      <3>1. (Undisturbed /\ \A t \in Using : held[t] + 1 < TTL) <=> Undisturbed
        BY <2>2
      <3>2. Undisturbed' \in BOOLEAN /\ Undisturbed \in BOOLEAN
        BY DEF Undisturbed
      <3>3. QED
        BY <1>4, <3>1, <3>2
    <2>4. QED
      BY <1>1, <2>1, <2>3, Unseen
  <1>7. QED
    BY <1>5, <1>6

\* Every step is a step of the lease or is not seen.
LEMMA StepRefines == IInv /\ [Next]_vars => [Promise!Next]_(Promise!vars)
  <1> SUFFICES ASSUME IInv, [Next]_vars PROVE [Promise!Next]_(Promise!vars)
    OBVIOUS
  <1>1. ASSUME NEW t \in Tasks, StartTask(t) \/ LockStep(t) \/ WorkStep(t) \/ FaultStep(t)
        PROVE  [Promise!Next]_(Promise!vars)
    BY <1>1, TaskRefines
  <1>2. CASE AlarmFires
    BY <1>2, AlarmRefines DEF Promise!Next
  <1>3. CASE Evict
    BY <1>3, EvictRefines DEF Promise!Next
  <1>4. CASE Tick
    BY <1>4, TickRefines DEF Promise!Next
  <1>5. CASE UNCHANGED vars
    <2>1. UNCHANGED <<Using, Left, Undisturbed>>
      BY <1>5 DEF vars, Using, Left, Undisturbed
    <2>2. QED
      BY <2>1, Unseen
  <1>6. QED
    BY <1>1, <1>2, <1>3, <1>4, <1>5 DEF Next, AtRest

(* The flag without an owner is an owned lease, never renewed, until one is *)
(* outlived in use or lost to an eviction.                                  *)
THEOREM LeaseRefinement == Spec => ImplementsLease
  BY InitRefines, StepRefines, Invariance, PTL DEF Spec, ImplementsLease, Promise!Spec
=============================================================================
