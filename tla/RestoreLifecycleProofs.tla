----------------------- MODULE RestoreLifecycleProofs -----------------------
(***************************************************************************)
(* Proofs about RestoreLifecycle for any number of attempts, tables and    *)
(* faults.                                                                 *)
(***************************************************************************)
EXTENDS RestoreLifecycle, TLAPS

-----------------------------------------------------------------------------
(* The layers of the inductive invariant.                                  *)

\* The start request is over, one way or another.
StartOver == startPc \in {"ok", "refused", "threw"}

\* The id is stored by the last step of the start request, the row ages and
\* is swept only after that request, and a deleted row had no accepted start.
StartInv ==
  /\ startPc # "ok" => triggerRunIds = {} /\ reported = "none"
  /\ age > 0 => StartOver
  /\ sweepPc # "idle" => age > 0
  /\ sweepDecision # "none" <=> sweepPc = "decided"
  /\ sweepPc = "read" => sweepRow.status \in NonTerminal

\* CreditedOnce, and the sticky failure of the task.
LedgerInv ==
  /\ CreditedOnce
  /\ reported = "failed" => errorMessage # "none"

\* What the sweep read stays true in one direction: a pending id only leaves,
\* and the task of a row without one has reported.
SweepInv ==
  /\ sweepPc = "read" /\ sweepRow.ids = {} => triggerRunIds = {}
  /\ sweepDecision = "fail" => triggerRunIds = {} \/ task \in TaskOver

\* Whoever has written or will write a success knows of a reported one.
DeliveredInv ==
  /\ SuccessWasReported
  /\ status = "succeeded" => StartOver
  /\ finishing # "none" => startPc = "ok"
  /\ finishing = "succeeded" => reported = "succeeded"
  /\ sweepDecision = "succeeded" /\ startPc = "ok" => reported = "succeeded"
  /\ sweepPc = "read" /\ sweepRow.ids = {} /\ sweepRow.error = "none" /\ startPc = "ok"
       => reported = "succeeded"

IInv == TypeOK /\ StartInv /\ LedgerInv /\ SweepInv /\ DeliveredInv

-----------------------------------------------------------------------------
(* What the sweep decides, by what it read.                                *)
LEMMA Decisions ==
  ASSUME NEW r, r.status \in NonTerminal, r.ids \in SUBSET {Task}, NEW over \in BOOLEAN
  PROVE  /\ DecideReconciliation(r, over) \in Results \cup {"none", "fail"}
         /\ DecideReconciliation(r, over) = "fail" => r.ids = {} \/ over
         /\ DecideReconciliation(r, over) = "succeeded" => r.ids = {} /\ r.error = "none"
  BY DEF DecideReconciliation, NonTerminal, Results

LEMMA SweepDecides ==
  ASSUME TypeOK, StartInv, LookupAndDecide
  PROVE  LET d == DecideReconciliation(sweepRow, task \in TaskOver) IN
         /\ d \in Results \cup {"none", "fail"}
         /\ d = "fail" => sweepRow.ids = {} \/ task \in TaskOver
         /\ d = "succeeded" => sweepRow.ids = {} /\ sweepRow.error = "none"
  <1>1. sweepRow.status \in NonTerminal /\ sweepRow.ids \in SUBSET {Task}
    BY DEF LookupAndDecide, StartInv, TypeOK
  <1>2. (task \in TaskOver) \in BOOLEAN
    OBVIOUS
  <1> DEFINE over == task \in TaskOver
  <1> HIDE DEF over
  <1>3. over \in BOOLEAN
    BY <1>2 DEF over
  <1>4. /\ DecideReconciliation(sweepRow, over) \in Results \cup {"none", "fail"}
        /\ DecideReconciliation(sweepRow, over) = "fail" => sweepRow.ids = {} \/ over
        /\ DecideReconciliation(sweepRow, over) = "succeeded"
             => sweepRow.ids = {} /\ sweepRow.error = "none"
    BY <1>1, <1>3, Decisions
  <1>5. QED
    BY <1>4 DEF over

(* The row as apps/web inserts it.                                         *)
THEOREM InitInv == Init => IInv
  BY RestoreBounds DEF Init, IInv, TypeOK, StartInv, StartOver, LedgerInv, CreditedOnce,
     SweepInv, DeliveredInv, SuccessWasReported, NonTerminal, Terminal, Results,
     TaskLive, TaskOver

(* Type correctness is nearly inductive: a decision needs a row that was   *)
(* read.                                                                   *)
LEMMA TypeStep ==
  ASSUME TypeOK, StartInv, [Next]_vars
  PROVE  TypeOK'
  <1> USE RestoreBounds DEF TypeOK, NonTerminal, Terminal, Results, TaskLive, TaskOver,
                            row, job, cncl, swp, Fault
  <1>1. CASE WebStep \/ WebDies
    BY <1>1 DEF WebStep, WebAnswered, DeleteRestoreRun, WebDies
  <1>2. CASE StartStep \/ StartThrows
    BY <1>2 DEF StartStep, StartCheck, UpdateRestoreRunStarted, EnqueueRestoreBase,
                UpdateRestoreRunTriggerIds, StartThrows, SetStatus
  <1>3. CASE TaskStep \/ PostLost \/ TaskKilled
    BY <1>3 DEF TaskStep, TaskBegin, Progress, PostCompletion, TaskReturns, PostLost,
                TaskKilled, RetriesLeft
  <1>4. CASE CompleteStep \/ FinalizeLost
    BY <1>4 DEF CompleteStep, Complete, FinalizeRestore, FinalizeLost, SetStatus,
                FinalStatus, Sticky
  <1>5. CASE CancelRead \/ CancelStep \/ CancelDies
    BY <1>5 DEF CancelRead, CancelStep, MarkRestoreCancelling, CancelTriggerRun,
                MarkRestoreCancelled, CancelDies
  <1>6. CASE SweepStep
    <2>1. CASE ListStuckRuns
      BY <2>1 DEF ListStuckRuns
    <2>2. CASE LookupAndDecide
      <3>1. DecideReconciliation(sweepRow, task \in TaskOver) \in Results \cup {"none", "fail"}
        BY <2>2, SweepDecides
      <3>2. sweepDecision' \in Results \cup {"none", "fail"} /\ sweepPc' \in {"decided", "idle"}
        BY <2>2, <3>1 DEF LookupAndDecide
      <3>3. sweepRow' = NoRow /\ faults' \in 0..MaxFaults
        BY <2>2 DEF LookupAndDecide
      <3>4. QED
        BY <2>2, <3>2, <3>3 DEF LookupAndDecide, NoRow
    <2>3. CASE ApplyDecision
      BY <2>3 DEF ApplyDecision, ErrorAfterDecision, Sticky, StartInv
    <2>4. QED
      BY <1>6, <2>1, <2>2, <2>3 DEF SweepStep
  <1>7. CASE Tick \/ AtRest \/ UNCHANGED vars
    BY <1>7 DEF Tick, AtRest, vars
  <1>8. QED
    BY <1>1, <1>2, <1>3, <1>4, <1>5, <1>6, <1>7 DEF Next, FaultStep

(* A row ages and is read by the sweep only once its start request is over. *)
LEMMA StartStepInv ==
  ASSUME IInv, [Next]_vars
  PROVE  StartInv'
  <1> USE DEF IInv, StartInv, StartOver, row, job, cncl, swp, Fault
  <1>1. CASE WebStep \/ WebDies
    BY <1>1 DEF WebStep, WebAnswered, DeleteRestoreRun, WebDies
  <1>2. CASE StartStep \/ StartThrows
    BY <1>2 DEF StartStep, StartCheck, UpdateRestoreRunStarted, EnqueueRestoreBase,
                UpdateRestoreRunTriggerIds, StartThrows, TypeOK
  <1>3. CASE TaskStep \/ PostLost \/ TaskKilled
    BY <1>3 DEF TaskStep, TaskBegin, Progress, PostCompletion, TaskReturns, PostLost,
                TaskKilled
  <1>4. CASE CompleteStep \/ FinalizeLost
    BY <1>4 DEF CompleteStep, Complete, FinalizeRestore, FinalizeLost, CompletionMatches
  <1>5. CASE CancelRead \/ CancelStep \/ CancelDies
    BY <1>5 DEF CancelRead, CancelStep, MarkRestoreCancelling, CancelTriggerRun,
                MarkRestoreCancelled, CancelDies
  <1>6. CASE SweepStep
    <2>1. CASE ListStuckRuns
      BY <2>1 DEF ListStuckRuns
    <2>2. CASE LookupAndDecide
      BY <2>2 DEF LookupAndDecide
    <2>3. CASE ApplyDecision
      BY <2>3 DEF ApplyDecision
    <2>4. QED
      BY <1>6, <2>1, <2>2, <2>3 DEF SweepStep
  <1>7. CASE Tick \/ AtRest \/ UNCHANGED vars
    BY <1>7 DEF Tick, AtRest, RequestOpen, vars, TypeOK
  <1>8. QED
    BY <1>1, <1>2, <1>3, <1>4, <1>5, <1>6, <1>7 DEF Next, FaultStep

(* /complete consumes a result only while the id is pending, and nothing   *)
(* makes it pending again.                                                 *)
LEMMA LedgerStep ==
  ASSUME IInv, [Next]_vars
  PROVE  LedgerInv'
  <1> USE DEF IInv, LedgerInv, CreditedOnce, row, job, cncl, swp, Fault
  <1>1. CASE WebStep \/ WebDies
    BY <1>1 DEF WebStep, WebAnswered, DeleteRestoreRun, WebDies
  <1>2. CASE StartStep \/ StartThrows
    BY <1>2 DEF StartStep, StartCheck, UpdateRestoreRunStarted, EnqueueRestoreBase,
                UpdateRestoreRunTriggerIds, StartThrows, SetStatus, StartInv
  <1>3. CASE TaskStep \/ PostLost \/ TaskKilled
    BY <1>3 DEF TaskStep, TaskBegin, Progress, PostCompletion, TaskReturns, PostLost,
                TaskKilled
  <1>4. CASE Complete
    <2>1. CASE ~ CompletionMatches
      BY <1>4, <2>1 DEF Complete
    <2>2. CASE CompletionMatches
      <3>1. startPc = "ok" /\ credited = 0
        BY <2>2 DEF CompletionMatches, StartInv
      <3>2. PICK p \in posts :
              /\ reported' = p[2] /\ credited' = credited + 1
              /\ triggerRunIds' = triggerRunIds \ {Task}
              /\ errorMessage' = IF p[2] = "failed" THEN Sticky("base_failure")
                                 ELSE errorMessage
              /\ UNCHANGED <<status, startPc>>
        BY <1>4, <2>2 DEF Complete
      <3>3. p[2] \in Results /\ triggerRunIds' = {}
        BY <3>2 DEF TypeOK
      <3>4. QED
        BY <3>1, <3>2, <3>3 DEF Results, Sticky
    <2>3. QED
      BY <2>1, <2>2
  <1>5. CASE FinalizeRestore \/ FinalizeLost
    BY <1>5 DEF FinalizeRestore, FinalizeLost, SetStatus
  <1>6. CASE CancelRead \/ CancelStep \/ CancelDies
    BY <1>6 DEF CancelRead, CancelStep, MarkRestoreCancelling, CancelTriggerRun,
                MarkRestoreCancelled, CancelDies, NonTerminal
  <1>7. CASE SweepStep
    BY <1>7 DEF SweepStep, ListStuckRuns, LookupAndDecide, ApplyDecision, NonTerminal,
                ErrorAfterDecision, Sticky
  <1>8. CASE Tick \/ AtRest \/ UNCHANGED vars
    BY <1>8 DEF Tick, AtRest, vars
  <1>9. QED
    BY <1>1, <1>2, <1>3, <1>4, <1>5, <1>6, <1>7, <1>8 DEF Next, FaultStep, CompleteStep

(* The start request is over when the sweep has read the row, so no id     *)
(* comes back, and a task that is over stays over.                         *)
LEMMA SweepStepInv ==
  ASSUME IInv, [Next]_vars
  PROVE  SweepInv'
  <1> USE DEF IInv, SweepInv, StartInv, StartOver, row, job, cncl, swp, Fault
  <1>1. CASE WebStep \/ WebDies
    BY <1>1 DEF WebStep, WebAnswered, DeleteRestoreRun, WebDies
  <1>2. CASE StartStep \/ StartThrows
    BY <1>2 DEF StartStep, StartCheck, UpdateRestoreRunStarted, EnqueueRestoreBase,
                UpdateRestoreRunTriggerIds, StartThrows
  <1>3. CASE TaskStep \/ PostLost \/ TaskKilled
    BY <1>3 DEF TaskStep, TaskBegin, Progress, PostCompletion, TaskReturns, PostLost,
                TaskKilled, TaskLive, TaskOver
  <1>4. CASE CompleteStep \/ FinalizeLost
    BY <1>4 DEF CompleteStep, Complete, FinalizeRestore, FinalizeLost
  <1>5. CASE CancelRead \/ CancelStep \/ CancelDies
    BY <1>5 DEF CancelRead, CancelStep, MarkRestoreCancelling, CancelTriggerRun,
                MarkRestoreCancelled, CancelDies, TaskLive, TaskOver
  <1>6. CASE SweepStep
    <2>1. CASE ListStuckRuns
      BY <2>1 DEF ListStuckRuns
    <2>2. CASE LookupAndDecide
      <3>1. /\ sweepPc = "read"
            /\ UNCHANGED <<triggerRunIds, task>>
            /\ \/ sweepPc' = "idle" /\ sweepDecision' = sweepDecision
               \/ /\ sweepPc' = "decided"
                  /\ sweepDecision' = DecideReconciliation(sweepRow, task \in TaskOver)
        BY <2>2 DEF LookupAndDecide
      <3>2. DecideReconciliation(sweepRow, task \in TaskOver) = "fail"
              => sweepRow.ids = {} \/ task \in TaskOver
        BY <2>2, SweepDecides
      <3>3. QED
        BY <3>1, <3>2
    <2>3. CASE ApplyDecision
      BY <2>3 DEF ApplyDecision
    <2>4. QED
      BY <1>6, <2>1, <2>2, <2>3 DEF SweepStep
  <1>7. CASE Tick \/ AtRest \/ UNCHANGED vars
    BY <1>7 DEF Tick, AtRest, vars
  <1>8. QED
    BY <1>1, <1>2, <1>3, <1>4, <1>5, <1>6, <1>7 DEF Next, FaultStep

(* A success is written by a finalize that follows a reported success, or  *)
(* by the sweep for a row without ids and without a message: by LedgerInv  *)
(* the task of that row reported, and not a failure.                       *)
LEMMA DeliveredStep ==
  ASSUME IInv, [Next]_vars
  PROVE  DeliveredInv'
  <1> USE DEF IInv, DeliveredInv, SuccessWasReported, StartInv, StartOver,
              row, job, cncl, swp, Fault
  <1>1. CASE WebStep \/ WebDies
    BY <1>1 DEF WebStep, WebAnswered, DeleteRestoreRun, WebDies
  <1>2. CASE StartStep \/ StartThrows
    BY <1>2 DEF StartStep, StartCheck, UpdateRestoreRunStarted, EnqueueRestoreBase,
                UpdateRestoreRunTriggerIds, StartThrows, SetStatus
  <1>3. CASE TaskStep \/ PostLost \/ TaskKilled
    BY <1>3 DEF TaskStep, TaskBegin, Progress, PostCompletion, TaskReturns, PostLost,
                TaskKilled
  <1>4. CASE Complete
    <2>1. CASE ~ CompletionMatches
      BY <1>4, <2>1 DEF Complete
    <2>2. CASE CompletionMatches
      <3>1. startPc = "ok" /\ reported = "none"
        BY <2>2 DEF CompletionMatches, LedgerInv, CreditedOnce
      <3>2. PICK p \in posts :
              /\ reported' = p[2]
              /\ finishing' = FinalStatus(IF p[2] = "failed" THEN Sticky("base_failure")
                                          ELSE errorMessage)
              /\ UNCHANGED <<status, startPc, sweepPc, sweepRow, sweepDecision>>
        BY <1>4, <2>2 DEF Complete
      <3>3. p[2] \in Results
        BY <3>2 DEF TypeOK
      <3>4. finishing' = "succeeded" => reported' = "succeeded"
        BY <3>2, <3>3 DEF FinalStatus, Sticky, Results
      <3>5. QED
        BY <3>1, <3>2, <3>4
    <2>3. QED
      BY <2>1, <2>2
  <1>5. CASE FinalizeRestore \/ FinalizeLost
    BY <1>5 DEF FinalizeRestore, FinalizeLost, SetStatus
  <1>6. CASE CancelRead \/ CancelStep \/ CancelDies
    BY <1>6 DEF CancelRead, CancelStep, MarkRestoreCancelling, CancelTriggerRun,
                MarkRestoreCancelled, CancelDies
  <1>7. CASE SweepStep
    <2>1. CASE ListStuckRuns
      BY <2>1 DEF ListStuckRuns, LedgerInv, CreditedOnce, TypeOK, Results, NonTerminal
    <2>2. CASE LookupAndDecide
      <3>1. /\ sweepPc = "read"
            /\ UNCHANGED <<status, startPc, reported, finishing>>
            /\ \/ sweepPc' = "idle" /\ sweepDecision' = sweepDecision
               \/ /\ sweepPc' = "decided"
                  /\ sweepDecision' = DecideReconciliation(sweepRow, task \in TaskOver)
        BY <2>2 DEF LookupAndDecide
      <3>2. DecideReconciliation(sweepRow, task \in TaskOver) = "succeeded"
              => sweepRow.ids = {} /\ sweepRow.error = "none"
        BY <2>2, SweepDecides
      <3>3. QED
        BY <3>1, <3>2
    <2>3. CASE ApplyDecision
      BY <2>3 DEF ApplyDecision
    <2>4. QED
      BY <1>7, <2>1, <2>2, <2>3 DEF SweepStep
  <1>8. CASE Tick \/ AtRest \/ UNCHANGED vars
    BY <1>8 DEF Tick, AtRest, vars
  <1>9. QED
    BY <1>1, <1>2, <1>3, <1>4, <1>5, <1>6, <1>7, <1>8 DEF Next, FaultStep, CompleteStep

(* The layers are inductive together.                                      *)
THEOREM StepInv == IInv /\ [Next]_vars => IInv'
  <1> SUFFICES ASSUME IInv, [Next]_vars
               PROVE  IInv'
    OBVIOUS
  <1>1. TypeOK'
    BY TypeStep DEF IInv
  <1>2. QED
    BY <1>1, StartStepInv, LedgerStep, SweepStepInv, DeliveredStep DEF IInv

(* Every reachable state of a restore satisfies every layer.               *)
THEOREM Invariance == Spec => []IInv
  BY InitInv, StepInv, PTL DEF Spec

-----------------------------------------------------------------------------
(* The properties, for every number of attempts, tables and faults.        *)

(* The row and the requests around it only take the values of their types: *)
(* no step leaves a half-written status, id list or decision behind.       *)
THEOREM TypeCorrect == Spec => []TypeOK
  <1>1. IInv => TypeOK
    BY DEF IInv
  <1>2. QED
    BY Invariance, <1>1, PTL

(* The guard of /complete makes the credit of a task's totals happen once, *)
(* and the stored id is pending until then, under any retries and losses.  *)
THEOREM CreditCorrect == Spec => []CreditedOnce
  <1>1. IInv => CreditedOnce
    BY DEF IInv, LedgerInv
  <1>2. QED
    BY Invariance, <1>1, PTL

(* A started restore succeeds only if /complete consumed a success: the    *)
(* recovery of the sweep cannot invent one.                                *)
THEOREM SuccessCorrect == Spec => []SuccessWasReported
  <1>1. IInv => SuccessWasReported
    BY DEF IInv, DeliveredInv
  <1>2. QED
    BY Invariance, <1>1, PTL

(* When the sweep is about to fail a row with a pending task, that task is *)
(* over, however long ago the sweep read the row.                          *)
THEOREM SweepCorrect == Spec => []SweepSparesLiveTask
  <1>1. IInv => SweepSparesLiveTask
    BY DEF IInv, SweepInv, SweepSparesLiveTask
  <1>2. QED
    BY Invariance, <1>1, PTL
=============================================================================
