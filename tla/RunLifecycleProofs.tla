------------------------- MODULE RunLifecycleProofs -------------------------
(***************************************************************************)
(* Proofs about RunLifecycle, for any finite set of bases, any set of      *)
(* cancel requests, any number of attempts and any number of faults.       *)
(* The inductive invariant IInv is a conjunction of layers; each layer is  *)
(* preserved by a step of Next given the layers before it.  The last part  *)
(* proves that RunLifecycle implements BackupRun.                          *)
(***************************************************************************)
EXTENDS RunRefinement, TLAPS

-----------------------------------------------------------------------------
(* The layers of the inductive invariant.                                  *)

\* The ids are recorded by the last step of the start request, so before it
\* they are null, and the run only ages once the request is over.
StartInv ==
  /\ startPc # "ok" => triggerRunIds = NULL
  /\ age > 0 => startPc \in {"ok", "done"}
  /\ sweepPc # "idle" => age > 0

\* PendingLedger, and the sticky failure of a base.
LedgerInv ==
  /\ PendingLedger
  /\ \A b \in Bases : reported[b] = "failed" => errorMessage # "none"

\* What the sweep read stays true in one direction: pending ids only leave,
\* and a recorded error stays recorded.
SweepInv ==
  /\ (sweepPc = "read" /\ sweepRun.ids = NULL) => triggerRunIds = NULL
  /\ (sweepPc = "read" /\ sweepRun.ids # NULL) =>
        triggerRunIds # NULL /\ triggerRunIds \subseteq sweepRun.ids
  /\ (sweepPc = "read" /\ sweepRun.err # "none") => errorMessage # "none"
  /\ FailDecisionIsSafe

\* Everything that will write, or has written, a successful status does so
\* after the last base was consumed without a failure.
AllDelivered == triggerRunIds = {} /\ \A b \in Bases : reported[b] \in Success

DeliveredInv ==
  /\ status \in Success => AllDelivered
  /\ \A b \in Bases : finishing[b] \in Success => AllDelivered
  /\ sweepDecision = "succeeded" => AllDelivered
  /\ (sweepPc = "read" /\ sweepRun.ids = {} /\ sweepRun.err = "none") => AllDelivered

\* Everything that will write "failed" leaves a message behind.
ReasonInv ==
  /\ FailedRunHasReason
  /\ \A b \in Bases : finishing[b] = "failed" => errorMessage # "none"
  /\ sweepDecision = "failed" => errorMessage # "none"

IInv == /\ TypeOK /\ StartInv /\ LedgerInv /\ SweepInv
        /\ DeliveredInv /\ ReasonInv /\ StrandedOnlyByCrash

-----------------------------------------------------------------------------
\* The initial states satisfy the invariant.
THEOREM InitInv == Init => IInv
  <1> SUFFICES ASSUME Init PROVE IInv
    OBVIOUS
  <1>1. TypeOK
    BY BoundsAssumption, OriginsAssumption DEF Init, TypeOK, NoRun, Terminal, Success,
       NonTerminal, RunStatus, TaskLive, TaskTerminal, TaskState, ErrorMessages
  <1>2. StartInv
    BY DEF Init, StartInv
  <1>3. LedgerInv
    BY DEF Init, LedgerInv, PendingLedger
  <1>4. SweepInv
    BY DEF Init, SweepInv, FailDecisionIsSafe
  <1>5. DeliveredInv
    BY DEF Init, DeliveredInv, Success
  <1>6. ReasonInv /\ StrandedOnlyByCrash
    BY DEF Init, ReasonInv, FailedRunHasReason, StrandedOnlyByCrash
  <1> QED BY <1>1, <1>2, <1>3, <1>4, <1>5, <1>6 DEF IInv

-----------------------------------------------------------------------------
\* Every variable keeps its type.
LEMMA TypeStep == TypeOK /\ [Next]_vars => TypeOK'
  <1> SUFFICES ASSUME TypeOK, [Next]_vars PROVE TypeOK'
    OBVIOUS
  <1> USE BoundsAssumption, OutcomesAssumption
  <1>1. CASE StartCheck
    BY <1>1 DEF TypeOK, Terminal, Success, NonTerminal, RunStatus, TaskLive,
       TaskTerminal, TaskState, ErrorMessages, rowVars, startVars, taskVars, cancelVars,
       sweepVars, StartCheck
  <1>2. CASE UpdateRunStarted
    BY <1>2 DEF TypeOK, Terminal, Success, NonTerminal, RunStatus, TaskLive,
       TaskTerminal, TaskState, ErrorMessages, rowVars, startVars, taskVars, cancelVars,
       sweepVars, UpdateRunStarted
  <1>3. CASE UpdateRunTriggerIds
    BY <1>3 DEF TypeOK, Terminal, Success, NonTerminal, RunStatus, TaskLive,
       TaskTerminal, TaskState, ErrorMessages, rowVars, startVars, taskVars, cancelVars,
       sweepVars, UpdateRunTriggerIds
  <1>4. CASE StartThrows
    BY <1>4 DEF TypeOK, Terminal, Success, NonTerminal, RunStatus, TaskLive,
       TaskTerminal, TaskState, ErrorMessages, rowVars, startVars, taskVars, cancelVars,
       sweepVars, StartThrows, Fault
  <1>5. CASE RollbackRun
    BY <1>5 DEF TypeOK, Terminal, Success, NonTerminal, RunStatus, TaskLive,
       TaskTerminal, TaskState, ErrorMessages, rowVars, startVars, taskVars, cancelVars,
       sweepVars, RollbackRun
  <1>6. CASE RollbackLost
    BY <1>6 DEF TypeOK, Terminal, Success, NonTerminal, RunStatus, TaskLive,
       TaskTerminal, TaskState, ErrorMessages, rowVars, startVars, taskVars, cancelVars,
       sweepVars, RollbackLost, Fault
  <1>7. CASE ListStuckRuns
    BY <1>7 DEF TypeOK, Terminal, Success, NonTerminal, RunStatus, TaskLive,
       TaskTerminal, TaskState, ErrorMessages, rowVars, startVars, taskVars, cancelVars,
       sweepVars, ListStuckRuns
  <1>8. CASE LookupAndDecide
    BY <1>8 DEF TypeOK, Terminal, Success, NonTerminal, RunStatus, TaskLive,
       TaskTerminal, TaskState, ErrorMessages, rowVars, startVars, taskVars, cancelVars,
       sweepVars, LookupAndDecide, Fault, DecideReconciliation, NoRun
  <1>9. CASE ApplyDecision
    BY <1>9 DEF TypeOK, Terminal, Success, NonTerminal, RunStatus, TaskLive,
       TaskTerminal, TaskState, ErrorMessages, rowVars, startVars, taskVars, cancelVars,
       sweepVars, ApplyDecision, Coalesce, ErrorAfterDecision
  <1>10. CASE DeleteRead
    BY <1>10 DEF TypeOK, Terminal, Success, NonTerminal, RunStatus, TaskLive,
       TaskTerminal, TaskState, ErrorMessages, rowVars, startVars, taskVars, cancelVars,
       sweepVars, DeleteRead
  <1>11. CASE MarkRunDeleting
    BY <1>11 DEF TypeOK, Terminal, Success, NonTerminal, RunStatus, TaskLive,
       TaskTerminal, TaskState, ErrorMessages, rowVars, startVars, taskVars, cancelVars,
       sweepVars, MarkRunDeleting
  <1>12. CASE EnqueueDeleteRunFiles
    BY <1>12 DEF TypeOK, Terminal, Success, NonTerminal, RunStatus, TaskLive,
       TaskTerminal, TaskState, ErrorMessages, rowVars, startVars, taskVars, cancelVars,
       sweepVars, EnqueueDeleteRunFiles
  <1>13. CASE DeleteComplete
    BY <1>13 DEF TypeOK, Terminal, Success, NonTerminal, RunStatus, TaskLive,
       TaskTerminal, TaskState, ErrorMessages, rowVars, startVars, taskVars, cancelVars,
       sweepVars, DeleteComplete, StatusAfterDelete
  <1>14. CASE DeleteFails
    BY <1>14 DEF TypeOK, Terminal, Success, NonTerminal, RunStatus, TaskLive,
       TaskTerminal, TaskState, ErrorMessages, rowVars, startVars, taskVars, cancelVars,
       sweepVars, DeleteFails, Fault
  <1>15. CASE Tick
    BY <1>15 DEF TypeOK, Terminal, Success, NonTerminal, RunStatus, TaskLive,
       TaskTerminal, TaskState, ErrorMessages, rowVars, startVars, taskVars, cancelVars,
       sweepVars, Tick
  <1>16. ASSUME NEW b \in Bases, EnqueueBackupBase(b) PROVE TypeOK'
    BY <1>16 DEF TypeOK, Terminal, Success, NonTerminal, RunStatus, TaskLive,
       TaskTerminal, TaskState, ErrorMessages, rowVars, startVars, taskVars, cancelVars,
       sweepVars, EnqueueBackupBase
  <1>17. ASSUME NEW b \in Bases, TaskBegin(b) PROVE TypeOK'
    BY <1>17 DEF TypeOK, Terminal, Success, NonTerminal, RunStatus, TaskLive,
       TaskTerminal, TaskState, ErrorMessages, rowVars, startVars, taskVars, cancelVars,
       sweepVars, TaskBegin
  <1>18. ASSUME NEW b \in Bases, Progress(b) PROVE TypeOK'
    BY <1>18 DEF TypeOK, Terminal, Success, NonTerminal, RunStatus, TaskLive,
       TaskTerminal, TaskState, ErrorMessages, rowVars, startVars, taskVars, cancelVars,
       sweepVars, Progress
  <1>19. ASSUME NEW b \in Bases, PostCompletion(b) PROVE TypeOK'
    BY <1>19 DEF TypeOK, Terminal, Success, NonTerminal, RunStatus, TaskLive,
       TaskTerminal, TaskState, ErrorMessages, rowVars, startVars, taskVars, cancelVars,
       sweepVars, PostCompletion
  <1>20. ASSUME NEW b \in Bases, PostLost(b) PROVE TypeOK'
    BY <1>20 DEF TypeOK, Terminal, Success, NonTerminal, RunStatus, TaskLive,
       TaskTerminal, TaskState, ErrorMessages, rowVars, startVars, taskVars, cancelVars,
       sweepVars, PostLost, Fault
  <1>21. ASSUME NEW b \in Bases, TaskReturns(b) PROVE TypeOK'
    BY <1>21 DEF TypeOK, Terminal, Success, NonTerminal, RunStatus, TaskLive,
       TaskTerminal, TaskState, ErrorMessages, rowVars, startVars, taskVars, cancelVars,
       sweepVars, TaskReturns
  <1>22. ASSUME NEW b \in Bases, TaskKilled(b) PROVE TypeOK'
    BY <1>22 DEF TypeOK, Terminal, Success, NonTerminal, RunStatus, TaskLive,
       TaskTerminal, TaskState, ErrorMessages, rowVars, startVars, taskVars, cancelVars,
       sweepVars, TaskKilled, Fault, RetriesLeft
  <1>23. ASSUME NEW b \in Bases, Complete(b) PROVE TypeOK'
    BY <1>23 DEF TypeOK, Terminal, Success, NonTerminal, RunStatus, TaskLive,
       TaskTerminal, TaskState, ErrorMessages, rowVars, startVars, taskVars, cancelVars,
       sweepVars, Complete, Coalesce, FinalStatus, CompletionMatches,
       CompletionMatchesAnyId
  <1>24. ASSUME NEW b \in Bases, FinalizeRun(b) PROVE TypeOK'
    BY <1>24 DEF TypeOK, Terminal, Success, NonTerminal, RunStatus, TaskLive,
       TaskTerminal, TaskState, ErrorMessages, rowVars, startVars, taskVars, cancelVars,
       sweepVars, FinalizeRun
  <1>25. ASSUME NEW b \in Bases, FinalizeLost(b) PROVE TypeOK'
    BY <1>25 DEF TypeOK, Terminal, Success, NonTerminal, RunStatus, TaskLive,
       TaskTerminal, TaskState, ErrorMessages, rowVars, startVars, taskVars, cancelVars,
       sweepVars, FinalizeLost, Fault
  <1>26. ASSUME NEW c \in Cancels, CancelRead(c) PROVE TypeOK'
    BY <1>26 DEF TypeOK, Terminal, Success, NonTerminal, RunStatus, TaskLive,
       TaskTerminal, TaskState, ErrorMessages, rowVars, startVars, taskVars, cancelVars,
       sweepVars, CancelRead
  <1>27. ASSUME NEW c \in Cancels, MarkRunCancelling(c) PROVE TypeOK'
    BY <1>27 DEF TypeOK, Terminal, Success, NonTerminal, RunStatus, TaskLive,
       TaskTerminal, TaskState, ErrorMessages, rowVars, startVars, taskVars, cancelVars,
       sweepVars, MarkRunCancelling
  <1>28. ASSUME NEW c \in Cancels, MarkRunCancelled(c) PROVE TypeOK'
    BY <1>28 DEF TypeOK, Terminal, Success, NonTerminal, RunStatus, TaskLive,
       TaskTerminal, TaskState, ErrorMessages, rowVars, startVars, taskVars, cancelVars,
       sweepVars, MarkRunCancelled, StatusAfterCancel
  <1>29. ASSUME NEW c \in Cancels, CancelCrash(c) PROVE TypeOK'
    BY <1>29 DEF TypeOK, Terminal, Success, NonTerminal, RunStatus, TaskLive,
       TaskTerminal, TaskState, ErrorMessages, rowVars, startVars, taskVars, cancelVars,
       sweepVars, CancelCrash, Fault
  <1>30. ASSUME NEW c \in Cancels, NEW b \in Bases, CancelTask(c, b) PROVE TypeOK'
    BY <1>30 DEF TypeOK, Terminal, Success, NonTerminal, RunStatus, TaskLive,
       TaskTerminal, TaskState, ErrorMessages, rowVars, startVars, taskVars, cancelVars,
       sweepVars, CancelTask, Fault
  <1>31. CASE UNCHANGED vars
    BY <1>31 DEF TypeOK, Terminal, Success, NonTerminal, RunStatus, TaskLive,
       TaskTerminal, TaskState, ErrorMessages, rowVars, startVars, taskVars, cancelVars,
       sweepVars, vars
  <1> QED BY <1>1, <1>2, <1>3, <1>4, <1>5, <1>6, <1>7, <1>8, <1>9, <1>10, <1>11, <1>12, <1>13, <1>14, <1>15, <1>16, <1>17, <1>18, <1>19, <1>20, <1>21, <1>22, <1>23, <1>24, <1>25, <1>26, <1>27, <1>28, <1>29, <1>30, <1>31 DEF Next, StartStep, CallerStep, TaskStep, CompleteStep,
      CancelStep, SweepStep, DeleteStep, FaultStep, AtRest

\* The start request alone records ids, and only a young run is started.
LEMMA StartStepInv == TypeOK /\ StartInv /\ [Next]_vars => StartInv'
  <1> SUFFICES ASSUME TypeOK, StartInv, [Next]_vars PROVE StartInv'
    OBVIOUS
  <1>1. CASE StartCheck
    BY <1>1 DEF TypeOK, StartInv, RequestOpen, NonTerminal, rowVars, startVars,
       taskVars, cancelVars, sweepVars, StartCheck
  <1>2. CASE UpdateRunStarted
    BY <1>2 DEF TypeOK, StartInv, RequestOpen, NonTerminal, rowVars, startVars,
       taskVars, cancelVars, sweepVars, UpdateRunStarted
  <1>3. CASE UpdateRunTriggerIds
    BY <1>3 DEF TypeOK, StartInv, RequestOpen, NonTerminal, rowVars, startVars,
       taskVars, cancelVars, sweepVars, UpdateRunTriggerIds
  <1>4. CASE StartThrows
    BY <1>4 DEF TypeOK, StartInv, RequestOpen, NonTerminal, rowVars, startVars,
       taskVars, cancelVars, sweepVars, StartThrows, Fault
  <1>5. CASE RollbackRun
    BY <1>5 DEF TypeOK, StartInv, RequestOpen, NonTerminal, rowVars, startVars,
       taskVars, cancelVars, sweepVars, RollbackRun
  <1>6. CASE RollbackLost
    BY <1>6 DEF TypeOK, StartInv, RequestOpen, NonTerminal, rowVars, startVars,
       taskVars, cancelVars, sweepVars, RollbackLost, Fault
  <1>7. CASE ListStuckRuns
    BY <1>7 DEF TypeOK, StartInv, RequestOpen, NonTerminal, rowVars, startVars,
       taskVars, cancelVars, sweepVars, ListStuckRuns
  <1>8. CASE LookupAndDecide
    BY <1>8 DEF TypeOK, StartInv, RequestOpen, NonTerminal, rowVars, startVars,
       taskVars, cancelVars, sweepVars, LookupAndDecide, Fault, DecideReconciliation,
       NoRun
  <1>9. CASE ApplyDecision
    BY <1>9 DEF TypeOK, StartInv, RequestOpen, NonTerminal, rowVars, startVars,
       taskVars, cancelVars, sweepVars, ApplyDecision, Coalesce, ErrorAfterDecision
  <1>10. CASE DeleteRead
    BY <1>10 DEF TypeOK, StartInv, RequestOpen, NonTerminal, rowVars, startVars,
       taskVars, cancelVars, sweepVars, DeleteRead
  <1>11. CASE MarkRunDeleting
    BY <1>11 DEF TypeOK, StartInv, RequestOpen, NonTerminal, rowVars, startVars,
       taskVars, cancelVars, sweepVars, MarkRunDeleting
  <1>12. CASE EnqueueDeleteRunFiles
    BY <1>12 DEF TypeOK, StartInv, RequestOpen, NonTerminal, rowVars, startVars,
       taskVars, cancelVars, sweepVars, EnqueueDeleteRunFiles
  <1>13. CASE DeleteComplete
    BY <1>13 DEF TypeOK, StartInv, RequestOpen, NonTerminal, rowVars, startVars,
       taskVars, cancelVars, sweepVars, DeleteComplete, StatusAfterDelete
  <1>14. CASE DeleteFails
    BY <1>14 DEF TypeOK, StartInv, RequestOpen, NonTerminal, rowVars, startVars,
       taskVars, cancelVars, sweepVars, DeleteFails, Fault
  <1>15. CASE Tick
    BY <1>15 DEF TypeOK, StartInv, RequestOpen, NonTerminal, rowVars, startVars,
       taskVars, cancelVars, sweepVars, Tick
  <1>16. ASSUME NEW b \in Bases, EnqueueBackupBase(b) PROVE StartInv'
    BY <1>16 DEF TypeOK, StartInv, RequestOpen, NonTerminal, rowVars, startVars,
       taskVars, cancelVars, sweepVars, EnqueueBackupBase
  <1>17. ASSUME NEW b \in Bases, TaskBegin(b) PROVE StartInv'
    BY <1>17 DEF TypeOK, StartInv, RequestOpen, NonTerminal, rowVars, startVars,
       taskVars, cancelVars, sweepVars, TaskBegin
  <1>18. ASSUME NEW b \in Bases, Progress(b) PROVE StartInv'
    BY <1>18 DEF TypeOK, StartInv, RequestOpen, NonTerminal, rowVars, startVars,
       taskVars, cancelVars, sweepVars, Progress
  <1>19. ASSUME NEW b \in Bases, PostCompletion(b) PROVE StartInv'
    BY <1>19 DEF TypeOK, StartInv, RequestOpen, NonTerminal, rowVars, startVars,
       taskVars, cancelVars, sweepVars, PostCompletion
  <1>20. ASSUME NEW b \in Bases, PostLost(b) PROVE StartInv'
    BY <1>20 DEF TypeOK, StartInv, RequestOpen, NonTerminal, rowVars, startVars,
       taskVars, cancelVars, sweepVars, PostLost, Fault
  <1>21. ASSUME NEW b \in Bases, TaskReturns(b) PROVE StartInv'
    BY <1>21 DEF TypeOK, StartInv, RequestOpen, NonTerminal, rowVars, startVars,
       taskVars, cancelVars, sweepVars, TaskReturns
  <1>22. ASSUME NEW b \in Bases, TaskKilled(b) PROVE StartInv'
    BY <1>22 DEF TypeOK, StartInv, RequestOpen, NonTerminal, rowVars, startVars,
       taskVars, cancelVars, sweepVars, TaskKilled, Fault, RetriesLeft
  <1>23. ASSUME NEW b \in Bases, Complete(b) PROVE StartInv'
    BY <1>23 DEF TypeOK, StartInv, RequestOpen, NonTerminal, rowVars, startVars,
       taskVars, cancelVars, sweepVars, Complete, Coalesce, FinalStatus,
       CompletionMatches, CompletionMatchesAnyId
  <1>24. ASSUME NEW b \in Bases, FinalizeRun(b) PROVE StartInv'
    BY <1>24 DEF TypeOK, StartInv, RequestOpen, NonTerminal, rowVars, startVars,
       taskVars, cancelVars, sweepVars, FinalizeRun
  <1>25. ASSUME NEW b \in Bases, FinalizeLost(b) PROVE StartInv'
    BY <1>25 DEF TypeOK, StartInv, RequestOpen, NonTerminal, rowVars, startVars,
       taskVars, cancelVars, sweepVars, FinalizeLost, Fault
  <1>26. ASSUME NEW c \in Cancels, CancelRead(c) PROVE StartInv'
    BY <1>26 DEF TypeOK, StartInv, RequestOpen, NonTerminal, rowVars, startVars,
       taskVars, cancelVars, sweepVars, CancelRead
  <1>27. ASSUME NEW c \in Cancels, MarkRunCancelling(c) PROVE StartInv'
    BY <1>27 DEF TypeOK, StartInv, RequestOpen, NonTerminal, rowVars, startVars,
       taskVars, cancelVars, sweepVars, MarkRunCancelling
  <1>28. ASSUME NEW c \in Cancels, MarkRunCancelled(c) PROVE StartInv'
    BY <1>28 DEF TypeOK, StartInv, RequestOpen, NonTerminal, rowVars, startVars,
       taskVars, cancelVars, sweepVars, MarkRunCancelled, StatusAfterCancel
  <1>29. ASSUME NEW c \in Cancels, CancelCrash(c) PROVE StartInv'
    BY <1>29 DEF TypeOK, StartInv, RequestOpen, NonTerminal, rowVars, startVars,
       taskVars, cancelVars, sweepVars, CancelCrash, Fault
  <1>30. ASSUME NEW c \in Cancels, NEW b \in Bases, CancelTask(c, b) PROVE StartInv'
    BY <1>30 DEF TypeOK, StartInv, RequestOpen, NonTerminal, rowVars, startVars,
       taskVars, cancelVars, sweepVars, CancelTask, Fault
  <1>31. CASE UNCHANGED vars
    BY <1>31 DEF TypeOK, StartInv, RequestOpen, NonTerminal, rowVars, startVars,
       taskVars, cancelVars, sweepVars, vars
  <1> QED BY <1>1, <1>2, <1>3, <1>4, <1>5, <1>6, <1>7, <1>8, <1>9, <1>10, <1>11, <1>12, <1>13, <1>14, <1>15, <1>16, <1>17, <1>18, <1>19, <1>20, <1>21, <1>22, <1>23, <1>24, <1>25, <1>26, <1>27, <1>28, <1>29, <1>30, <1>31 DEF Next, StartStep, CallerStep, TaskStep, CompleteStep,
      CancelStep, SweepStep, DeleteStep, FaultStep, AtRest

\* /complete keeps the pending ids and the counted bases complementary.
LEMMA LedgerStep == TypeOK /\ StartInv /\ LedgerInv /\ [Next]_vars => LedgerInv'
  <1> SUFFICES ASSUME TypeOK, StartInv, LedgerInv, [Next]_vars PROVE LedgerInv'
    OBVIOUS
  <1> USE NullAssumption
  <1>1. CASE StartCheck
    BY <1>1 DEF TypeOK, StartInv, LedgerInv, PendingLedger, Terminal, Success,
       NonTerminal, RunStatus, TaskLive, TaskTerminal, TaskState, ErrorMessages, rowVars,
       startVars, taskVars, cancelVars, sweepVars, StartCheck
  <1>2. CASE UpdateRunStarted
    BY <1>2 DEF TypeOK, StartInv, LedgerInv, PendingLedger, Terminal, Success,
       NonTerminal, RunStatus, TaskLive, TaskTerminal, TaskState, ErrorMessages, rowVars,
       startVars, taskVars, cancelVars, sweepVars, UpdateRunStarted
  <1>3. CASE UpdateRunTriggerIds
    BY <1>3 DEF TypeOK, StartInv, LedgerInv, PendingLedger, Terminal, Success,
       NonTerminal, RunStatus, TaskLive, TaskTerminal, TaskState, ErrorMessages, rowVars,
       startVars, taskVars, cancelVars, sweepVars, UpdateRunTriggerIds
  <1>4. CASE StartThrows
    BY <1>4 DEF TypeOK, StartInv, LedgerInv, PendingLedger, Terminal, Success,
       NonTerminal, RunStatus, TaskLive, TaskTerminal, TaskState, ErrorMessages, rowVars,
       startVars, taskVars, cancelVars, sweepVars, StartThrows, Fault
  <1>5. CASE RollbackRun
    BY <1>5 DEF TypeOK, StartInv, LedgerInv, PendingLedger, Terminal, Success,
       NonTerminal, RunStatus, TaskLive, TaskTerminal, TaskState, ErrorMessages, rowVars,
       startVars, taskVars, cancelVars, sweepVars, RollbackRun
  <1>6. CASE RollbackLost
    BY <1>6 DEF TypeOK, StartInv, LedgerInv, PendingLedger, Terminal, Success,
       NonTerminal, RunStatus, TaskLive, TaskTerminal, TaskState, ErrorMessages, rowVars,
       startVars, taskVars, cancelVars, sweepVars, RollbackLost, Fault
  <1>7. CASE ListStuckRuns
    BY <1>7 DEF TypeOK, StartInv, LedgerInv, PendingLedger, Terminal, Success,
       NonTerminal, RunStatus, TaskLive, TaskTerminal, TaskState, ErrorMessages, rowVars,
       startVars, taskVars, cancelVars, sweepVars, ListStuckRuns
  <1>8. CASE LookupAndDecide
    BY <1>8 DEF TypeOK, StartInv, LedgerInv, PendingLedger, Terminal, Success,
       NonTerminal, RunStatus, TaskLive, TaskTerminal, TaskState, ErrorMessages, rowVars,
       startVars, taskVars, cancelVars, sweepVars, LookupAndDecide, Fault,
       DecideReconciliation, NoRun
  <1>9. CASE ApplyDecision
    BY <1>9 DEF TypeOK, StartInv, LedgerInv, PendingLedger, Terminal, Success,
       NonTerminal, RunStatus, TaskLive, TaskTerminal, TaskState, ErrorMessages, rowVars,
       startVars, taskVars, cancelVars, sweepVars, ApplyDecision, Coalesce,
       ErrorAfterDecision
  <1>10. CASE DeleteRead
    BY <1>10 DEF TypeOK, StartInv, LedgerInv, PendingLedger, Terminal, Success,
       NonTerminal, RunStatus, TaskLive, TaskTerminal, TaskState, ErrorMessages, rowVars,
       startVars, taskVars, cancelVars, sweepVars, DeleteRead
  <1>11. CASE MarkRunDeleting
    BY <1>11 DEF TypeOK, StartInv, LedgerInv, PendingLedger, Terminal, Success,
       NonTerminal, RunStatus, TaskLive, TaskTerminal, TaskState, ErrorMessages, rowVars,
       startVars, taskVars, cancelVars, sweepVars, MarkRunDeleting
  <1>12. CASE EnqueueDeleteRunFiles
    BY <1>12 DEF TypeOK, StartInv, LedgerInv, PendingLedger, Terminal, Success,
       NonTerminal, RunStatus, TaskLive, TaskTerminal, TaskState, ErrorMessages, rowVars,
       startVars, taskVars, cancelVars, sweepVars, EnqueueDeleteRunFiles
  <1>13. CASE DeleteComplete
    BY <1>13 DEF TypeOK, StartInv, LedgerInv, PendingLedger, Terminal, Success,
       NonTerminal, RunStatus, TaskLive, TaskTerminal, TaskState, ErrorMessages, rowVars,
       startVars, taskVars, cancelVars, sweepVars, DeleteComplete, StatusAfterDelete
  <1>14. CASE DeleteFails
    BY <1>14 DEF TypeOK, StartInv, LedgerInv, PendingLedger, Terminal, Success,
       NonTerminal, RunStatus, TaskLive, TaskTerminal, TaskState, ErrorMessages, rowVars,
       startVars, taskVars, cancelVars, sweepVars, DeleteFails, Fault
  <1>15. CASE Tick
    BY <1>15 DEF TypeOK, StartInv, LedgerInv, PendingLedger, Terminal, Success,
       NonTerminal, RunStatus, TaskLive, TaskTerminal, TaskState, ErrorMessages, rowVars,
       startVars, taskVars, cancelVars, sweepVars, Tick
  <1>16. ASSUME NEW b \in Bases, EnqueueBackupBase(b) PROVE LedgerInv'
    BY <1>16 DEF TypeOK, StartInv, LedgerInv, PendingLedger, Terminal, Success,
       NonTerminal, RunStatus, TaskLive, TaskTerminal, TaskState, ErrorMessages, rowVars,
       startVars, taskVars, cancelVars, sweepVars, EnqueueBackupBase
  <1>17. ASSUME NEW b \in Bases, TaskBegin(b) PROVE LedgerInv'
    BY <1>17 DEF TypeOK, StartInv, LedgerInv, PendingLedger, Terminal, Success,
       NonTerminal, RunStatus, TaskLive, TaskTerminal, TaskState, ErrorMessages, rowVars,
       startVars, taskVars, cancelVars, sweepVars, TaskBegin
  <1>18. ASSUME NEW b \in Bases, Progress(b) PROVE LedgerInv'
    BY <1>18 DEF TypeOK, StartInv, LedgerInv, PendingLedger, Terminal, Success,
       NonTerminal, RunStatus, TaskLive, TaskTerminal, TaskState, ErrorMessages, rowVars,
       startVars, taskVars, cancelVars, sweepVars, Progress
  <1>19. ASSUME NEW b \in Bases, PostCompletion(b) PROVE LedgerInv'
    BY <1>19 DEF TypeOK, StartInv, LedgerInv, PendingLedger, Terminal, Success,
       NonTerminal, RunStatus, TaskLive, TaskTerminal, TaskState, ErrorMessages, rowVars,
       startVars, taskVars, cancelVars, sweepVars, PostCompletion
  <1>20. ASSUME NEW b \in Bases, PostLost(b) PROVE LedgerInv'
    BY <1>20 DEF TypeOK, StartInv, LedgerInv, PendingLedger, Terminal, Success,
       NonTerminal, RunStatus, TaskLive, TaskTerminal, TaskState, ErrorMessages, rowVars,
       startVars, taskVars, cancelVars, sweepVars, PostLost, Fault
  <1>21. ASSUME NEW b \in Bases, TaskReturns(b) PROVE LedgerInv'
    BY <1>21 DEF TypeOK, StartInv, LedgerInv, PendingLedger, Terminal, Success,
       NonTerminal, RunStatus, TaskLive, TaskTerminal, TaskState, ErrorMessages, rowVars,
       startVars, taskVars, cancelVars, sweepVars, TaskReturns
  <1>22. ASSUME NEW b \in Bases, TaskKilled(b) PROVE LedgerInv'
    BY <1>22 DEF TypeOK, StartInv, LedgerInv, PendingLedger, Terminal, Success,
       NonTerminal, RunStatus, TaskLive, TaskTerminal, TaskState, ErrorMessages, rowVars,
       startVars, taskVars, cancelVars, sweepVars, TaskKilled, Fault, RetriesLeft
  <1>23. ASSUME NEW b \in Bases, Complete(b) PROVE LedgerInv'
    BY <1>23 DEF TypeOK, StartInv, LedgerInv, PendingLedger, Terminal, Success,
       NonTerminal, RunStatus, TaskLive, TaskTerminal, TaskState, ErrorMessages, rowVars,
       startVars, taskVars, cancelVars, sweepVars, Complete, Coalesce, FinalStatus,
       CompletionMatches, CompletionMatchesAnyId
  <1>24. ASSUME NEW b \in Bases, FinalizeRun(b) PROVE LedgerInv'
    BY <1>24 DEF TypeOK, StartInv, LedgerInv, PendingLedger, Terminal, Success,
       NonTerminal, RunStatus, TaskLive, TaskTerminal, TaskState, ErrorMessages, rowVars,
       startVars, taskVars, cancelVars, sweepVars, FinalizeRun
  <1>25. ASSUME NEW b \in Bases, FinalizeLost(b) PROVE LedgerInv'
    BY <1>25 DEF TypeOK, StartInv, LedgerInv, PendingLedger, Terminal, Success,
       NonTerminal, RunStatus, TaskLive, TaskTerminal, TaskState, ErrorMessages, rowVars,
       startVars, taskVars, cancelVars, sweepVars, FinalizeLost, Fault
  <1>26. ASSUME NEW c \in Cancels, CancelRead(c) PROVE LedgerInv'
    BY <1>26 DEF TypeOK, StartInv, LedgerInv, PendingLedger, Terminal, Success,
       NonTerminal, RunStatus, TaskLive, TaskTerminal, TaskState, ErrorMessages, rowVars,
       startVars, taskVars, cancelVars, sweepVars, CancelRead
  <1>27. ASSUME NEW c \in Cancels, MarkRunCancelling(c) PROVE LedgerInv'
    BY <1>27 DEF TypeOK, StartInv, LedgerInv, PendingLedger, Terminal, Success,
       NonTerminal, RunStatus, TaskLive, TaskTerminal, TaskState, ErrorMessages, rowVars,
       startVars, taskVars, cancelVars, sweepVars, MarkRunCancelling
  <1>28. ASSUME NEW c \in Cancels, MarkRunCancelled(c) PROVE LedgerInv'
    BY <1>28 DEF TypeOK, StartInv, LedgerInv, PendingLedger, Terminal, Success,
       NonTerminal, RunStatus, TaskLive, TaskTerminal, TaskState, ErrorMessages, rowVars,
       startVars, taskVars, cancelVars, sweepVars, MarkRunCancelled, StatusAfterCancel
  <1>29. ASSUME NEW c \in Cancels, CancelCrash(c) PROVE LedgerInv'
    BY <1>29 DEF TypeOK, StartInv, LedgerInv, PendingLedger, Terminal, Success,
       NonTerminal, RunStatus, TaskLive, TaskTerminal, TaskState, ErrorMessages, rowVars,
       startVars, taskVars, cancelVars, sweepVars, CancelCrash, Fault
  <1>30. ASSUME NEW c \in Cancels, NEW b \in Bases, CancelTask(c, b) PROVE LedgerInv'
    BY <1>30 DEF TypeOK, StartInv, LedgerInv, PendingLedger, Terminal, Success,
       NonTerminal, RunStatus, TaskLive, TaskTerminal, TaskState, ErrorMessages, rowVars,
       startVars, taskVars, cancelVars, sweepVars, CancelTask, Fault
  <1>31. CASE UNCHANGED vars
    BY <1>31 DEF TypeOK, StartInv, LedgerInv, PendingLedger, Terminal, Success,
       NonTerminal, RunStatus, TaskLive, TaskTerminal, TaskState, ErrorMessages, rowVars,
       startVars, taskVars, cancelVars, sweepVars, vars
  <1> QED BY <1>1, <1>2, <1>3, <1>4, <1>5, <1>6, <1>7, <1>8, <1>9, <1>10, <1>11, <1>12, <1>13, <1>14, <1>15, <1>16, <1>17, <1>18, <1>19, <1>20, <1>21, <1>22, <1>23, <1>24, <1>25, <1>26, <1>27, <1>28, <1>29, <1>30, <1>31 DEF Next, StartStep, CallerStep, TaskStep, CompleteStep,
      CancelStep, SweepStep, DeleteStep, FaultStep, AtRest

\* A decision of the sweep survives every step of the other actors.
LEMMA SweepStepInv ==
  TypeOK /\ StartInv /\ SweepInv /\ [Next]_vars => SweepInv'
  <1> SUFFICES ASSUME TypeOK, StartInv, SweepInv, [Next]_vars PROVE SweepInv'
    OBVIOUS
  <1> USE NullAssumption
  <1>1. CASE StartCheck
    BY <1>1 DEF TypeOK, StartInv, SweepInv, FailDecisionIsSafe, RequestOpen, Terminal,
       Success, NonTerminal, RunStatus, TaskLive, TaskTerminal, TaskState, ErrorMessages,
       rowVars, startVars, taskVars, cancelVars, sweepVars, StartCheck
  <1>2. CASE UpdateRunStarted
    BY <1>2 DEF TypeOK, StartInv, SweepInv, FailDecisionIsSafe, RequestOpen, Terminal,
       Success, NonTerminal, RunStatus, TaskLive, TaskTerminal, TaskState, ErrorMessages,
       rowVars, startVars, taskVars, cancelVars, sweepVars, UpdateRunStarted
  <1>3. CASE UpdateRunTriggerIds
    BY <1>3 DEF TypeOK, StartInv, SweepInv, FailDecisionIsSafe, RequestOpen, Terminal,
       Success, NonTerminal, RunStatus, TaskLive, TaskTerminal, TaskState, ErrorMessages,
       rowVars, startVars, taskVars, cancelVars, sweepVars, UpdateRunTriggerIds
  <1>4. CASE StartThrows
    BY <1>4 DEF TypeOK, StartInv, SweepInv, FailDecisionIsSafe, RequestOpen, Terminal,
       Success, NonTerminal, RunStatus, TaskLive, TaskTerminal, TaskState, ErrorMessages,
       rowVars, startVars, taskVars, cancelVars, sweepVars, StartThrows, Fault
  <1>5. CASE RollbackRun
    BY <1>5 DEF TypeOK, StartInv, SweepInv, FailDecisionIsSafe, RequestOpen, Terminal,
       Success, NonTerminal, RunStatus, TaskLive, TaskTerminal, TaskState, ErrorMessages,
       rowVars, startVars, taskVars, cancelVars, sweepVars, RollbackRun
  <1>6. CASE RollbackLost
    BY <1>6 DEF TypeOK, StartInv, SweepInv, FailDecisionIsSafe, RequestOpen, Terminal,
       Success, NonTerminal, RunStatus, TaskLive, TaskTerminal, TaskState, ErrorMessages,
       rowVars, startVars, taskVars, cancelVars, sweepVars, RollbackLost, Fault
  <1>7. CASE ListStuckRuns
    BY <1>7 DEF TypeOK, StartInv, SweepInv, FailDecisionIsSafe, RequestOpen, Terminal,
       Success, NonTerminal, RunStatus, TaskLive, TaskTerminal, TaskState, ErrorMessages,
       rowVars, startVars, taskVars, cancelVars, sweepVars, ListStuckRuns
  <1>8. CASE LookupAndDecide
    BY <1>8 DEF TypeOK, StartInv, SweepInv, FailDecisionIsSafe, RequestOpen, Terminal,
       Success, NonTerminal, RunStatus, TaskLive, TaskTerminal, TaskState, ErrorMessages,
       rowVars, startVars, taskVars, cancelVars, sweepVars, LookupAndDecide, Fault,
       DecideReconciliation, NoRun
  <1>9. CASE ApplyDecision
    BY <1>9 DEF TypeOK, StartInv, SweepInv, FailDecisionIsSafe, RequestOpen, Terminal,
       Success, NonTerminal, RunStatus, TaskLive, TaskTerminal, TaskState, ErrorMessages,
       rowVars, startVars, taskVars, cancelVars, sweepVars, ApplyDecision, Coalesce,
       ErrorAfterDecision
  <1>10. CASE DeleteRead
    BY <1>10 DEF TypeOK, StartInv, SweepInv, FailDecisionIsSafe, RequestOpen,
       Terminal, Success, NonTerminal, RunStatus, TaskLive, TaskTerminal, TaskState,
       ErrorMessages, rowVars, startVars, taskVars, cancelVars, sweepVars, DeleteRead
  <1>11. CASE MarkRunDeleting
    BY <1>11 DEF TypeOK, StartInv, SweepInv, FailDecisionIsSafe, RequestOpen,
       Terminal, Success, NonTerminal, RunStatus, TaskLive, TaskTerminal, TaskState,
       ErrorMessages, rowVars, startVars, taskVars, cancelVars, sweepVars,
       MarkRunDeleting
  <1>12. CASE EnqueueDeleteRunFiles
    BY <1>12 DEF TypeOK, StartInv, SweepInv, FailDecisionIsSafe, RequestOpen,
       Terminal, Success, NonTerminal, RunStatus, TaskLive, TaskTerminal, TaskState,
       ErrorMessages, rowVars, startVars, taskVars, cancelVars, sweepVars,
       EnqueueDeleteRunFiles
  <1>13. CASE DeleteComplete
    BY <1>13 DEF TypeOK, StartInv, SweepInv, FailDecisionIsSafe, RequestOpen,
       Terminal, Success, NonTerminal, RunStatus, TaskLive, TaskTerminal, TaskState,
       ErrorMessages, rowVars, startVars, taskVars, cancelVars, sweepVars,
       DeleteComplete, StatusAfterDelete
  <1>14. CASE DeleteFails
    BY <1>14 DEF TypeOK, StartInv, SweepInv, FailDecisionIsSafe, RequestOpen,
       Terminal, Success, NonTerminal, RunStatus, TaskLive, TaskTerminal, TaskState,
       ErrorMessages, rowVars, startVars, taskVars, cancelVars, sweepVars, DeleteFails,
       Fault
  <1>15. CASE Tick
    BY <1>15 DEF TypeOK, StartInv, SweepInv, FailDecisionIsSafe, RequestOpen,
       Terminal, Success, NonTerminal, RunStatus, TaskLive, TaskTerminal, TaskState,
       ErrorMessages, rowVars, startVars, taskVars, cancelVars, sweepVars, Tick
  <1>16. ASSUME NEW b \in Bases, EnqueueBackupBase(b) PROVE SweepInv'
    BY <1>16 DEF TypeOK, StartInv, SweepInv, FailDecisionIsSafe, RequestOpen,
       Terminal, Success, NonTerminal, RunStatus, TaskLive, TaskTerminal, TaskState,
       ErrorMessages, rowVars, startVars, taskVars, cancelVars, sweepVars,
       EnqueueBackupBase
  <1>17. ASSUME NEW b \in Bases, TaskBegin(b) PROVE SweepInv'
    BY <1>17 DEF TypeOK, StartInv, SweepInv, FailDecisionIsSafe, RequestOpen,
       Terminal, Success, NonTerminal, RunStatus, TaskLive, TaskTerminal, TaskState,
       ErrorMessages, rowVars, startVars, taskVars, cancelVars, sweepVars, TaskBegin
  <1>18. ASSUME NEW b \in Bases, Progress(b) PROVE SweepInv'
    BY <1>18 DEF TypeOK, StartInv, SweepInv, FailDecisionIsSafe, RequestOpen,
       Terminal, Success, NonTerminal, RunStatus, TaskLive, TaskTerminal, TaskState,
       ErrorMessages, rowVars, startVars, taskVars, cancelVars, sweepVars, Progress
  <1>19. ASSUME NEW b \in Bases, PostCompletion(b) PROVE SweepInv'
    BY <1>19 DEF TypeOK, StartInv, SweepInv, FailDecisionIsSafe, RequestOpen,
       Terminal, Success, NonTerminal, RunStatus, TaskLive, TaskTerminal, TaskState,
       ErrorMessages, rowVars, startVars, taskVars, cancelVars, sweepVars, PostCompletion
  <1>20. ASSUME NEW b \in Bases, PostLost(b) PROVE SweepInv'
    BY <1>20 DEF TypeOK, StartInv, SweepInv, FailDecisionIsSafe, RequestOpen,
       Terminal, Success, NonTerminal, RunStatus, TaskLive, TaskTerminal, TaskState,
       ErrorMessages, rowVars, startVars, taskVars, cancelVars, sweepVars, PostLost,
       Fault
  <1>21. ASSUME NEW b \in Bases, TaskReturns(b) PROVE SweepInv'
    BY <1>21 DEF TypeOK, StartInv, SweepInv, FailDecisionIsSafe, RequestOpen,
       Terminal, Success, NonTerminal, RunStatus, TaskLive, TaskTerminal, TaskState,
       ErrorMessages, rowVars, startVars, taskVars, cancelVars, sweepVars, TaskReturns
  <1>22. ASSUME NEW b \in Bases, TaskKilled(b) PROVE SweepInv'
    BY <1>22 DEF TypeOK, StartInv, SweepInv, FailDecisionIsSafe, RequestOpen,
       Terminal, Success, NonTerminal, RunStatus, TaskLive, TaskTerminal, TaskState,
       ErrorMessages, rowVars, startVars, taskVars, cancelVars, sweepVars, TaskKilled,
       Fault, RetriesLeft
  <1>23. ASSUME NEW b \in Bases, Complete(b) PROVE SweepInv'
    BY <1>23 DEF TypeOK, StartInv, SweepInv, FailDecisionIsSafe, RequestOpen,
       Terminal, Success, NonTerminal, RunStatus, TaskLive, TaskTerminal, TaskState,
       ErrorMessages, rowVars, startVars, taskVars, cancelVars, sweepVars, Complete,
       Coalesce, FinalStatus, CompletionMatches, CompletionMatchesAnyId
  <1>24. ASSUME NEW b \in Bases, FinalizeRun(b) PROVE SweepInv'
    BY <1>24 DEF TypeOK, StartInv, SweepInv, FailDecisionIsSafe, RequestOpen,
       Terminal, Success, NonTerminal, RunStatus, TaskLive, TaskTerminal, TaskState,
       ErrorMessages, rowVars, startVars, taskVars, cancelVars, sweepVars, FinalizeRun
  <1>25. ASSUME NEW b \in Bases, FinalizeLost(b) PROVE SweepInv'
    BY <1>25 DEF TypeOK, StartInv, SweepInv, FailDecisionIsSafe, RequestOpen,
       Terminal, Success, NonTerminal, RunStatus, TaskLive, TaskTerminal, TaskState,
       ErrorMessages, rowVars, startVars, taskVars, cancelVars, sweepVars, FinalizeLost,
       Fault
  <1>26. ASSUME NEW c \in Cancels, CancelRead(c) PROVE SweepInv'
    BY <1>26 DEF TypeOK, StartInv, SweepInv, FailDecisionIsSafe, RequestOpen,
       Terminal, Success, NonTerminal, RunStatus, TaskLive, TaskTerminal, TaskState,
       ErrorMessages, rowVars, startVars, taskVars, cancelVars, sweepVars, CancelRead
  <1>27. ASSUME NEW c \in Cancels, MarkRunCancelling(c) PROVE SweepInv'
    BY <1>27 DEF TypeOK, StartInv, SweepInv, FailDecisionIsSafe, RequestOpen,
       Terminal, Success, NonTerminal, RunStatus, TaskLive, TaskTerminal, TaskState,
       ErrorMessages, rowVars, startVars, taskVars, cancelVars, sweepVars,
       MarkRunCancelling
  <1>28. ASSUME NEW c \in Cancels, MarkRunCancelled(c) PROVE SweepInv'
    BY <1>28 DEF TypeOK, StartInv, SweepInv, FailDecisionIsSafe, RequestOpen,
       Terminal, Success, NonTerminal, RunStatus, TaskLive, TaskTerminal, TaskState,
       ErrorMessages, rowVars, startVars, taskVars, cancelVars, sweepVars,
       MarkRunCancelled, StatusAfterCancel
  <1>29. ASSUME NEW c \in Cancels, CancelCrash(c) PROVE SweepInv'
    BY <1>29 DEF TypeOK, StartInv, SweepInv, FailDecisionIsSafe, RequestOpen,
       Terminal, Success, NonTerminal, RunStatus, TaskLive, TaskTerminal, TaskState,
       ErrorMessages, rowVars, startVars, taskVars, cancelVars, sweepVars, CancelCrash,
       Fault
  <1>30. ASSUME NEW c \in Cancels, NEW b \in Bases, CancelTask(c, b) PROVE SweepInv'
    BY <1>30 DEF TypeOK, StartInv, SweepInv, FailDecisionIsSafe, RequestOpen,
       Terminal, Success, NonTerminal, RunStatus, TaskLive, TaskTerminal, TaskState,
       ErrorMessages, rowVars, startVars, taskVars, cancelVars, sweepVars, CancelTask,
       Fault
  <1>31. CASE UNCHANGED vars
    BY <1>31 DEF TypeOK, StartInv, SweepInv, FailDecisionIsSafe, RequestOpen,
       Terminal, Success, NonTerminal, RunStatus, TaskLive, TaskTerminal, TaskState,
       ErrorMessages, rowVars, startVars, taskVars, cancelVars, sweepVars, vars
  <1> QED BY <1>1, <1>2, <1>3, <1>4, <1>5, <1>6, <1>7, <1>8, <1>9, <1>10, <1>11, <1>12, <1>13, <1>14, <1>15, <1>16, <1>17, <1>18, <1>19, <1>20, <1>21, <1>22, <1>23, <1>24, <1>25, <1>26, <1>27, <1>28, <1>29, <1>30, <1>31 DEF Next, StartStep, CallerStep, TaskStep, CompleteStep,
      CancelStep, SweepStep, DeleteStep, FaultStep, AtRest

\* A successful status is only written once every base delivered.
LEMMA DeliveredStep ==
  TypeOK /\ StartInv /\ LedgerInv /\ SweepInv /\ DeliveredInv /\ [Next]_vars => DeliveredInv'
  <1> SUFFICES ASSUME TypeOK, StartInv, LedgerInv, SweepInv, DeliveredInv, [Next]_vars
               PROVE DeliveredInv'
    OBVIOUS
  <1> USE NullAssumption
  <1>1. CASE StartCheck
    BY <1>1 DEF TypeOK, StartInv, LedgerInv, PendingLedger, SweepInv, DeliveredInv,
       AllDelivered, Terminal, Success, NonTerminal, RunStatus, TaskLive, TaskTerminal,
       TaskState, ErrorMessages, rowVars, startVars, taskVars, cancelVars, sweepVars,
       StartCheck
  <1>2. CASE UpdateRunStarted
    BY <1>2 DEF TypeOK, StartInv, LedgerInv, PendingLedger, SweepInv, DeliveredInv,
       AllDelivered, Terminal, Success, NonTerminal, RunStatus, TaskLive, TaskTerminal,
       TaskState, ErrorMessages, rowVars, startVars, taskVars, cancelVars, sweepVars,
       UpdateRunStarted
  <1>3. CASE UpdateRunTriggerIds
    BY <1>3 DEF TypeOK, StartInv, LedgerInv, PendingLedger, SweepInv, DeliveredInv,
       AllDelivered, Terminal, Success, NonTerminal, RunStatus, TaskLive, TaskTerminal,
       TaskState, ErrorMessages, rowVars, startVars, taskVars, cancelVars, sweepVars,
       UpdateRunTriggerIds
  <1>4. CASE StartThrows
    BY <1>4 DEF TypeOK, StartInv, LedgerInv, PendingLedger, SweepInv, DeliveredInv,
       AllDelivered, Terminal, Success, NonTerminal, RunStatus, TaskLive, TaskTerminal,
       TaskState, ErrorMessages, rowVars, startVars, taskVars, cancelVars, sweepVars,
       StartThrows, Fault
  <1>5. CASE RollbackRun
    BY <1>5 DEF TypeOK, StartInv, LedgerInv, PendingLedger, SweepInv, DeliveredInv,
       AllDelivered, Terminal, Success, NonTerminal, RunStatus, TaskLive, TaskTerminal,
       TaskState, ErrorMessages, rowVars, startVars, taskVars, cancelVars, sweepVars,
       RollbackRun
  <1>6. CASE RollbackLost
    BY <1>6 DEF TypeOK, StartInv, LedgerInv, PendingLedger, SweepInv, DeliveredInv,
       AllDelivered, Terminal, Success, NonTerminal, RunStatus, TaskLive, TaskTerminal,
       TaskState, ErrorMessages, rowVars, startVars, taskVars, cancelVars, sweepVars,
       RollbackLost, Fault
  <1>7. CASE ListStuckRuns
    BY <1>7 DEF TypeOK, StartInv, LedgerInv, PendingLedger, SweepInv, DeliveredInv,
       AllDelivered, Terminal, Success, NonTerminal, RunStatus, TaskLive, TaskTerminal,
       TaskState, ErrorMessages, rowVars, startVars, taskVars, cancelVars, sweepVars,
       ListStuckRuns
  <1>8. CASE LookupAndDecide
    BY <1>8 DEF TypeOK, StartInv, LedgerInv, PendingLedger, SweepInv, DeliveredInv,
       AllDelivered, Terminal, Success, NonTerminal, RunStatus, TaskLive, TaskTerminal,
       TaskState, ErrorMessages, rowVars, startVars, taskVars, cancelVars, sweepVars,
       LookupAndDecide, Fault, DecideReconciliation, NoRun
  <1>9. CASE ApplyDecision
    BY <1>9 DEF TypeOK, StartInv, LedgerInv, PendingLedger, SweepInv, DeliveredInv,
       AllDelivered, Terminal, Success, NonTerminal, RunStatus, TaskLive, TaskTerminal,
       TaskState, ErrorMessages, rowVars, startVars, taskVars, cancelVars, sweepVars,
       ApplyDecision, Coalesce, ErrorAfterDecision
  <1>10. CASE DeleteRead
    BY <1>10 DEF TypeOK, StartInv, LedgerInv, PendingLedger, SweepInv, DeliveredInv,
       AllDelivered, Terminal, Success, NonTerminal, RunStatus, TaskLive, TaskTerminal,
       TaskState, ErrorMessages, rowVars, startVars, taskVars, cancelVars, sweepVars,
       DeleteRead
  <1>11. CASE MarkRunDeleting
    BY <1>11 DEF TypeOK, StartInv, LedgerInv, PendingLedger, SweepInv, DeliveredInv,
       AllDelivered, Terminal, Success, NonTerminal, RunStatus, TaskLive, TaskTerminal,
       TaskState, ErrorMessages, rowVars, startVars, taskVars, cancelVars, sweepVars,
       MarkRunDeleting
  <1>12. CASE EnqueueDeleteRunFiles
    BY <1>12 DEF TypeOK, StartInv, LedgerInv, PendingLedger, SweepInv, DeliveredInv,
       AllDelivered, Terminal, Success, NonTerminal, RunStatus, TaskLive, TaskTerminal,
       TaskState, ErrorMessages, rowVars, startVars, taskVars, cancelVars, sweepVars,
       EnqueueDeleteRunFiles
  <1>13. CASE DeleteComplete
    BY <1>13 DEF TypeOK, StartInv, LedgerInv, PendingLedger, SweepInv, DeliveredInv,
       AllDelivered, Terminal, Success, NonTerminal, RunStatus, TaskLive, TaskTerminal,
       TaskState, ErrorMessages, rowVars, startVars, taskVars, cancelVars, sweepVars,
       DeleteComplete, StatusAfterDelete
  <1>14. CASE DeleteFails
    BY <1>14 DEF TypeOK, StartInv, LedgerInv, PendingLedger, SweepInv, DeliveredInv,
       AllDelivered, Terminal, Success, NonTerminal, RunStatus, TaskLive, TaskTerminal,
       TaskState, ErrorMessages, rowVars, startVars, taskVars, cancelVars, sweepVars,
       DeleteFails, Fault
  <1>15. CASE Tick
    BY <1>15 DEF TypeOK, StartInv, LedgerInv, PendingLedger, SweepInv, DeliveredInv,
       AllDelivered, Terminal, Success, NonTerminal, RunStatus, TaskLive, TaskTerminal,
       TaskState, ErrorMessages, rowVars, startVars, taskVars, cancelVars, sweepVars,
       Tick
  <1>16. ASSUME NEW b \in Bases, EnqueueBackupBase(b) PROVE DeliveredInv'
    BY <1>16 DEF TypeOK, StartInv, LedgerInv, PendingLedger, SweepInv, DeliveredInv,
       AllDelivered, Terminal, Success, NonTerminal, RunStatus, TaskLive, TaskTerminal,
       TaskState, ErrorMessages, rowVars, startVars, taskVars, cancelVars, sweepVars,
       EnqueueBackupBase
  <1>17. ASSUME NEW b \in Bases, TaskBegin(b) PROVE DeliveredInv'
    BY <1>17 DEF TypeOK, StartInv, LedgerInv, PendingLedger, SweepInv, DeliveredInv,
       AllDelivered, Terminal, Success, NonTerminal, RunStatus, TaskLive, TaskTerminal,
       TaskState, ErrorMessages, rowVars, startVars, taskVars, cancelVars, sweepVars,
       TaskBegin
  <1>18. ASSUME NEW b \in Bases, Progress(b) PROVE DeliveredInv'
    BY <1>18 DEF TypeOK, StartInv, LedgerInv, PendingLedger, SweepInv, DeliveredInv,
       AllDelivered, Terminal, Success, NonTerminal, RunStatus, TaskLive, TaskTerminal,
       TaskState, ErrorMessages, rowVars, startVars, taskVars, cancelVars, sweepVars,
       Progress
  <1>19. ASSUME NEW b \in Bases, PostCompletion(b) PROVE DeliveredInv'
    BY <1>19 DEF TypeOK, StartInv, LedgerInv, PendingLedger, SweepInv, DeliveredInv,
       AllDelivered, Terminal, Success, NonTerminal, RunStatus, TaskLive, TaskTerminal,
       TaskState, ErrorMessages, rowVars, startVars, taskVars, cancelVars, sweepVars,
       PostCompletion
  <1>20. ASSUME NEW b \in Bases, PostLost(b) PROVE DeliveredInv'
    BY <1>20 DEF TypeOK, StartInv, LedgerInv, PendingLedger, SweepInv, DeliveredInv,
       AllDelivered, Terminal, Success, NonTerminal, RunStatus, TaskLive, TaskTerminal,
       TaskState, ErrorMessages, rowVars, startVars, taskVars, cancelVars, sweepVars,
       PostLost, Fault
  <1>21. ASSUME NEW b \in Bases, TaskReturns(b) PROVE DeliveredInv'
    BY <1>21 DEF TypeOK, StartInv, LedgerInv, PendingLedger, SweepInv, DeliveredInv,
       AllDelivered, Terminal, Success, NonTerminal, RunStatus, TaskLive, TaskTerminal,
       TaskState, ErrorMessages, rowVars, startVars, taskVars, cancelVars, sweepVars,
       TaskReturns
  <1>22. ASSUME NEW b \in Bases, TaskKilled(b) PROVE DeliveredInv'
    BY <1>22 DEF TypeOK, StartInv, LedgerInv, PendingLedger, SweepInv, DeliveredInv,
       AllDelivered, Terminal, Success, NonTerminal, RunStatus, TaskLive, TaskTerminal,
       TaskState, ErrorMessages, rowVars, startVars, taskVars, cancelVars, sweepVars,
       TaskKilled, Fault, RetriesLeft
  <1>23. ASSUME NEW b \in Bases, Complete(b) PROVE DeliveredInv'
    BY <1>23 DEF TypeOK, StartInv, LedgerInv, PendingLedger, SweepInv, DeliveredInv,
       AllDelivered, Terminal, Success, NonTerminal, RunStatus, TaskLive, TaskTerminal,
       TaskState, ErrorMessages, rowVars, startVars, taskVars, cancelVars, sweepVars,
       Complete, Coalesce, FinalStatus, CompletionMatches, CompletionMatchesAnyId
  <1>24. ASSUME NEW b \in Bases, FinalizeRun(b) PROVE DeliveredInv'
    BY <1>24 DEF TypeOK, StartInv, LedgerInv, PendingLedger, SweepInv, DeliveredInv,
       AllDelivered, Terminal, Success, NonTerminal, RunStatus, TaskLive, TaskTerminal,
       TaskState, ErrorMessages, rowVars, startVars, taskVars, cancelVars, sweepVars,
       FinalizeRun
  <1>25. ASSUME NEW b \in Bases, FinalizeLost(b) PROVE DeliveredInv'
    BY <1>25 DEF TypeOK, StartInv, LedgerInv, PendingLedger, SweepInv, DeliveredInv,
       AllDelivered, Terminal, Success, NonTerminal, RunStatus, TaskLive, TaskTerminal,
       TaskState, ErrorMessages, rowVars, startVars, taskVars, cancelVars, sweepVars,
       FinalizeLost, Fault
  <1>26. ASSUME NEW c \in Cancels, CancelRead(c) PROVE DeliveredInv'
    BY <1>26 DEF TypeOK, StartInv, LedgerInv, PendingLedger, SweepInv, DeliveredInv,
       AllDelivered, Terminal, Success, NonTerminal, RunStatus, TaskLive, TaskTerminal,
       TaskState, ErrorMessages, rowVars, startVars, taskVars, cancelVars, sweepVars,
       CancelRead
  <1>27. ASSUME NEW c \in Cancels, MarkRunCancelling(c) PROVE DeliveredInv'
    BY <1>27 DEF TypeOK, StartInv, LedgerInv, PendingLedger, SweepInv, DeliveredInv,
       AllDelivered, Terminal, Success, NonTerminal, RunStatus, TaskLive, TaskTerminal,
       TaskState, ErrorMessages, rowVars, startVars, taskVars, cancelVars, sweepVars,
       MarkRunCancelling
  <1>28. ASSUME NEW c \in Cancels, MarkRunCancelled(c) PROVE DeliveredInv'
    BY <1>28 DEF TypeOK, StartInv, LedgerInv, PendingLedger, SweepInv, DeliveredInv,
       AllDelivered, Terminal, Success, NonTerminal, RunStatus, TaskLive, TaskTerminal,
       TaskState, ErrorMessages, rowVars, startVars, taskVars, cancelVars, sweepVars,
       MarkRunCancelled, StatusAfterCancel
  <1>29. ASSUME NEW c \in Cancels, CancelCrash(c) PROVE DeliveredInv'
    BY <1>29 DEF TypeOK, StartInv, LedgerInv, PendingLedger, SweepInv, DeliveredInv,
       AllDelivered, Terminal, Success, NonTerminal, RunStatus, TaskLive, TaskTerminal,
       TaskState, ErrorMessages, rowVars, startVars, taskVars, cancelVars, sweepVars,
       CancelCrash, Fault
  <1>30. ASSUME NEW c \in Cancels, NEW b \in Bases, CancelTask(c, b) PROVE DeliveredInv'
    BY <1>30 DEF TypeOK, StartInv, LedgerInv, PendingLedger, SweepInv, DeliveredInv,
       AllDelivered, Terminal, Success, NonTerminal, RunStatus, TaskLive, TaskTerminal,
       TaskState, ErrorMessages, rowVars, startVars, taskVars, cancelVars, sweepVars,
       CancelTask, Fault
  <1>31. CASE UNCHANGED vars
    BY <1>31 DEF TypeOK, StartInv, LedgerInv, PendingLedger, SweepInv, DeliveredInv,
       AllDelivered, Terminal, Success, NonTerminal, RunStatus, TaskLive, TaskTerminal,
       TaskState, ErrorMessages, rowVars, startVars, taskVars, cancelVars, sweepVars,
       vars
  <1> QED BY <1>1, <1>2, <1>3, <1>4, <1>5, <1>6, <1>7, <1>8, <1>9, <1>10, <1>11, <1>12, <1>13, <1>14, <1>15, <1>16, <1>17, <1>18, <1>19, <1>20, <1>21, <1>22, <1>23, <1>24, <1>25, <1>26, <1>27, <1>28, <1>29, <1>30, <1>31 DEF Next, StartStep, CallerStep, TaskStep, CompleteStep,
      CancelStep, SweepStep, DeleteStep, FaultStep, AtRest

\* A failed status is only written with a message.
LEMMA ReasonStep ==
  TypeOK /\ SweepInv /\ ReasonInv /\ [Next]_vars => ReasonInv'
  <1> SUFFICES ASSUME TypeOK, SweepInv, ReasonInv, [Next]_vars PROVE ReasonInv'
    OBVIOUS
  <1>1. CASE StartCheck
    BY <1>1 DEF TypeOK, SweepInv, ReasonInv, FailedRunHasReason, Terminal, Success,
       NonTerminal, RunStatus, TaskLive, TaskTerminal, TaskState, ErrorMessages, rowVars,
       startVars, taskVars, cancelVars, sweepVars, StartCheck
  <1>2. CASE UpdateRunStarted
    BY <1>2 DEF TypeOK, SweepInv, ReasonInv, FailedRunHasReason, Terminal, Success,
       NonTerminal, RunStatus, TaskLive, TaskTerminal, TaskState, ErrorMessages, rowVars,
       startVars, taskVars, cancelVars, sweepVars, UpdateRunStarted
  <1>3. CASE UpdateRunTriggerIds
    BY <1>3 DEF TypeOK, SweepInv, ReasonInv, FailedRunHasReason, Terminal, Success,
       NonTerminal, RunStatus, TaskLive, TaskTerminal, TaskState, ErrorMessages, rowVars,
       startVars, taskVars, cancelVars, sweepVars, UpdateRunTriggerIds
  <1>4. CASE StartThrows
    BY <1>4 DEF TypeOK, SweepInv, ReasonInv, FailedRunHasReason, Terminal, Success,
       NonTerminal, RunStatus, TaskLive, TaskTerminal, TaskState, ErrorMessages, rowVars,
       startVars, taskVars, cancelVars, sweepVars, StartThrows, Fault
  <1>5. CASE RollbackRun
    BY <1>5 DEF TypeOK, SweepInv, ReasonInv, FailedRunHasReason, Terminal, Success,
       NonTerminal, RunStatus, TaskLive, TaskTerminal, TaskState, ErrorMessages, rowVars,
       startVars, taskVars, cancelVars, sweepVars, RollbackRun
  <1>6. CASE RollbackLost
    BY <1>6 DEF TypeOK, SweepInv, ReasonInv, FailedRunHasReason, Terminal, Success,
       NonTerminal, RunStatus, TaskLive, TaskTerminal, TaskState, ErrorMessages, rowVars,
       startVars, taskVars, cancelVars, sweepVars, RollbackLost, Fault
  <1>7. CASE ListStuckRuns
    BY <1>7 DEF TypeOK, SweepInv, ReasonInv, FailedRunHasReason, Terminal, Success,
       NonTerminal, RunStatus, TaskLive, TaskTerminal, TaskState, ErrorMessages, rowVars,
       startVars, taskVars, cancelVars, sweepVars, ListStuckRuns
  <1>8. CASE LookupAndDecide
    BY <1>8 DEF TypeOK, SweepInv, ReasonInv, FailedRunHasReason, Terminal, Success,
       NonTerminal, RunStatus, TaskLive, TaskTerminal, TaskState, ErrorMessages, rowVars,
       startVars, taskVars, cancelVars, sweepVars, LookupAndDecide, Fault,
       DecideReconciliation, NoRun
  <1>9. CASE ApplyDecision
    BY <1>9 DEF TypeOK, SweepInv, ReasonInv, FailedRunHasReason, Terminal, Success,
       NonTerminal, RunStatus, TaskLive, TaskTerminal, TaskState, ErrorMessages, rowVars,
       startVars, taskVars, cancelVars, sweepVars, ApplyDecision, Coalesce,
       ErrorAfterDecision
  <1>10. CASE DeleteRead
    BY <1>10 DEF TypeOK, SweepInv, ReasonInv, FailedRunHasReason, Terminal, Success,
       NonTerminal, RunStatus, TaskLive, TaskTerminal, TaskState, ErrorMessages, rowVars,
       startVars, taskVars, cancelVars, sweepVars, DeleteRead
  <1>11. CASE MarkRunDeleting
    BY <1>11 DEF TypeOK, SweepInv, ReasonInv, FailedRunHasReason, Terminal, Success,
       NonTerminal, RunStatus, TaskLive, TaskTerminal, TaskState, ErrorMessages, rowVars,
       startVars, taskVars, cancelVars, sweepVars, MarkRunDeleting
  <1>12. CASE EnqueueDeleteRunFiles
    BY <1>12 DEF TypeOK, SweepInv, ReasonInv, FailedRunHasReason, Terminal, Success,
       NonTerminal, RunStatus, TaskLive, TaskTerminal, TaskState, ErrorMessages, rowVars,
       startVars, taskVars, cancelVars, sweepVars, EnqueueDeleteRunFiles
  <1>13. CASE DeleteComplete
    BY <1>13 DEF TypeOK, SweepInv, ReasonInv, FailedRunHasReason, Terminal, Success,
       NonTerminal, RunStatus, TaskLive, TaskTerminal, TaskState, ErrorMessages, rowVars,
       startVars, taskVars, cancelVars, sweepVars, DeleteComplete, StatusAfterDelete
  <1>14. CASE DeleteFails
    BY <1>14 DEF TypeOK, SweepInv, ReasonInv, FailedRunHasReason, Terminal, Success,
       NonTerminal, RunStatus, TaskLive, TaskTerminal, TaskState, ErrorMessages, rowVars,
       startVars, taskVars, cancelVars, sweepVars, DeleteFails, Fault
  <1>15. CASE Tick
    BY <1>15 DEF TypeOK, SweepInv, ReasonInv, FailedRunHasReason, Terminal, Success,
       NonTerminal, RunStatus, TaskLive, TaskTerminal, TaskState, ErrorMessages, rowVars,
       startVars, taskVars, cancelVars, sweepVars, Tick
  <1>16. ASSUME NEW b \in Bases, EnqueueBackupBase(b) PROVE ReasonInv'
    BY <1>16 DEF TypeOK, SweepInv, ReasonInv, FailedRunHasReason, Terminal, Success,
       NonTerminal, RunStatus, TaskLive, TaskTerminal, TaskState, ErrorMessages, rowVars,
       startVars, taskVars, cancelVars, sweepVars, EnqueueBackupBase
  <1>17. ASSUME NEW b \in Bases, TaskBegin(b) PROVE ReasonInv'
    BY <1>17 DEF TypeOK, SweepInv, ReasonInv, FailedRunHasReason, Terminal, Success,
       NonTerminal, RunStatus, TaskLive, TaskTerminal, TaskState, ErrorMessages, rowVars,
       startVars, taskVars, cancelVars, sweepVars, TaskBegin
  <1>18. ASSUME NEW b \in Bases, Progress(b) PROVE ReasonInv'
    BY <1>18 DEF TypeOK, SweepInv, ReasonInv, FailedRunHasReason, Terminal, Success,
       NonTerminal, RunStatus, TaskLive, TaskTerminal, TaskState, ErrorMessages, rowVars,
       startVars, taskVars, cancelVars, sweepVars, Progress
  <1>19. ASSUME NEW b \in Bases, PostCompletion(b) PROVE ReasonInv'
    BY <1>19 DEF TypeOK, SweepInv, ReasonInv, FailedRunHasReason, Terminal, Success,
       NonTerminal, RunStatus, TaskLive, TaskTerminal, TaskState, ErrorMessages, rowVars,
       startVars, taskVars, cancelVars, sweepVars, PostCompletion
  <1>20. ASSUME NEW b \in Bases, PostLost(b) PROVE ReasonInv'
    BY <1>20 DEF TypeOK, SweepInv, ReasonInv, FailedRunHasReason, Terminal, Success,
       NonTerminal, RunStatus, TaskLive, TaskTerminal, TaskState, ErrorMessages, rowVars,
       startVars, taskVars, cancelVars, sweepVars, PostLost, Fault
  <1>21. ASSUME NEW b \in Bases, TaskReturns(b) PROVE ReasonInv'
    BY <1>21 DEF TypeOK, SweepInv, ReasonInv, FailedRunHasReason, Terminal, Success,
       NonTerminal, RunStatus, TaskLive, TaskTerminal, TaskState, ErrorMessages, rowVars,
       startVars, taskVars, cancelVars, sweepVars, TaskReturns
  <1>22. ASSUME NEW b \in Bases, TaskKilled(b) PROVE ReasonInv'
    BY <1>22 DEF TypeOK, SweepInv, ReasonInv, FailedRunHasReason, Terminal, Success,
       NonTerminal, RunStatus, TaskLive, TaskTerminal, TaskState, ErrorMessages, rowVars,
       startVars, taskVars, cancelVars, sweepVars, TaskKilled, Fault, RetriesLeft
  <1>23. ASSUME NEW b \in Bases, Complete(b) PROVE ReasonInv'
    BY <1>23 DEF TypeOK, SweepInv, ReasonInv, FailedRunHasReason, Terminal, Success,
       NonTerminal, RunStatus, TaskLive, TaskTerminal, TaskState, ErrorMessages, rowVars,
       startVars, taskVars, cancelVars, sweepVars, Complete, Coalesce, FinalStatus,
       CompletionMatches, CompletionMatchesAnyId
  <1>24. ASSUME NEW b \in Bases, FinalizeRun(b) PROVE ReasonInv'
    BY <1>24 DEF TypeOK, SweepInv, ReasonInv, FailedRunHasReason, Terminal, Success,
       NonTerminal, RunStatus, TaskLive, TaskTerminal, TaskState, ErrorMessages, rowVars,
       startVars, taskVars, cancelVars, sweepVars, FinalizeRun
  <1>25. ASSUME NEW b \in Bases, FinalizeLost(b) PROVE ReasonInv'
    BY <1>25 DEF TypeOK, SweepInv, ReasonInv, FailedRunHasReason, Terminal, Success,
       NonTerminal, RunStatus, TaskLive, TaskTerminal, TaskState, ErrorMessages, rowVars,
       startVars, taskVars, cancelVars, sweepVars, FinalizeLost, Fault
  <1>26. ASSUME NEW c \in Cancels, CancelRead(c) PROVE ReasonInv'
    BY <1>26 DEF TypeOK, SweepInv, ReasonInv, FailedRunHasReason, Terminal, Success,
       NonTerminal, RunStatus, TaskLive, TaskTerminal, TaskState, ErrorMessages, rowVars,
       startVars, taskVars, cancelVars, sweepVars, CancelRead
  <1>27. ASSUME NEW c \in Cancels, MarkRunCancelling(c) PROVE ReasonInv'
    BY <1>27 DEF TypeOK, SweepInv, ReasonInv, FailedRunHasReason, Terminal, Success,
       NonTerminal, RunStatus, TaskLive, TaskTerminal, TaskState, ErrorMessages, rowVars,
       startVars, taskVars, cancelVars, sweepVars, MarkRunCancelling
  <1>28. ASSUME NEW c \in Cancels, MarkRunCancelled(c) PROVE ReasonInv'
    BY <1>28 DEF TypeOK, SweepInv, ReasonInv, FailedRunHasReason, Terminal, Success,
       NonTerminal, RunStatus, TaskLive, TaskTerminal, TaskState, ErrorMessages, rowVars,
       startVars, taskVars, cancelVars, sweepVars, MarkRunCancelled, StatusAfterCancel
  <1>29. ASSUME NEW c \in Cancels, CancelCrash(c) PROVE ReasonInv'
    BY <1>29 DEF TypeOK, SweepInv, ReasonInv, FailedRunHasReason, Terminal, Success,
       NonTerminal, RunStatus, TaskLive, TaskTerminal, TaskState, ErrorMessages, rowVars,
       startVars, taskVars, cancelVars, sweepVars, CancelCrash, Fault
  <1>30. ASSUME NEW c \in Cancels, NEW b \in Bases, CancelTask(c, b) PROVE ReasonInv'
    BY <1>30 DEF TypeOK, SweepInv, ReasonInv, FailedRunHasReason, Terminal, Success,
       NonTerminal, RunStatus, TaskLive, TaskTerminal, TaskState, ErrorMessages, rowVars,
       startVars, taskVars, cancelVars, sweepVars, CancelTask, Fault
  <1>31. CASE UNCHANGED vars
    BY <1>31 DEF TypeOK, SweepInv, ReasonInv, FailedRunHasReason, Terminal, Success,
       NonTerminal, RunStatus, TaskLive, TaskTerminal, TaskState, ErrorMessages, rowVars,
       startVars, taskVars, cancelVars, sweepVars, vars
  <1> QED BY <1>1, <1>2, <1>3, <1>4, <1>5, <1>6, <1>7, <1>8, <1>9, <1>10, <1>11, <1>12, <1>13, <1>14, <1>15, <1>16, <1>17, <1>18, <1>19, <1>20, <1>21, <1>22, <1>23, <1>24, <1>25, <1>26, <1>27, <1>28, <1>29, <1>30, <1>31 DEF Next, StartStep, CallerStep, TaskStep, CompleteStep,
      CancelStep, SweepStep, DeleteStep, FaultStep, AtRest

\* The intermediate statuses belong to the request that set them.
LEMMA StrandedStep ==
  TypeOK /\ StrandedOnlyByCrash /\ [Next]_vars => StrandedOnlyByCrash'
  <1> SUFFICES ASSUME TypeOK, StrandedOnlyByCrash, [Next]_vars PROVE StrandedOnlyByCrash'
    OBVIOUS
  <1>1. CASE StartCheck
    BY <1>1 DEF TypeOK, StrandedOnlyByCrash, Terminal, Success, NonTerminal,
       RunStatus, TaskLive, TaskTerminal, TaskState, ErrorMessages, rowVars, startVars,
       taskVars, cancelVars, sweepVars, StartCheck
  <1>2. CASE UpdateRunStarted
    BY <1>2 DEF TypeOK, StrandedOnlyByCrash, Terminal, Success, NonTerminal,
       RunStatus, TaskLive, TaskTerminal, TaskState, ErrorMessages, rowVars, startVars,
       taskVars, cancelVars, sweepVars, UpdateRunStarted
  <1>3. CASE UpdateRunTriggerIds
    BY <1>3 DEF TypeOK, StrandedOnlyByCrash, Terminal, Success, NonTerminal,
       RunStatus, TaskLive, TaskTerminal, TaskState, ErrorMessages, rowVars, startVars,
       taskVars, cancelVars, sweepVars, UpdateRunTriggerIds
  <1>4. CASE StartThrows
    BY <1>4 DEF TypeOK, StrandedOnlyByCrash, Terminal, Success, NonTerminal,
       RunStatus, TaskLive, TaskTerminal, TaskState, ErrorMessages, rowVars, startVars,
       taskVars, cancelVars, sweepVars, StartThrows, Fault
  <1>5. CASE RollbackRun
    BY <1>5 DEF TypeOK, StrandedOnlyByCrash, Terminal, Success, NonTerminal,
       RunStatus, TaskLive, TaskTerminal, TaskState, ErrorMessages, rowVars, startVars,
       taskVars, cancelVars, sweepVars, RollbackRun
  <1>6. CASE RollbackLost
    BY <1>6 DEF TypeOK, StrandedOnlyByCrash, Terminal, Success, NonTerminal,
       RunStatus, TaskLive, TaskTerminal, TaskState, ErrorMessages, rowVars, startVars,
       taskVars, cancelVars, sweepVars, RollbackLost, Fault
  <1>7. CASE ListStuckRuns
    BY <1>7 DEF TypeOK, StrandedOnlyByCrash, Terminal, Success, NonTerminal,
       RunStatus, TaskLive, TaskTerminal, TaskState, ErrorMessages, rowVars, startVars,
       taskVars, cancelVars, sweepVars, ListStuckRuns
  <1>8. CASE LookupAndDecide
    BY <1>8 DEF TypeOK, StrandedOnlyByCrash, Terminal, Success, NonTerminal,
       RunStatus, TaskLive, TaskTerminal, TaskState, ErrorMessages, rowVars, startVars,
       taskVars, cancelVars, sweepVars, LookupAndDecide, Fault, DecideReconciliation,
       NoRun
  <1>9. CASE ApplyDecision
    BY <1>9 DEF TypeOK, StrandedOnlyByCrash, Terminal, Success, NonTerminal,
       RunStatus, TaskLive, TaskTerminal, TaskState, ErrorMessages, rowVars, startVars,
       taskVars, cancelVars, sweepVars, ApplyDecision, Coalesce, ErrorAfterDecision
  <1>10. CASE DeleteRead
    BY <1>10 DEF TypeOK, StrandedOnlyByCrash, Terminal, Success, NonTerminal,
       RunStatus, TaskLive, TaskTerminal, TaskState, ErrorMessages, rowVars, startVars,
       taskVars, cancelVars, sweepVars, DeleteRead
  <1>11. CASE MarkRunDeleting
    BY <1>11 DEF TypeOK, StrandedOnlyByCrash, Terminal, Success, NonTerminal,
       RunStatus, TaskLive, TaskTerminal, TaskState, ErrorMessages, rowVars, startVars,
       taskVars, cancelVars, sweepVars, MarkRunDeleting
  <1>12. CASE EnqueueDeleteRunFiles
    BY <1>12 DEF TypeOK, StrandedOnlyByCrash, Terminal, Success, NonTerminal,
       RunStatus, TaskLive, TaskTerminal, TaskState, ErrorMessages, rowVars, startVars,
       taskVars, cancelVars, sweepVars, EnqueueDeleteRunFiles
  <1>13. CASE DeleteComplete
    BY <1>13 DEF TypeOK, StrandedOnlyByCrash, Terminal, Success, NonTerminal,
       RunStatus, TaskLive, TaskTerminal, TaskState, ErrorMessages, rowVars, startVars,
       taskVars, cancelVars, sweepVars, DeleteComplete, StatusAfterDelete
  <1>14. CASE DeleteFails
    BY <1>14 DEF TypeOK, StrandedOnlyByCrash, Terminal, Success, NonTerminal,
       RunStatus, TaskLive, TaskTerminal, TaskState, ErrorMessages, rowVars, startVars,
       taskVars, cancelVars, sweepVars, DeleteFails, Fault
  <1>15. CASE Tick
    BY <1>15 DEF TypeOK, StrandedOnlyByCrash, Terminal, Success, NonTerminal,
       RunStatus, TaskLive, TaskTerminal, TaskState, ErrorMessages, rowVars, startVars,
       taskVars, cancelVars, sweepVars, Tick
  <1>16. ASSUME NEW b \in Bases, EnqueueBackupBase(b) PROVE StrandedOnlyByCrash'
    BY <1>16 DEF TypeOK, StrandedOnlyByCrash, Terminal, Success, NonTerminal,
       RunStatus, TaskLive, TaskTerminal, TaskState, ErrorMessages, rowVars, startVars,
       taskVars, cancelVars, sweepVars, EnqueueBackupBase
  <1>17. ASSUME NEW b \in Bases, TaskBegin(b) PROVE StrandedOnlyByCrash'
    BY <1>17 DEF TypeOK, StrandedOnlyByCrash, Terminal, Success, NonTerminal,
       RunStatus, TaskLive, TaskTerminal, TaskState, ErrorMessages, rowVars, startVars,
       taskVars, cancelVars, sweepVars, TaskBegin
  <1>18. ASSUME NEW b \in Bases, Progress(b) PROVE StrandedOnlyByCrash'
    BY <1>18 DEF TypeOK, StrandedOnlyByCrash, Terminal, Success, NonTerminal,
       RunStatus, TaskLive, TaskTerminal, TaskState, ErrorMessages, rowVars, startVars,
       taskVars, cancelVars, sweepVars, Progress
  <1>19. ASSUME NEW b \in Bases, PostCompletion(b) PROVE StrandedOnlyByCrash'
    BY <1>19 DEF TypeOK, StrandedOnlyByCrash, Terminal, Success, NonTerminal,
       RunStatus, TaskLive, TaskTerminal, TaskState, ErrorMessages, rowVars, startVars,
       taskVars, cancelVars, sweepVars, PostCompletion
  <1>20. ASSUME NEW b \in Bases, PostLost(b) PROVE StrandedOnlyByCrash'
    BY <1>20 DEF TypeOK, StrandedOnlyByCrash, Terminal, Success, NonTerminal,
       RunStatus, TaskLive, TaskTerminal, TaskState, ErrorMessages, rowVars, startVars,
       taskVars, cancelVars, sweepVars, PostLost, Fault
  <1>21. ASSUME NEW b \in Bases, TaskReturns(b) PROVE StrandedOnlyByCrash'
    BY <1>21 DEF TypeOK, StrandedOnlyByCrash, Terminal, Success, NonTerminal,
       RunStatus, TaskLive, TaskTerminal, TaskState, ErrorMessages, rowVars, startVars,
       taskVars, cancelVars, sweepVars, TaskReturns
  <1>22. ASSUME NEW b \in Bases, TaskKilled(b) PROVE StrandedOnlyByCrash'
    BY <1>22 DEF TypeOK, StrandedOnlyByCrash, Terminal, Success, NonTerminal,
       RunStatus, TaskLive, TaskTerminal, TaskState, ErrorMessages, rowVars, startVars,
       taskVars, cancelVars, sweepVars, TaskKilled, Fault, RetriesLeft
  <1>23. ASSUME NEW b \in Bases, Complete(b) PROVE StrandedOnlyByCrash'
    BY <1>23 DEF TypeOK, StrandedOnlyByCrash, Terminal, Success, NonTerminal,
       RunStatus, TaskLive, TaskTerminal, TaskState, ErrorMessages, rowVars, startVars,
       taskVars, cancelVars, sweepVars, Complete, Coalesce, FinalStatus,
       CompletionMatches, CompletionMatchesAnyId
  <1>24. ASSUME NEW b \in Bases, FinalizeRun(b) PROVE StrandedOnlyByCrash'
    BY <1>24 DEF TypeOK, StrandedOnlyByCrash, Terminal, Success, NonTerminal,
       RunStatus, TaskLive, TaskTerminal, TaskState, ErrorMessages, rowVars, startVars,
       taskVars, cancelVars, sweepVars, FinalizeRun
  <1>25. ASSUME NEW b \in Bases, FinalizeLost(b) PROVE StrandedOnlyByCrash'
    BY <1>25 DEF TypeOK, StrandedOnlyByCrash, Terminal, Success, NonTerminal,
       RunStatus, TaskLive, TaskTerminal, TaskState, ErrorMessages, rowVars, startVars,
       taskVars, cancelVars, sweepVars, FinalizeLost, Fault
  <1>26. ASSUME NEW c \in Cancels, CancelRead(c) PROVE StrandedOnlyByCrash'
    BY <1>26 DEF TypeOK, StrandedOnlyByCrash, Terminal, Success, NonTerminal,
       RunStatus, TaskLive, TaskTerminal, TaskState, ErrorMessages, rowVars, startVars,
       taskVars, cancelVars, sweepVars, CancelRead
  <1>27. ASSUME NEW c \in Cancels, MarkRunCancelling(c) PROVE StrandedOnlyByCrash'
    BY <1>27 DEF TypeOK, StrandedOnlyByCrash, Terminal, Success, NonTerminal,
       RunStatus, TaskLive, TaskTerminal, TaskState, ErrorMessages, rowVars, startVars,
       taskVars, cancelVars, sweepVars, MarkRunCancelling
  <1>28. ASSUME NEW c \in Cancels, MarkRunCancelled(c) PROVE StrandedOnlyByCrash'
    BY <1>28 DEF TypeOK, StrandedOnlyByCrash, Terminal, Success, NonTerminal,
       RunStatus, TaskLive, TaskTerminal, TaskState, ErrorMessages, rowVars, startVars,
       taskVars, cancelVars, sweepVars, MarkRunCancelled, StatusAfterCancel
  <1>29. ASSUME NEW c \in Cancels, CancelCrash(c) PROVE StrandedOnlyByCrash'
    BY <1>29 DEF TypeOK, StrandedOnlyByCrash, Terminal, Success, NonTerminal,
       RunStatus, TaskLive, TaskTerminal, TaskState, ErrorMessages, rowVars, startVars,
       taskVars, cancelVars, sweepVars, CancelCrash, Fault
  <1>30. ASSUME NEW c \in Cancels, NEW b \in Bases, CancelTask(c, b) PROVE StrandedOnlyByCrash'
    BY <1>30 DEF TypeOK, StrandedOnlyByCrash, Terminal, Success, NonTerminal,
       RunStatus, TaskLive, TaskTerminal, TaskState, ErrorMessages, rowVars, startVars,
       taskVars, cancelVars, sweepVars, CancelTask, Fault
  <1>31. CASE UNCHANGED vars
    BY <1>31 DEF TypeOK, StrandedOnlyByCrash, Terminal, Success, NonTerminal,
       RunStatus, TaskLive, TaskTerminal, TaskState, ErrorMessages, rowVars, startVars,
       taskVars, cancelVars, sweepVars, vars
  <1> QED BY <1>1, <1>2, <1>3, <1>4, <1>5, <1>6, <1>7, <1>8, <1>9, <1>10, <1>11, <1>12, <1>13, <1>14, <1>15, <1>16, <1>17, <1>18, <1>19, <1>20, <1>21, <1>22, <1>23, <1>24, <1>25, <1>26, <1>27, <1>28, <1>29, <1>30, <1>31 DEF Next, StartStep, CallerStep, TaskStep, CompleteStep,
      CancelStep, SweepStep, DeleteStep, FaultStep, AtRest

\* The invariant is inductive.
THEOREM StepInv == IInv /\ [Next]_vars => IInv'
  BY TypeStep, StartStepInv, LedgerStep, SweepStepInv, DeliveredStep, ReasonStep,
     StrandedStep DEF IInv

\* The invariant holds of every behaviour.
THEOREM Invariance == Spec => []IInv
  BY InitInv, StepInv, PTL DEF Spec

-----------------------------------------------------------------------------
(* The results.                                                            *)

\* Every variable has its type in every reachable state.
THEOREM TypeCorrect == Spec => []TypeOK
  <1>1. IInv => TypeOK
    BY DEF IInv
  <1> QED BY <1>1, Invariance, PTL

\* Pending ids and counted bases are complementary; no base counts twice.
THEOREM LedgerCorrect == Spec => []PendingLedger
  <1>1. IInv => PendingLedger
    BY DEF IInv, LedgerInv
  <1> QED BY <1>1, Invariance, PTL

\* A successful run had a successful result of every base.
THEOREM SuccessCorrect == Spec => []SuccessMeansDelivered
  <1>1. IInv => SuccessMeansDelivered
    BY DEF IInv, DeliveredInv, AllDelivered, SuccessMeansDelivered
  <1> QED BY <1>1, Invariance, PTL

\* A failed run has an error message.
THEOREM FailureCorrect == Spec => []FailedRunHasReason
  <1>1. IInv => FailedRunHasReason
    BY DEF IInv, ReasonInv
  <1> QED BY <1>1, Invariance, PTL

\* The sweep never fails a run one of whose pending tasks can still report.
THEOREM SweepCorrect == Spec => []FailDecisionIsSafe
  <1>1. IInv => FailDecisionIsSafe
    BY DEF IInv, SweepInv
  <1> QED BY <1>1, Invariance, PTL

\* A row is only left behind in cancelling or deleting by a dead request.
THEOREM StrandedCorrect == Spec => []StrandedOnlyByCrash
  <1>1. IInv => StrandedOnlyByCrash
    BY DEF IInv
  <1> QED BY <1>1, Invariance, PTL

-----------------------------------------------------------------------------
(* RunLifecycle implements BackupRun, by the mapping of RunRefinement.  The *)
(* steps that need the invariant are those of the start request, which      *)
(* must not touch a run with results, and of the actors that write a        *)
(* verdict.                                                                 *)

\* What an observer sees is a function of three variables of the run.
Seen == <<status, reported, errorMessage>>

LEMMA Unseen == UNCHANGED Seen => UNCHANGED Promise!vars
  BY DEF Seen, Promise!vars, Shown

\* Before the ids are recorded no base has delivered.
LEMMA NothingBeforeIds ==
  ASSUME IInv, triggerRunIds = NULL PROVE Promise!NothingDelivered
  BY DEF IInv, TypeOK, LedgerInv, PendingLedger, Promise!NothingDelivered

\* A successful verdict is written only on good results of every base.
LEMMA DeliveredIsGood ==
  ASSUME AllDelivered PROVE \A b \in Bases : reported[b] \in Success
  BY DEF AllDelivered

\* The queued row is an open run without results.
LEMMA InitRefines == Init => Promise!Init
  BY DEF Init, Promise!Init, Shown, NonTerminal

-----------------------------------------------------------------------------
(* The actions that nobody sees.                                           *)

LEMMA QuietSteps ==
  ASSUME \/ StartCheck \/ UpdateRunTriggerIds \/ StartThrows \/ RollbackLost
         \/ ListStuckRuns \/ LookupAndDecide \/ Tick \/ UNCHANGED vars
         \/ DeleteRead \/ EnqueueDeleteRunFiles \/ DeleteFails
         \/ \E b \in Bases : \/ EnqueueBackupBase(b) \/ TaskBegin(b) \/ Progress(b)
                             \/ PostCompletion(b) \/ PostLost(b) \/ TaskReturns(b)
                             \/ TaskKilled(b) \/ FinalizeLost(b)
         \/ \E c \in Cancels : CancelRead(c) \/ CancelCrash(c)
         \/ \E c \in Cancels, b \in Bases : CancelTask(c, b)
  PROVE  UNCHANGED Promise!vars
  <1> USE DEF Seen, rowVars
  <1>1. CASE StartCheck
    <2>1. UNCHANGED Seen
      BY <1>1 DEF StartCheck
    <2> QED BY <2>1, Unseen
  <1>2. CASE UpdateRunTriggerIds
    <2>1. UNCHANGED Seen
      BY <1>2 DEF UpdateRunTriggerIds
    <2> QED BY <2>1, Unseen
  <1>3. CASE StartThrows
    <2>1. UNCHANGED Seen
      BY <1>3 DEF StartThrows
    <2> QED BY <2>1, Unseen
  <1>4. CASE RollbackLost
    <2>1. UNCHANGED Seen
      BY <1>4 DEF RollbackLost
    <2> QED BY <2>1, Unseen
  <1>5. CASE ListStuckRuns
    <2>1. UNCHANGED Seen
      BY <1>5 DEF ListStuckRuns
    <2> QED BY <2>1, Unseen
  <1>6. CASE LookupAndDecide
    <2>1. UNCHANGED Seen
      BY <1>6 DEF LookupAndDecide
    <2> QED BY <2>1, Unseen
  <1>7. CASE DeleteRead
    <2>1. UNCHANGED Seen
      BY <1>7 DEF DeleteRead
    <2> QED BY <2>1, Unseen
  <1>8. CASE EnqueueDeleteRunFiles
    <2>1. UNCHANGED Seen
      BY <1>8 DEF EnqueueDeleteRunFiles
    <2> QED BY <2>1, Unseen
  <1>9. CASE DeleteFails
    <2>1. UNCHANGED Seen
      BY <1>9 DEF DeleteFails
    <2> QED BY <2>1, Unseen
  <1>10. CASE Tick
    <2>1. UNCHANGED Seen
      BY <1>10 DEF Tick
    <2> QED BY <2>1, Unseen
  <1>11. CASE UNCHANGED vars
    <2>1. UNCHANGED Seen
      BY <1>11 DEF vars
    <2> QED BY <2>1, Unseen
  <1>12. ASSUME NEW b \in Bases, EnqueueBackupBase(b) PROVE UNCHANGED Seen
    BY <1>12 DEF EnqueueBackupBase
  <1>13. ASSUME NEW b \in Bases, TaskBegin(b) PROVE UNCHANGED Seen
    BY <1>13 DEF TaskBegin
  <1>14. ASSUME NEW b \in Bases, Progress(b) PROVE UNCHANGED Seen
    BY <1>14 DEF Progress
  <1>15. ASSUME NEW b \in Bases, PostCompletion(b) PROVE UNCHANGED Seen
    BY <1>15 DEF PostCompletion
  <1>16. ASSUME NEW b \in Bases, PostLost(b) PROVE UNCHANGED Seen
    BY <1>16 DEF PostLost
  <1>17. ASSUME NEW b \in Bases, TaskReturns(b) PROVE UNCHANGED Seen
    BY <1>17 DEF TaskReturns
  <1>18. ASSUME NEW b \in Bases, TaskKilled(b) PROVE UNCHANGED Seen
    BY <1>18 DEF TaskKilled
  <1>19. ASSUME NEW b \in Bases, FinalizeLost(b) PROVE UNCHANGED Seen
    BY <1>19 DEF FinalizeLost
  <1>20. ASSUME NEW c \in Cancels, CancelRead(c) PROVE UNCHANGED Seen
    BY <1>20 DEF CancelRead
  <1>21. ASSUME NEW c \in Cancels, CancelCrash(c) PROVE UNCHANGED Seen
    BY <1>21 DEF CancelCrash
  <1>22. ASSUME NEW c \in Cancels, NEW b \in Bases, CancelTask(c, b) PROVE UNCHANGED Seen
    BY <1>22 DEF CancelTask
  <1> QED BY Unseen, <1>1, <1>2, <1>3, <1>4, <1>5, <1>6, <1>7, <1>8, <1>9, <1>10, <1>11, <1>12, <1>13, <1>14, <1>15, <1>16, <1>17, <1>18, <1>19, <1>20, <1>21, <1>22

-----------------------------------------------------------------------------
(* The actions somebody sees, each the step of BackupRun it stands for.    *)

\* updateRunStarted does not check the status, but the start request that
\* runs it has not recorded ids, so no base has delivered.
LEMMA StartedRefines ==
  ASSUME IInv, UpdateRunStarted PROVE [Promise!Next]_(Promise!vars)
  <1>1. triggerRunIds = NULL
    BY DEF IInv, StartInv, UpdateRunStarted
  <1>2. Promise!NothingDelivered
    BY <1>1, NothingBeforeIds
  <1>3. CASE status = "gone"
    <2>1. UNCHANGED Seen
      BY <1>3 DEF UpdateRunStarted, Seen
    <2> QED BY <2>1, Unseen
  <1>4. CASE status # "gone"
    <2>1. status' = "running" /\ UNCHANGED <<reported, errorMessage>>
      BY <1>4 DEF UpdateRunStarted
    <2>2. Promise!Restart
      BY <1>2, <1>4, <2>1 DEF Promise!Restart, Shown, NonTerminal
    <2> QED BY <2>2 DEF Promise!Next
  <1> QED BY <1>3, <1>4

\* The rollback deletes only a row whose ids were never recorded.
LEMMA RollbackRefines ==
  ASSUME IInv, RollbackRun PROVE [Promise!Next]_(Promise!vars)
  <1>1. triggerRunIds = NULL
    BY DEF IInv, StartInv, RollbackRun
  <1>2. status' = "gone" /\ UNCHANGED <<reported, errorMessage>>
    BY DEF RollbackRun
  <1>3. Promise!Undo
    BY <1>1, <1>2, NothingBeforeIds DEF Promise!Undo, Shown, NonTerminal
  <1> QED BY <1>3 DEF Promise!Next

\* A completion that matches is the first one of its base.
LEMMA CompleteRefines ==
  ASSUME IInv, NEW b \in Bases, Complete(b) PROVE [Promise!Next]_(Promise!vars)
  <1>1. PICK p \in posts :
          LET failure == IF p[3] = "failed" THEN "base_failure" ELSE "none"
              error   == Coalesce(errorMessage, failure)
          IN \/ UNCHANGED <<status, reported, errorMessage>>
             \/ /\ CompletionMatches(b)
                /\ status' = status
                /\ reported' = [reported EXCEPT ![b] = p[3]]
                /\ errorMessage' = error
    BY DEF Complete
  <1>2. CASE UNCHANGED <<status, reported, errorMessage>>
    BY <1>2, Unseen DEF Seen
  <1>3. CASE /\ CompletionMatches(b)
             /\ status' = status
             /\ reported' = [reported EXCEPT ![b] = p[3]]
             /\ errorMessage' = Coalesce(errorMessage,
                                  IF p[3] = "failed" THEN "base_failure" ELSE "none")
    <2>1. p[3] \in Success \cup {"failed"}
      BY DEF IInv, TypeOK
    <2>2. reported[b] = "none" /\ status # "gone"
      BY <1>3 DEF IInv, TypeOK, LedgerInv, PendingLedger, CompletionMatches,
         CompletionMatchesAnyId
    <2>3. (errorMessage' # "none") = (errorMessage # "none" \/ p[3] = "failed")
      BY <1>3 DEF Coalesce
    <2>4. Promise!Deliver(b, p[3])
      BY <1>3, <2>2, <2>3 DEF Promise!Deliver, Shown, NonTerminal
    <2> QED BY <2>1, <2>4 DEF Promise!Next
  <1> QED BY <1>1, <1>2, <1>3

\* The last callback writes a verdict its results justify.
LEMMA FinalizeRefines ==
  ASSUME IInv, NEW b \in Bases, FinalizeRun(b) PROVE [Promise!Next]_(Promise!vars)
  <1>1. CASE status = "gone"
    <2>1. UNCHANGED Seen
      BY <1>1 DEF FinalizeRun, Seen
    <2> QED BY <2>1, Unseen
  <1>2. CASE status # "gone" /\ finishing[b] = "failed"
    <2>1. errorMessage # "none"
      BY <1>2 DEF IInv, ReasonInv
    <2>2. status' = "failed" /\ UNCHANGED <<reported, errorMessage>>
      BY <1>2 DEF FinalizeRun
    <2>3. Promise!Fail
      BY <1>2, <2>1, <2>2 DEF Promise!Fail, Shown, NonTerminal
    <2> QED BY <2>3 DEF Promise!Next
  <1>3. CASE status # "gone" /\ finishing[b] # "failed"
    <2>1. finishing[b] \in Success
      BY <1>3 DEF IInv, TypeOK, FinalizeRun
    <2>2. \A d \in Bases : reported[d] \in Success
      BY <2>1, DeliveredIsGood DEF IInv, DeliveredInv
    <2>3. status' = finishing[b] /\ UNCHANGED <<reported, errorMessage>>
      BY <1>3 DEF FinalizeRun
    <2>4. Promise!Succeed(finishing[b])
      BY <1>3, <2>1, <2>2, <2>3 DEF Promise!Succeed, Shown, NonTerminal, Success
    <2> QED BY <2>1, <2>4 DEF Promise!Next
  <1> QED BY <1>1, <1>2, <1>3

\* The sweep writes success on results it read, and a failure with a reason.
LEMMA DecisionRefines ==
  ASSUME IInv, ApplyDecision PROVE [Promise!Next]_(Promise!vars)
  <1>1. CASE status \notin NonTerminal
    <2>1. UNCHANGED Seen
      BY <1>1 DEF ApplyDecision, Seen
    <2> QED BY <2>1, Unseen
  <1>2. CASE status \in NonTerminal /\ sweepDecision = "succeeded"
    <2>1. \A d \in Bases : reported[d] \in Success
      BY <1>2, DeliveredIsGood DEF IInv, DeliveredInv
    <2>2. status' = "succeeded" /\ UNCHANGED <<reported, errorMessage>>
      BY <1>2 DEF ApplyDecision, ErrorAfterDecision
    <2>3. Promise!Succeed("succeeded")
      BY <1>2, <2>1, <2>2 DEF Promise!Succeed, Shown, NonTerminal
    <2> QED BY <2>3 DEF Promise!Next, Success
  <1>3. CASE status \in NonTerminal /\ sweepDecision # "succeeded"
    <2>1. sweepDecision \in {"fail", "failed"}
      BY <1>3 DEF IInv, TypeOK, ApplyDecision
    <2>2. status' = "failed" /\ UNCHANGED reported
      BY <1>3, <2>1 DEF ApplyDecision
    <2>3. errorMessage' # "none"
      BY <1>3, <2>1 DEF IInv, ReasonInv, ApplyDecision, ErrorAfterDecision, Coalesce
    <2>4. Promise!Fail
      BY <1>3, <2>2, <2>3 DEF Promise!Fail, Shown, NonTerminal
    <2> QED BY <2>4 DEF Promise!Next
  <1> QED BY <1>1, <1>2, <1>3

\* A cancel goes through its two guarded updates.
LEMMA CancelRefines ==
  ASSUME NEW c \in Cancels, MarkRunCancelling(c) \/ MarkRunCancelled(c)
  PROVE  [Promise!Next]_(Promise!vars)
  <1>1. UNCHANGED <<reported, errorMessage>>
    BY DEF MarkRunCancelling, MarkRunCancelled
  <1>2. \/ status' = status
        \/ status \in NonTerminal /\ status' = "cancelling"
        \/ status = "cancelling" /\ status' = "cancelled"
    BY DEF MarkRunCancelling, MarkRunCancelled, StatusAfterCancel
  <1>3. CASE status' = status
    BY <1>1, <1>3, Unseen DEF Seen
  <1>4. CASE status \in NonTerminal /\ status' = "cancelling"
    <2>1. Promise!Cancel
      BY <1>1, <1>4 DEF Promise!Cancel, Shown, NonTerminal
    <2> QED BY <2>1 DEF Promise!Next
  <1>5. CASE status = "cancelling" /\ status' = "cancelled"
    <2>1. Promise!Cancel
      BY <1>1, <1>5 DEF Promise!Cancel, Shown, NonTerminal
    <2> QED BY <2>1 DEF Promise!Next
  <1> QED BY <1>2, <1>3, <1>4, <1>5

\* So does a delete.
LEMMA DeleteRefines ==
  ASSUME MarkRunDeleting \/ DeleteComplete PROVE [Promise!Next]_(Promise!vars)
  <1>1. UNCHANGED <<reported, errorMessage>>
    BY DEF MarkRunDeleting, DeleteComplete
  <1>2. \/ status' = status
        \/ status \in Terminal /\ status' = "deleting"
        \/ status = "deleting" /\ status' = "gone"
    BY DEF MarkRunDeleting, DeleteComplete, StatusAfterDelete
  <1>3. CASE status' = status
    BY <1>1, <1>3, Unseen DEF Seen
  <1>4. CASE status \in Terminal /\ status' = "deleting"
    <2>1. Promise!Delete
      BY <1>1, <1>4 DEF Promise!Delete, Promise!Verdicts, Shown, NonTerminal, Terminal,
         Success
    <2> QED BY <2>1 DEF Promise!Next
  <1>5. CASE status = "deleting" /\ status' = "gone"
    <2>1. Promise!Delete
      BY <1>1, <1>5 DEF Promise!Delete, Shown, NonTerminal
    <2> QED BY <2>1 DEF Promise!Next
  <1> QED BY <1>2, <1>3, <1>4, <1>5

-----------------------------------------------------------------------------
\* Every step is a step of BackupRun or is not seen.
LEMMA StepRefines == IInv /\ [Next]_vars => [Promise!Next]_(Promise!vars)
  <1> SUFFICES ASSUME IInv, [Next]_vars PROVE [Promise!Next]_(Promise!vars)
    OBVIOUS
  <1>1. CASE \/ UpdateRunStarted \/ RollbackRun \/ ApplyDecision
             \/ MarkRunDeleting \/ DeleteComplete
    BY <1>1, StartedRefines, RollbackRefines, DecisionRefines, DeleteRefines
  <1>2. ASSUME NEW b \in Bases, Complete(b) \/ FinalizeRun(b)
        PROVE  [Promise!Next]_(Promise!vars)
    BY <1>2, CompleteRefines, FinalizeRefines
  <1>3. ASSUME NEW c \in Cancels, MarkRunCancelling(c) \/ MarkRunCancelled(c)
        PROVE  [Promise!Next]_(Promise!vars)
    BY <1>3, CancelRefines
  <1>4. CASE \/ StartCheck \/ UpdateRunTriggerIds \/ StartThrows \/ RollbackLost
             \/ ListStuckRuns \/ LookupAndDecide \/ Tick \/ UNCHANGED vars
             \/ DeleteRead \/ EnqueueDeleteRunFiles \/ DeleteFails
             \/ \E b \in Bases : \/ EnqueueBackupBase(b) \/ TaskBegin(b) \/ Progress(b)
                                 \/ PostCompletion(b) \/ PostLost(b) \/ TaskReturns(b)
                                 \/ TaskKilled(b) \/ FinalizeLost(b)
             \/ \E c \in Cancels : CancelRead(c) \/ CancelCrash(c)
             \/ \E c \in Cancels, b \in Bases : CancelTask(c, b)
    BY <1>4, QuietSteps
  <1> QED BY <1>1, <1>2, <1>3, <1>4 DEF Next, StartStep, CallerStep, TaskStep,
      CompleteStep, CancelStep, SweepStep, DeleteStep, FaultStep, AtRest

\* Whatever its actors do, crash or lose, a run keeps the promise of
\* BackupRun to those who look at it.
THEOREM RefinementCorrect == Spec => ImplementsBackupRun
  BY InitRefines, StepRefines, Invariance, PTL
     DEF Spec, ImplementsBackupRun, Promise!Spec

=============================================================================
