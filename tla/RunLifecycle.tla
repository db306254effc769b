---------------------------- MODULE RunLifecycle ----------------------------
(***************************************************************************)
(* The life of one backup_runs row of the engine (apps/server/src/lib/runs *)
(* and the /api/internal/runs routes), with every actor that writes it:    *)
(*                                                                         *)
(*   - the start request (processRunStart): reads the row, fans out one    *)
(*     Trigger.dev task per included base, then records the task ids;      *)
(*   - the caller of start, which deletes the row when start is refused;   *)
(*   - the Trigger.dev tasks (backup-base), which may be retried, killed   *)
(*     or cancelled and post /progress and /complete to the engine;        *)
(*   - the /complete handler, one SQL UPDATE that consumes the task's id,  *)
(*     then a second UPDATE that finalizes the run on the last one;        *)
(*   - cancel requests, the delete request and its delete-run-files task;  *)
(*   - the reconciliation sweep of the */15 cron.                          *)
(*                                                                         *)
(* Every database statement of the code is one atomic step; everything     *)
(* between two awaits interleaves with the other actors.  A base has one   *)
(* task per run, so a base names its task id.                              *)
(***************************************************************************)
EXTENDS Naturals, FiniteSets

CONSTANTS
  Bases,        \* included bases of the Space's configuration
  Cancels,      \* cancel requests for this run
  Outcomes,     \* results a task can report
  Origins,      \* who inserted the queued row: "web" or "engine"
  NULL,         \* the SQL null of trigger_run_ids
  MaxAttempts,  \* attempts Trigger.dev gives a task (trigger.config.ts)
  MaxPages,     \* bound: table pages a base posts progress for
  MaxFaults     \* bound: crashes, lost requests and failed API calls together

ASSUME BasesAssumption == IsFiniteSet(Bases) /\ Bases # {}
ASSUME NullAssumption == \A ids \in SUBSET Bases : NULL # ids
ASSUME BoundsAssumption ==
  MaxAttempts \in Nat \ {0} /\ MaxPages \in Nat /\ MaxFaults \in Nat
ASSUME OutcomesAssumption ==
  Outcomes \subseteq {"succeeded", "trial_complete", "trial_truncated", "failed"}
ASSUME OriginsAssumption == Origins \subseteq {"web", "engine"}

VARIABLES
  status,         \* backup_runs.status; "gone" once the row is deleted
  triggerRunIds,  \* backup_runs.trigger_run_ids: NULL, or the pending tasks
  errorMessage,   \* backup_runs.error_message: "none" for SQL null, or its origin
  added,          \* added[b]: times /complete added b's totals to the counters
  pages,          \* pages[b]: /progress increments b made to the counters
  reported,       \* reported[b]: the result of b that /complete consumed
  age,            \* age of startedAt ?? createdAt: 0 <15min, 1 <60min, 2 older
  origin, startPc, toEnqueue,        \* the start request and its caller
  task, attempt, posts,              \* Trigger.dev tasks, completions in flight
  finishing,      \* finishing[b]: final status the handler of b still writes
  cancelPc, cancelIds,               \* cancel requests and the ids they hold
  sweepPc, sweepRun, sweepDecision,  \* the reconciliation sweep
  deletePc,       \* the delete request, then its delete-run-files task
  faults          \* crashes and losses so far

rowVars    == <<status, triggerRunIds, errorMessage, added, pages, reported>>
startVars  == <<origin, startPc, toEnqueue>>
taskVars   == <<task, attempt, posts>>
cancelVars == <<cancelPc, cancelIds>>
sweepVars  == <<sweepPc, sweepRun, sweepDecision>>
vars == <<rowVars, age, startVars, taskVars, finishing, cancelVars, sweepVars,
          deletePc, faults>>

NonTerminal == {"queued", "running"}
Success     == {"succeeded", "trial_complete", "trial_truncated"}
Terminal    == Success \cup {"failed", "cancelled"}
RunStatus   == NonTerminal \cup Terminal \cup {"cancelling", "deleting", "gone"}

TaskLive     == {"queued", "executing", "posting"}
TaskTerminal == {"completed", "dead"}
TaskState    == {"none"} \cup TaskLive \cup TaskTerminal

ErrorMessages == {"none", "base_failure", "reconciled"}

NoRun == [status |-> "gone", ids |-> NULL, err |-> "none", age |-> 0]

TypeOK ==
  /\ status \in RunStatus
  /\ triggerRunIds = NULL \/ triggerRunIds \in SUBSET Bases
  /\ errorMessage \in ErrorMessages
  /\ added \in [Bases -> Nat]
  /\ pages \in [Bases -> 0..MaxPages]
  /\ reported \in [Bases -> Success \cup {"failed", "none"}]
  /\ age \in 0..2
  /\ origin \in {"web", "engine"}
  /\ startPc \in {"called", "checked", "fanout", "ok", "rejected", "threw", "done"}
  /\ toEnqueue \in SUBSET Bases
  /\ task \in [Bases -> TaskState]
  /\ attempt \in [Bases -> 1..MaxAttempts]
  /\ posts \in SUBSET (Bases \X (1..MaxAttempts) \X (Success \cup {"failed"}))
  /\ finishing \in [Bases -> Success \cup {"failed", "none"}]
  /\ cancelPc \in [Cancels -> {"called", "read", "won", "acked", "refused", "crashed"}]
  /\ cancelIds \in [Cancels -> SUBSET Bases]
  /\ sweepPc \in {"idle", "read", "decided"}
  /\ DOMAIN sweepRun = {"status", "ids", "err", "age"}
  /\ sweepRun.status \in RunStatus /\ sweepRun.err \in ErrorMessages /\ sweepRun.age \in 0..2
  /\ sweepRun.ids = NULL \/ sweepRun.ids \in SUBSET Bases
  /\ sweepDecision \in IF sweepPc = "decided" THEN {"fail", "succeeded", "failed"}
                                              ELSE {"none"}
  /\ deletePc \in {"called", "read", "marked", "task", "refused", "stuck", "done"}
  /\ faults \in 0..MaxFaults

Init ==
  /\ status = "queued"
  /\ triggerRunIds = NULL
  /\ errorMessage = "none"
  /\ added = [b \in Bases |-> 0]
  /\ pages = [b \in Bases |-> 0]
  /\ reported = [b \in Bases |-> "none"]
  /\ age = 0
  /\ origin \in Origins
  /\ startPc = "called"
  /\ toEnqueue = Bases
  /\ task = [b \in Bases |-> "none"]
  /\ attempt = [b \in Bases |-> 1]
  /\ posts = {}
  /\ finishing = [b \in Bases |-> "none"]
  /\ cancelPc = [c \in Cancels |-> "called"]
  /\ cancelIds = [c \in Cancels |-> {}]
  /\ sweepPc = "idle"
  /\ sweepRun = NoRun
  /\ sweepDecision = "none"
  /\ deletePc = "called"
  /\ faults = 0

\* SQL COALESCE on the error_message column: the first message stays.
Coalesce(existing, new) == IF existing = "none" THEN new ELSE existing

Fault == faults < MaxFaults /\ faults' = faults + 1

-----------------------------------------------------------------------------
(* The start request: lib/runs/start.ts, wired in lib/runs/start-deps.ts.  *)

\* Steps 1-4: the row must exist and be queued.  The connection, the
\* configuration, the storage type and the included bases are data of other
\* tables, so whether those checks pass is free.
StartCheck ==
  /\ startPc = "called"
  /\ \/ status = "queued" /\ startPc' = "checked"
     \/ startPc' = "rejected"
  /\ UNCHANGED <<rowVars, age, origin, toEnqueue, taskVars, finishing,
                 cancelVars, sweepVars, deletePc, faults>>

\* Step 5, updateRunStarted: WHERE id only, so the status checked before is
\* not checked again.  startedAt restarts the age of the row.
UpdateRunStarted ==
  /\ startPc = "checked"
  /\ startPc' = "fanout"
  /\ IF status = "gone" THEN UNCHANGED <<status, age>>
                        ELSE status' = "running" /\ age' = 0
  /\ UNCHANGED <<triggerRunIds, errorMessage, added, pages, reported, origin, toEnqueue,
                 taskVars, finishing, cancelVars, sweepVars, deletePc, faults>>

\* Step 6: one task per included base, awaited one after the other.
EnqueueBackupBase(b) ==
  /\ startPc = "fanout"
  /\ b \in toEnqueue
  /\ toEnqueue' = toEnqueue \ {b}
  /\ task' = [task EXCEPT ![b] = "queued"]
  /\ UNCHANGED <<rowVars, age, origin, startPc, attempt, posts,
                 finishing, cancelVars, sweepVars, deletePc, faults>>

\* Step 7, updateRunTriggerIds: WHERE id only, overwrites the column.
UpdateRunTriggerIds ==
  /\ startPc = "fanout"
  /\ toEnqueue = {}
  /\ startPc' = "ok"
  /\ triggerRunIds' = IF status = "gone" THEN triggerRunIds ELSE Bases
  /\ UNCHANGED <<status, errorMessage, added, pages, reported, age, origin, toEnqueue,
                 taskVars, finishing, cancelVars, sweepVars, deletePc, faults>>

\* An await of the start request throws (database, Trigger.dev), or the
\* Worker dies under it.
StartThrows ==
  /\ startPc \in {"called", "checked", "fanout"}
  /\ Fault
  /\ startPc' = "threw"
  /\ UNCHANGED <<rowVars, age, origin, toEnqueue, taskVars, finishing,
                 cancelVars, sweepVars, deletePc>>

\* The caller undoes its INSERT.  The SpaceDO alarm and the fallback route
\* do so when processRunStart returns ok:false, apps/web also when the call
\* itself failed (engine_error, engine_unreachable).  DELETE ... WHERE id.
RollbackRun ==
  /\ \/ startPc = "rejected"
     \/ startPc = "threw" /\ origin = "web"
  /\ startPc' = "done"
  /\ status' = "gone"
  /\ UNCHANGED <<triggerRunIds, errorMessage, added, pages, reported, age, origin,
                 toEnqueue, taskVars, finishing, cancelVars, sweepVars,
                 deletePc, faults>>

\* The rollback itself fails (swallowed), or its process is gone.
RollbackLost ==
  /\ \/ startPc = "rejected" /\ Fault
     \/ startPc = "threw" /\ origin = "web" /\ Fault
     \/ startPc = "threw" /\ origin = "engine" /\ UNCHANGED faults
  /\ startPc' = "done"
  /\ UNCHANGED <<rowVars, age, origin, toEnqueue, taskVars, finishing,
                 cancelVars, sweepVars, deletePc>>

-----------------------------------------------------------------------------
(* The Trigger.dev tasks: trigger/tasks/backup-base.task.ts on the         *)
(* platform of trigger.config.ts.                                          *)

TaskBegin(b) ==
  /\ task[b] = "queued"
  /\ task' = [task EXCEPT ![b] = "executing"]
  /\ UNCHANGED <<rowVars, age, startVars, attempt, posts, finishing,
                 cancelVars, sweepVars, deletePc, faults>>

\* postProgress and the handler's one statement: the counters move only
\* while the row is running.
Progress(b) ==
  /\ task[b] = "executing"
  /\ status = "running"
  /\ pages[b] < MaxPages
  /\ pages' = [pages EXCEPT ![b] = @ + 1]
  /\ UNCHANGED <<status, triggerRunIds, errorMessage, added, reported, age, startVars,
                 taskVars, finishing, cancelVars, sweepVars, deletePc, faults>>

\* runBackupBase returns or throws; either way postCompletion sends one result.
PostCompletion(b) ==
  /\ task[b] = "executing"
  /\ \E r \in Outcomes :
       posts' = posts \cup {<<b, attempt[b], r>>}
  /\ task' = [task EXCEPT ![b] = "posting"]
  /\ UNCHANGED <<rowVars, age, startVars, attempt, finishing, cancelVars,
                 sweepVars, deletePc, faults>>

\* The POST does not arrive; the task swallows the transport error.
PostLost(b) ==
  /\ \E p \in posts : p[1] = b /\ posts' = posts \ {p}
  /\ Fault
  /\ UNCHANGED <<rowVars, age, startVars, task, attempt, finishing,
                 cancelVars, sweepVars, deletePc>>

\* The fetch of postCompletion has settled, so the task returns.
TaskReturns(b) ==
  /\ task[b] = "posting"
  /\ \A p \in posts : ~ (p[1] = b /\ p[2] = attempt[b])
  /\ finishing[b] = "none"
  /\ task' = [task EXCEPT ![b] = "completed"]
  /\ UNCHANGED <<rowVars, age, startVars, attempt, posts, finishing,
                 cancelVars, sweepVars, deletePc, faults>>

\* Trigger.dev retries up to maxAttempts.
RetriesLeftOffByOne(b) == attempt[b] <= MaxAttempts
RetriesLeft(b) == attempt[b] < MaxAttempts

\* The platform loses the task: a crash it retries while attempts are left,
\* or a terminal CRASHED, TIMED_OUT, EXPIRED or SYSTEM_FAILURE.
TaskKilled(b) ==
  /\ task[b] \in TaskLive
  /\ Fault
  /\ \/ /\ RetriesLeft(b)
        /\ task[b] # "queued"
        /\ task' = [task EXCEPT ![b] = "queued"]
        /\ attempt' = [attempt EXCEPT ![b] = @ + 1]
     \/ /\ task' = [task EXCEPT ![b] = "dead"]
        /\ UNCHANGED attempt
  /\ UNCHANGED <<rowVars, age, startVars, posts, finishing,
                 cancelVars, sweepVars, deletePc>>

-----------------------------------------------------------------------------
(* POST /complete: lib/runs/complete.ts, pages/api/internal/runs/complete.ts *)

\* The status the last callback writes: a failure of any base wins, then the
\* status this callback reports.
FinalStatusLastWins(error, mine) == mine
FinalStatus(error, mine) == IF error # "none" THEN "failed" ELSE mine

\* The guard of applyPerBaseCompletion, `trigger_run_ids ? id`.  A row that
\* is gone, ids not recorded yet or an id consumed before do not match.
CompletionMatchesAnyId(b) == status # "gone" /\ triggerRunIds # NULL
CompletionMatches(b) == CompletionMatchesAnyId(b) /\ b \in triggerRunIds

\* applyPerBaseCompletion, one UPDATE; when it does not match, the request
\* ends as a 404 or a noop.
Complete(b) ==
  \E p \in posts :
    LET failure == IF p[3] = "failed" THEN "base_failure" ELSE "none"
        error   == Coalesce(errorMessage, failure)
    IN
    /\ p[1] = b
    /\ posts' = posts \ {p}
    /\ \/ ~ CompletionMatches(b) /\ UNCHANGED <<triggerRunIds, errorMessage, added, reported, finishing>>
       \/ /\ CompletionMatches(b)
          /\ triggerRunIds' = triggerRunIds \ {b}
          /\ added' = [added EXCEPT ![b] = @ + 1]
          /\ reported' = [reported EXCEPT ![b] = p[3]]
          /\ errorMessage' = error
          /\ finishing' = IF triggerRunIds \ {b} = {}
                          THEN [finishing EXCEPT ![b] = FinalStatus(error, p[3])]
                          ELSE finishing
    /\ UNCHANGED <<status, pages, age, startVars, task, attempt,
                   cancelVars, sweepVars, deletePc, faults>>

\* finalizeRun: WHERE id only.
FinalizeRun(b) ==
  /\ finishing[b] # "none"
  /\ status' = IF status = "gone" THEN "gone" ELSE finishing[b]
  /\ finishing' = [finishing EXCEPT ![b] = "none"]
  /\ UNCHANGED <<triggerRunIds, errorMessage, added, pages, reported, age, startVars,
                 taskVars, cancelVars, sweepVars, deletePc, faults>>

\* The handler dies or a statement between the two UPDATEs throws (the
\* snapshot inserts, the connection update); the task ignores the 500.
FinalizeLost(b) ==
  /\ finishing[b] # "none"
  /\ Fault
  /\ finishing' = [finishing EXCEPT ![b] = "none"]
  /\ UNCHANGED <<rowVars, age, startVars, taskVars, cancelVars, sweepVars,
                 deletePc>>

-----------------------------------------------------------------------------
(* POST /cancel: lib/runs/cancel.ts, pages/api/internal/runs/cancel.ts.    *)

CancelRead(c) ==
  /\ cancelPc[c] = "called"
  /\ IF status \in NonTerminal
     THEN /\ cancelPc' = [cancelPc EXCEPT ![c] = "read"]
          /\ cancelIds' = [cancelIds EXCEPT
                             ![c] = IF triggerRunIds = NULL THEN {} ELSE triggerRunIds]
     ELSE /\ cancelPc' = [cancelPc EXCEPT ![c] = "refused"]
          /\ UNCHANGED cancelIds
  /\ UNCHANGED <<rowVars, age, startVars, taskVars, finishing, sweepVars,
                 deletePc, faults>>

\* markRunCancelling: the compare-and-set on status.
MarkRunCancelling(c) ==
  /\ cancelPc[c] = "read"
  /\ IF status \in NonTerminal
     THEN /\ status' = "cancelling"
          /\ cancelPc' = [cancelPc EXCEPT ![c] = "won"]
     ELSE /\ cancelPc' = [cancelPc EXCEPT ![c] = "refused"]
          /\ UNCHANGED status
  /\ UNCHANGED <<triggerRunIds, errorMessage, added, pages, reported, age, startVars,
                 taskVars, finishing, cancelIds, sweepVars, deletePc, faults>>

\* cancelTriggerRun for one id of the earlier read.  A cancelled task either
\* just stops or still posts the failure of its aborted await; a failed API
\* call is swallowed.
CancelTask(c, b) ==
  /\ cancelPc[c] = "won"
  /\ b \in cancelIds[c]
  /\ cancelIds' = [cancelIds EXCEPT ![c] = @ \ {b}]
  /\ \/ /\ task[b] \in TaskLive
        /\ task' = [task EXCEPT ![b] = "dead"]
        /\ \/ UNCHANGED posts
           \/ /\ task[b] = "executing"
              /\ posts' = posts \cup {<<b, attempt[b], "failed">>}
        /\ UNCHANGED faults
     \/ task[b] \in TaskTerminal /\ UNCHANGED <<task, posts, faults>>
     \/ Fault /\ UNCHANGED <<task, posts>>
  /\ UNCHANGED <<rowVars, age, startVars, attempt, finishing, cancelPc,
                 sweepVars, deletePc>>

\* What markRunCancelled leaves in the status column.
StatusAfterCancel == IF status = "cancelling" THEN "cancelled" ELSE status

\* markRunCancelled: guarded by status = 'cancelling', its row count ignored.
MarkRunCancelled(c) ==
  /\ cancelPc[c] = "won"
  /\ cancelIds[c] = {}
  /\ cancelPc' = [cancelPc EXCEPT ![c] = "acked"]
  /\ status' = StatusAfterCancel
  /\ UNCHANGED <<triggerRunIds, errorMessage, added, pages, reported, age, startVars,
                 taskVars, finishing, cancelIds, sweepVars, deletePc, faults>>

CancelCrash(c) ==
  /\ cancelPc[c] \in {"read", "won"}
  /\ Fault
  /\ cancelPc' = [cancelPc EXCEPT ![c] = "crashed"]
  /\ UNCHANGED <<rowVars, age, startVars, taskVars, finishing, cancelIds,
                 sweepVars, deletePc>>

-----------------------------------------------------------------------------
(* The reconciliation sweep: lib/runs/reconcile.ts, reconcile-sweep.ts,    *)
(* reconcile-deps.ts.                                                      *)

\* decideReconciliation for a row `run` and its task states: "none" leaves
\* the run alone, "fail" is the failure without a completion, the other two
\* finish a run whose completions all landed.
DecideOnAge(run, allTerminal) ==
  LET noTasks == run.ids = NULL \/ (run.ids = {} /\ run.status = "queued") IN
  IF run.age = 0 THEN "none"
  ELSE IF noTasks THEN IF run.age = 2 THEN "fail" ELSE "none"
  ELSE IF run.ids = {} THEN IF run.err # "none" THEN "failed" ELSE "succeeded"
  ELSE "fail"
DecideTrackedOnly(run, allTerminal) ==
  IF run.age = 0 \/ run.ids = NULL THEN "none"
  ELSE IF run.ids = {} THEN IF run.err # "none" THEN "failed" ELSE "succeeded"
  ELSE IF allTerminal THEN "fail" ELSE "none"
DecideReconciliation(run, allTerminal) ==
  LET noTasks == run.ids = NULL \/ (run.ids = {} /\ run.status = "queued") IN
  IF run.age = 0 THEN "none"
  ELSE IF noTasks THEN IF run.age = 2 THEN "fail" ELSE "none"
  ELSE IF run.ids = {} THEN IF run.err # "none" THEN "failed" ELSE "succeeded"
  ELSE IF allTerminal THEN "fail" ELSE "none"

\* listStuckRuns: the row as it is now, only while it is queued or running.
\* Its 10-minute prefilter is implied by the 15-minute window.
ListStuckRuns ==
  /\ sweepPc = "idle"
  /\ age > 0
  /\ status \in NonTerminal
  /\ sweepPc' = "read"
  /\ sweepRun' = [status |-> status, ids |-> triggerRunIds, err |-> errorMessage,
                  age |-> age]
  /\ UNCHANGED <<rowVars, age, startVars, taskVars, finishing, cancelVars,
                 sweepDecision, deletePc, faults>>

\* lookupTaskStatuses and decideReconciliation.  The ids are looked up one
\* by one, but a terminal state is final, so "all terminal" at the last
\* lookup is what counts; a failed lookup leaves the run alone.
LookupAndDecide ==
  LET ids == IF sweepRun.ids = NULL THEN {} ELSE sweepRun.ids
      decision == DecideReconciliation(sweepRun, \A b \in ids : task[b] \in TaskTerminal)
  IN
  /\ sweepPc = "read"
  /\ \/ /\ decision # "none"
        /\ sweepPc' = "decided"
        /\ sweepDecision' = decision
        /\ UNCHANGED faults
     \/ /\ \/ decision = "none" /\ UNCHANGED faults
           \/ ids # {} /\ Fault
        /\ sweepPc' = "idle"
        /\ UNCHANGED sweepDecision
  /\ sweepRun' = NoRun
  /\ UNCHANGED <<rowVars, age, startVars, taskVars, finishing, cancelVars,
                 deletePc>>

\* error_message after applyDecision: COALESCE(existing, reason) on a failure.
ErrorAfterDecision ==
  IF sweepDecision = "fail" THEN Coalesce(errorMessage, "reconciled") ELSE errorMessage

\* applyDecision: UPDATE ... WHERE status IN ('queued','running').
ApplyDecision ==
  /\ sweepPc = "decided"
  /\ sweepPc' = "idle"
  /\ sweepDecision' = "none"
  /\ IF status \in NonTerminal
     THEN /\ status' = IF sweepDecision = "fail" THEN "failed" ELSE sweepDecision
          /\ errorMessage' = ErrorAfterDecision
     ELSE UNCHANGED <<status, errorMessage>>
  /\ UNCHANGED <<triggerRunIds, added, pages, reported, age, startVars, taskVars,
                 finishing, cancelVars, sweepRun, deletePc, faults>>

-----------------------------------------------------------------------------
(* Deleting a finished run: lib/runs/delete.ts, delete-deps.ts, the routes *)
(* runs/delete.ts and runs/delete-complete.ts, task delete-run-files.      *)

\* The row must be terminal; the storage prefixes are computed here, before
\* the compare-and-set.
DeleteRead ==
  /\ deletePc = "called"
  /\ deletePc' = IF status \in Terminal THEN "read" ELSE "refused"
  /\ UNCHANGED <<rowVars, age, startVars, taskVars, finishing, cancelVars,
                 sweepVars, faults>>

MarkRunDeleting ==
  /\ deletePc = "read"
  /\ IF status \in Terminal
     THEN status' = "deleting" /\ deletePc' = "marked"
     ELSE deletePc' = "refused" /\ UNCHANGED status
  /\ UNCHANGED <<triggerRunIds, errorMessage, added, pages, reported, age, startVars,
                 taskVars, finishing, cancelVars, sweepVars, faults>>

EnqueueDeleteRunFiles ==
  /\ deletePc = "marked"
  /\ deletePc' = "task"
  /\ UNCHANGED <<rowVars, age, startVars, taskVars, finishing, cancelVars,
                 sweepVars, faults>>

\* What the guarded DELETE of /delete-complete leaves of the row.
StatusAfterDeleteWrongGuard == IF status \in Terminal THEN "gone" ELSE status
StatusAfterDelete == IF status = "deleting" THEN "gone" ELSE status

\* The files are gone: /delete-complete with ok:true removes the row, unless
\* its status is no longer 'deleting'.
DeleteComplete ==
  /\ deletePc = "task"
  /\ deletePc' = "done"
  /\ status' = StatusAfterDelete
  /\ UNCHANGED <<triggerRunIds, errorMessage, added, pages, reported, age, startVars,
                 taskVars, finishing, cancelVars, sweepVars, faults>>

\* The enqueue throws, a prefix cannot be removed (ok:false), or the post to
\* /delete-complete is lost: nothing revisits a 'deleting' row.
DeleteFails ==
  /\ deletePc \in {"marked", "task"}
  /\ Fault
  /\ deletePc' = "stuck"
  /\ UNCHANGED <<rowVars, age, startVars, taskVars, finishing, cancelVars,
                 sweepVars>>

-----------------------------------------------------------------------------

\* A reconciliation window passes.  Requests take seconds and the windows 15
\* and 45 minutes, so none of the run's requests is open across a whole
\* window; tasks and the sweep's snapshot may be.
RequestOpen ==
  \/ startPc \notin {"ok", "done"}
  \/ \E c \in Cancels : cancelPc[c] \in {"read", "won"}
  \/ \E b \in Bases : finishing[b] # "none"

Tick ==
  /\ age < 2
  /\ ~ RequestOpen
  /\ age' = age + 1
  /\ UNCHANGED <<rowVars, startVars, taskVars, finishing, cancelVars, sweepVars,
                 deletePc, faults>>

\* Everything has stopped for good: the run is at rest.
AtRest ==
  /\ status \notin NonTerminal
  /\ ~ RequestOpen
  /\ posts = {}
  /\ \A b \in Bases : task[b] \in {"none"} \cup TaskTerminal
  /\ sweepPc = "idle"
  /\ UNCHANGED vars

StartStep == \/ StartCheck \/ UpdateRunStarted \/ UpdateRunTriggerIds
             \/ \E b \in Bases : EnqueueBackupBase(b)
CallerStep == RollbackRun \/ RollbackLost
TaskStep(b) == TaskBegin(b) \/ Progress(b) \/ PostCompletion(b) \/ TaskReturns(b)
CompleteStep(b) == Complete(b) \/ FinalizeRun(b)
CancelStep(c) == \/ MarkRunCancelling(c) \/ MarkRunCancelled(c)
                 \/ \E b \in Bases : CancelTask(c, b)
SweepStep == ListStuckRuns \/ LookupAndDecide \/ ApplyDecision
DeleteStep == MarkRunDeleting \/ EnqueueDeleteRunFiles \/ DeleteComplete
FaultStep == \/ StartThrows \/ DeleteFails
             \/ \E b \in Bases : PostLost(b) \/ TaskKilled(b) \/ FinalizeLost(b)
             \/ \E c \in Cancels : CancelCrash(c)

Next ==
  \/ StartStep \/ CallerStep
  \/ \E b \in Bases : TaskStep(b) \/ CompleteStep(b)
  \/ \E c \in Cancels : CancelRead(c) \/ CancelStep(c)
  \/ SweepStep
  \/ DeleteRead \/ DeleteStep
  \/ FaultStep
  \/ Tick
  \/ AtRest

Spec == Init /\ [][Next]_vars

\* The engine's requests run to their end unless a fault stops them, the
\* platform runs every task (maxDuration) and delivers the posts, the cron
\* fires for ever and the clock advances.  Whether a user cancels or deletes
\* is never assumed.
Fairness ==
  /\ WF_vars(StartStep) /\ WF_vars(CallerStep)
  /\ \A b \in Bases : WF_vars(TaskStep(b)) /\ WF_vars(CompleteStep(b))
  /\ \A c \in Cancels : WF_vars(CancelStep(c))
  /\ WF_vars(SweepStep) /\ WF_vars(DeleteStep) /\ WF_vars(Tick)

FairSpec == Spec /\ Fairness

-----------------------------------------------------------------------------
(* What holds.                                                             *)

\* trigger_run_ids is a pending-completions set: once recorded it holds
\* exactly the bases whose totals are not in the counters yet, whatever is
\* retried, duplicated or lost, and no base is ever counted twice.
PendingLedger ==
  \A b \in Bases :
    /\ added[b] = IF reported[b] = "none" THEN 0 ELSE 1
    /\ IF triggerRunIds = NULL THEN added[b] = 0
                              ELSE b \in triggerRunIds <=> added[b] = 0

\* A successful status means /complete consumed a successful result of every
\* base, also when the sweep, not the last callback, wrote the status.
SuccessMeansDelivered ==
  status \in Success => \A b \in Bases : reported[b] \in Success

\* A failed run carries an error message, whichever actor failed it: the
\* last callback, the sweep's own reason, or its recovery of a lost finalize.
FailedRunHasReason == status = "failed" => errorMessage # "none"

\* The sweep decides on a row read earlier.  Until it writes, its failure
\* stays right about the tasks the row then has pending: none of them can
\* still report.
FailDecisionIsSafe ==
  (sweepDecision = "fail" /\ triggerRunIds # NULL) =>
     \A b \in triggerRunIds : task[b] \in TaskTerminal

\* No actor revisits 'cancelling' and 'deleting' rows, so a row stays in one
\* of them only while its request is running or after that request died.
StrandedOnlyByCrash ==
  /\ status = "cancelling" => \E c \in Cancels : cancelPc[c] \in {"won", "crashed"}
  /\ status = "deleting" => deletePc \in {"marked", "task", "stuck"}

\* "No run can sit in 'running' forever": whatever crashes or is lost, the
\* run leaves queued and running for good.
EventuallySettles == <>[](status \notin NonTerminal)

\* As long as nothing is lost or dies, every run comes to rest in a terminal
\* status or is gone; cancelling and deleting are passed through.
EveryRunRests == ([](faults = 0)) => <>[](status \in Terminal \cup {"gone"})

=============================================================================
