-------------------------- MODULE RestoreLifecycle --------------------------
(***************************************************************************)
(* The life of one restore_runs row: apps/web inserts it and asks the      *)
(* engine to start it, the engine enqueues one restore-base task, the task *)
(* reports to /complete, a user may cancel, and the reconciliation sweep   *)
(* of the 15-minute cron looks after rows nobody finishes.                      *)
(*                                                                         *)
(* Every database statement is one step; between two awaits the actors     *)
(* interleave.  A restore has one task, so trigger_run_ids is {} (also the *)
(* column's default, unlike backup_runs where it starts as NULL) or {Task}.*)
(***************************************************************************)
EXTENDS Naturals

CONSTANTS
  Task,         \* the Trigger.dev id of the restore-base task
  MaxAttempts,  \* attempts Trigger.dev gives a task (trigger.config.ts)
  MaxPages,     \* bound: tables the task posts progress for
  MaxFaults     \* bound: crashes, lost requests and failed calls together

ASSUME RestoreBounds ==
  MaxAttempts \in Nat \ {0} /\ MaxPages \in Nat /\ MaxFaults \in Nat

VARIABLES
  status,         \* restore_runs.status; "gone" once web deleted the row
  triggerRunIds,  \* restore_runs.trigger_run_ids
  errorMessage,   \* restore_runs.error_message, or "none"
  credited,       \* times /complete added the task's totals to the counters
  pages,          \* times /progress added a table to the counters
  age,            \* of started_at ?? created_at: 0 <15min, 1 <60min, 2 older
  webPc,          \* the POST /restore request of apps/web
  startPc,        \* the engine's start request
  task, attempt,  \* the restore-base task and its attempt
  posts,          \* completions on their way, by attempt and result
  reported,       \* the result /complete consumed
  finishing,      \* the final status a /complete handler still has to write
  cancelPc, cancelIds,       \* the cancel request; the ids it read and asked to stop
  sweepPc, sweepRow, sweepDecision,  \* the sweep, the row it read, its decision
  faults

row  == <<status, triggerRunIds, errorMessage, credited, pages>>
job  == <<task, attempt, posts>>
cncl == <<cancelPc, cancelIds>>
swp  == <<sweepPc, sweepRow, sweepDecision>>
vars == <<row, age, webPc, startPc, job, reported, finishing, cncl, swp, faults>>

NonTerminal == {"queued", "running"}
Terminal    == {"succeeded", "failed", "cancelled"}
Results     == {"succeeded", "failed"}
TaskLive    == {"queued", "executing", "posting"}
TaskOver    == {"completed", "dead"}

TypeOK ==
  /\ status \in NonTerminal \cup Terminal \cup {"cancelling", "gone"}
  /\ triggerRunIds \in SUBSET {Task}
  /\ errorMessage \in {"none", "base_failure", "reconciled"}
  /\ credited \in Nat
  /\ pages \in 0..MaxPages
  /\ age \in 0..2
  /\ webPc \in {"waiting", "ok", "undone", "dead"}
  /\ startPc \in {"called", "checked", "started", "enqueued", "ok", "refused", "threw"}
  /\ task \in {"none"} \cup TaskLive \cup TaskOver
  /\ attempt \in 1..MaxAttempts
  /\ posts \in SUBSET ((1..MaxAttempts) \X Results)
  /\ reported \in Results \cup {"none"}
  /\ finishing \in Results \cup {"none"}
  /\ cancelPc \in {"none", "read", "won", "asked", "acked", "refused", "dead"}
  /\ cancelIds \in SUBSET {Task}
  /\ sweepPc \in {"idle", "read", "decided"}
  /\ sweepRow \in [status : NonTerminal \cup {"gone"}, ids : SUBSET {Task},
                   error : {"none", "base_failure", "reconciled"}, age : 0..2]
  /\ sweepDecision \in Results \cup {"none", "fail"}
  /\ faults \in 0..MaxFaults

\* The row as insertRestoreRun leaves it.
Init ==
  /\ status = "queued"
  /\ triggerRunIds = {}
  /\ errorMessage = "none"
  /\ credited = 0
  /\ pages = 0
  /\ age = 0
  /\ webPc = "waiting"
  /\ startPc = "called"
  /\ task = "none"
  /\ attempt = 1
  /\ posts = {}
  /\ reported = "none"
  /\ finishing = "none"
  /\ cancelPc = "none"
  /\ cancelIds = {}
  /\ sweepPc = "idle"
  /\ sweepRow = [status |-> "gone", ids |-> {}, error |-> "none", age |-> 0]
  /\ sweepDecision = "none"
  /\ faults = 0

Fault == faults < MaxFaults /\ faults' = faults + 1

\* SQL COALESCE on error_message: the first message stays.
Sticky(message) == IF errorMessage = "none" THEN message ELSE errorMessage

\* An UPDATE ... WHERE id finds no row once it is deleted.
SetStatus(s) == status' = IF status = "gone" THEN "gone" ELSE s

-----------------------------------------------------------------------------
(* apps/web: POST /api/spaces/:id/restore, after its INSERT.               *)

\* The engine answered 202.
WebAnswered ==
  /\ webPc = "waiting" /\ startPc = "ok"
  /\ webPc' = "ok"
  /\ UNCHANGED <<row, age, startPc, job, reported, finishing, cncl, swp, faults>>

\* Any other answer, an error of the engine and no answer at all included:
\* the row is deleted, whatever the engine had done by then.
DeleteRestoreRun ==
  /\ webPc = "waiting" /\ startPc \in {"refused", "threw"}
  /\ webPc' = "undone"
  /\ status' = "gone"
  /\ UNCHANGED <<triggerRunIds, errorMessage, credited, pages, age, startPc, job, reported,
                 finishing, cncl, swp, faults>>

\* The Worker dies, or its DELETE fails and the failure is swallowed.
WebDies ==
  /\ webPc = "waiting"
  /\ Fault
  /\ webPc' = "dead"
  /\ UNCHANGED <<row, age, startPc, job, reported, finishing, cncl, swp>>

-----------------------------------------------------------------------------
(* The engine's start request: lib/restores/start.ts, start-deps.ts.       *)

\* The row must be queued.  Connection, storage, source run and base name
\* are data of other tables: whether they pass is free.
StartCheck ==
  /\ startPc = "called"
  /\ \/ status = "queued" /\ startPc' = "checked"
     \/ startPc' = "refused"
  /\ UNCHANGED <<row, age, webPc, job, reported, finishing, cncl, swp, faults>>

\* updateRestoreRunStarted: by id only, the status is not checked again.
UpdateRestoreRunStarted ==
  /\ startPc = "checked"
  /\ startPc' = "started"
  /\ SetStatus("running")
  /\ age' = 0
  /\ UNCHANGED <<triggerRunIds, errorMessage, credited, pages, webPc, job, reported,
                 finishing, cncl, swp, faults>>

EnqueueRestoreBase ==
  /\ startPc = "started"
  /\ startPc' = "enqueued"
  /\ task' = "queued"
  /\ UNCHANGED <<row, age, webPc, attempt, posts, reported, finishing, cncl, swp, faults>>

\* updateRestoreRunTriggerIds: by id only, overwrites the column.
UpdateRestoreRunTriggerIds ==
  /\ startPc = "enqueued"
  /\ startPc' = "ok"
  /\ triggerRunIds' = IF status = "gone" THEN triggerRunIds ELSE {Task}
  /\ UNCHANGED <<status, errorMessage, credited, pages, age, webPc, job, reported,
                 finishing, cncl, swp, faults>>

\* An await throws, or the Worker dies under the request; or the request
\* never reached the engine.
StartThrows ==
  /\ startPc \in {"called", "checked", "started", "enqueued"}
  /\ Fault
  /\ startPc' = "threw"
  /\ UNCHANGED <<row, age, webPc, job, reported, finishing, cncl, swp>>

-----------------------------------------------------------------------------
(* The task: restore-base.task.ts.                                         *)

TaskBegin ==
  /\ task = "queued"
  /\ task' = "executing"
  /\ UNCHANGED <<row, age, webPc, startPc, attempt, posts, reported, finishing,
                 cncl, swp, faults>>

\* postRestoreProgress after a table, and its handler (lib/restores/progress.ts):
\* the counters move only while the row is running.
Progress ==
  /\ task = "executing" /\ status = "running"
  /\ pages < MaxPages
  /\ pages' = pages + 1
  /\ UNCHANGED <<status, triggerRunIds, errorMessage, credited, age, webPc, startPc,
                 job, reported, finishing, cncl, swp, faults>>

\* runRestoreBase returns or throws; postCompletion sends one result.
PostCompletion ==
  /\ task = "executing"
  /\ task' = "posting"
  /\ \E r \in Results : posts' = posts \cup {<<attempt, r>>}
  /\ UNCHANGED <<row, age, webPc, startPc, attempt, reported, finishing, cncl, swp,
                 faults>>

\* A transport error is swallowed.
PostLost ==
  /\ \E p \in posts : posts' = posts \ {p}
  /\ Fault
  /\ UNCHANGED <<row, age, webPc, startPc, task, attempt, reported, finishing, cncl, swp>>

TaskReturns ==
  /\ task = "posting"
  /\ \A p \in posts : p[1] # attempt
  /\ finishing = "none"
  /\ task' = "completed"
  /\ UNCHANGED <<row, age, webPc, startPc, attempt, posts, reported, finishing,
                 cncl, swp, faults>>

RetriesLeftOffByOne == attempt <= MaxAttempts
RetriesLeft == attempt < MaxAttempts

\* The platform loses the task: it retries a started one while attempts are
\* left, or gives the task up (CRASHED, TIMED_OUT, EXPIRED).
TaskKilled ==
  /\ task \in TaskLive
  /\ Fault
  /\ \/ /\ task # "queued" /\ RetriesLeft
        /\ task' = "queued" /\ attempt' = attempt + 1
     \/ task' = "dead" /\ UNCHANGED attempt
  /\ UNCHANGED <<row, age, webPc, startPc, posts, reported, finishing, cncl, swp>>

-----------------------------------------------------------------------------
(* POST /complete: lib/restores/complete.ts and its route.                 *)

\* The guard of applyPerBaseCompletion, trigger_run_ids @> ARRAY[id].
CompletionMatchesAnyRow == status # "gone"
CompletionMatches == status # "gone" /\ Task \in triggerRunIds

FinalStatusForgetsFailure(error) == "succeeded"
FinalStatus(error) == IF error # "none" THEN "failed" ELSE "succeeded"

\* applyPerBaseCompletion, one UPDATE; the task is the only one, so the
\* same request goes on to finalize.
Complete ==
  \E p \in posts :
    LET error == IF p[2] = "failed" THEN Sticky("base_failure") ELSE errorMessage IN
    /\ posts' = posts \ {p}
    /\ \/ /\ ~ CompletionMatches
          /\ UNCHANGED <<triggerRunIds, errorMessage, credited, reported, finishing>>
       \/ /\ CompletionMatches
          /\ triggerRunIds' = triggerRunIds \ {Task}
          /\ errorMessage' = error
          /\ credited' = credited + 1
          /\ reported' = p[2]
          /\ finishing' = FinalStatus(error)
    /\ UNCHANGED <<status, pages, age, webPc, startPc, task, attempt, cncl, swp, faults>>

\* finalizeRestore: by id only.
FinalizeRestore ==
  /\ finishing # "none"
  /\ SetStatus(finishing)
  /\ finishing' = "none"
  /\ UNCHANGED <<triggerRunIds, errorMessage, credited, pages, age, webPc, startPc, job,
                 reported, cncl, swp, faults>>

FinalizeLost ==
  /\ finishing # "none"
  /\ Fault
  /\ finishing' = "none"
  /\ UNCHANGED <<row, age, webPc, startPc, job, reported, cncl, swp>>

-----------------------------------------------------------------------------
(* POST /cancel: lib/restores/cancel.ts and its route.                     *)

CancelRead ==
  /\ cancelPc = "none"
  /\ cancelPc' = IF status \in NonTerminal THEN "read" ELSE "refused"
  /\ cancelIds' = IF status \in NonTerminal THEN triggerRunIds ELSE {}
  /\ UNCHANGED <<row, age, webPc, startPc, job, reported, finishing, swp, faults>>

\* The compare-and-set on status.
MarkRestoreCancelling ==
  /\ cancelPc = "read"
  /\ IF status \in NonTerminal
     THEN status' = "cancelling" /\ cancelPc' = "won"
     ELSE UNCHANGED status /\ cancelPc' = "refused"
  /\ UNCHANGED <<triggerRunIds, errorMessage, credited, pages, age, webPc, startPc, job,
                 reported, finishing, cancelIds, swp, faults>>

\* A cancelled task just stops, or reports the failure of its aborted await;
\* a failed API call is swallowed.
CancelTriggerRun ==
  /\ cancelPc = "won" /\ cancelIds # {}
  /\ cancelPc' = "asked"
  /\ \/ /\ task \in TaskLive
        /\ task' = "dead"
        /\ \/ UNCHANGED posts
           \/ task = "executing" /\ posts' = posts \cup {<<attempt, "failed">>}
        /\ UNCHANGED <<cancelIds, faults>>
     \/ task \in TaskOver /\ UNCHANGED <<task, posts, cancelIds, faults>>
     \/ Fault /\ cancelIds' = {} /\ UNCHANGED <<task, posts>>
  /\ UNCHANGED <<row, age, webPc, startPc, attempt, reported, finishing, swp>>

TasksTold == cancelPc = "asked" \/ (cancelPc = "won" /\ cancelIds = {})

\* markRestoreCancelled: guarded by status = 'cancelling'.
MarkRestoreCancelled ==
  /\ TasksTold
  /\ cancelPc' = "acked"
  /\ status' = IF status = "cancelling" THEN "cancelled" ELSE status
  /\ UNCHANGED <<triggerRunIds, errorMessage, credited, pages, age, webPc, startPc, job,
                 reported, finishing, cancelIds, swp, faults>>

CancelDies ==
  /\ cancelPc \in {"read", "won", "asked"}
  /\ Fault
  /\ cancelPc' = "dead"
  /\ UNCHANGED <<row, age, webPc, startPc, job, reported, finishing, cancelIds, swp>>

-----------------------------------------------------------------------------
(* The reconciliation sweep, the same code as for backups: reconcile.ts,   *)
(* reconcile-sweep.ts, reconcile-deps.ts.                                  *)

\* decideReconciliation for a row read earlier and whether its task is over:
\* "none" leaves it alone, "fail" is a failure without a completion, a result
\* finishes a row whose completion landed.
DecideIgnoringTask(r, over) ==
  CASE r.age = 0 -> "none"
    [] r.age > 0 /\ r.ids = {} /\ r.status = "queued" ->
         IF r.age = 2 THEN "fail" ELSE "none"
    [] r.age > 0 /\ r.ids = {} /\ r.status = "running" ->
         IF r.error = "none" THEN "succeeded" ELSE "failed"
    [] OTHER -> "fail"
DecideTrackedOnly(r, over) ==
  CASE r.age = 0 \/ r.status = "queued" -> "none"
    [] r.age > 0 /\ r.ids = {} /\ r.status = "running" ->
         IF r.error = "none" THEN "succeeded" ELSE "failed"
    [] OTHER -> IF over THEN "fail" ELSE "none"
DecideReconciliation(r, over) ==
  CASE r.age = 0 -> "none"
    [] r.age > 0 /\ r.ids = {} /\ r.status = "queued" ->
         IF r.age = 2 THEN "fail" ELSE "none"
    [] r.age > 0 /\ r.ids = {} /\ r.status = "running" ->
         IF r.error = "none" THEN "succeeded" ELSE "failed"
    [] OTHER -> IF over THEN "fail" ELSE "none"

NoRow == [status |-> "gone", ids |-> {}, error |-> "none", age |-> 0]

ListStuckRuns ==
  /\ sweepPc = "idle"
  /\ age > 0
  /\ status \in NonTerminal
  /\ sweepPc' = "read"
  /\ sweepRow' = [status |-> status, ids |-> triggerRunIds, error |-> errorMessage,
                  age |-> age]
  /\ UNCHANGED <<row, age, webPc, startPc, job, reported, finishing, cncl,
                 sweepDecision, faults>>

\* lookupTaskStatuses and the decision; a failed lookup leaves the row alone.
LookupAndDecide ==
  LET decision == DecideReconciliation(sweepRow, task \in TaskOver) IN
  /\ sweepPc = "read"
  /\ \/ /\ decision # "none"
        /\ sweepPc' = "decided" /\ sweepDecision' = decision
        /\ UNCHANGED faults
     \/ /\ \/ decision = "none" /\ UNCHANGED faults
           \/ sweepRow.ids # {} /\ Fault
        /\ sweepPc' = "idle" /\ UNCHANGED sweepDecision
  /\ sweepRow' = NoRow
  /\ UNCHANGED <<row, age, webPc, startPc, job, reported, finishing, cncl>>

\* error_message after applyDecision: written on a failure only, and only
\* when there is none.
ErrorAfterDecision ==
  IF sweepDecision = "fail" THEN Sticky("reconciled") ELSE errorMessage

\* applyDecision: WHERE status IN ('queued','running').
ApplyDecision ==
  /\ sweepPc = "decided"
  /\ sweepPc' = "idle"
  /\ sweepDecision' = "none"
  /\ IF status \in NonTerminal
     THEN /\ status' = IF sweepDecision = "fail" THEN "failed" ELSE sweepDecision
          /\ errorMessage' = ErrorAfterDecision
     ELSE UNCHANGED <<status, errorMessage>>
  /\ UNCHANGED <<triggerRunIds, credited, pages, age, webPc, startPc, job, reported,
                 finishing, cncl, sweepRow, faults>>

-----------------------------------------------------------------------------

\* A sweep window passes.  Requests take seconds, the windows 15 and 45
\* minutes: no request is open across a whole window.
RequestOpen ==
  \/ startPc \in {"called", "checked", "started", "enqueued"}
  \/ webPc = "waiting"
  \/ cancelPc \in {"read", "won", "asked"}
  \/ finishing # "none"

Tick ==
  /\ age < 2 /\ ~ RequestOpen
  /\ age' = age + 1
  /\ UNCHANGED <<row, webPc, startPc, job, reported, finishing, cncl, swp, faults>>

AtRest ==
  /\ status \notin NonTerminal
  /\ ~ RequestOpen
  /\ posts = {} /\ task \notin TaskLive /\ sweepPc = "idle"
  /\ UNCHANGED vars

WebStep == WebAnswered \/ DeleteRestoreRun
StartStep == \/ StartCheck \/ UpdateRestoreRunStarted \/ EnqueueRestoreBase
             \/ UpdateRestoreRunTriggerIds
TaskStep == TaskBegin \/ Progress \/ PostCompletion \/ TaskReturns
CompleteStep == Complete \/ FinalizeRestore
CancelStep == MarkRestoreCancelling \/ CancelTriggerRun \/ MarkRestoreCancelled
SweepStep == ListStuckRuns \/ LookupAndDecide \/ ApplyDecision
FaultStep == WebDies \/ StartThrows \/ PostLost \/ TaskKilled \/ FinalizeLost \/ CancelDies

Next ==
  \/ WebStep \/ StartStep \/ TaskStep \/ CompleteStep
  \/ CancelRead \/ CancelStep
  \/ SweepStep \/ FaultStep \/ Tick \/ AtRest

Spec == Init /\ [][Next]_vars

\* Requests run to their end unless a fault stops them, the platform runs
\* the task and delivers its posts, the cron fires for ever.  Nothing is
\* assumed of the user.
FairSpec ==
  /\ Spec
  /\ WF_vars(WebStep) /\ WF_vars(StartStep) /\ WF_vars(TaskStep)
  /\ WF_vars(CompleteStep) /\ WF_vars(CancelStep) /\ WF_vars(SweepStep) /\ WF_vars(Tick)

-----------------------------------------------------------------------------
(* What holds.                                                             *)

\* The task's totals reach the counters at most once, whatever the platform
\* retries and whoever writes trigger_run_ids when; once its id is stored it
\* is pending until exactly that moment.
CreditedOnce ==
  /\ credited = IF reported = "none" THEN 0 ELSE 1
  /\ startPc = "ok" /\ status # "gone" => (triggerRunIds = {} <=> credited = 1)

\* A restore whose start request finished is reported as succeeded only when
\* /complete consumed a success of its task, the sweep's recovery of a lost
\* finalize included.
SuccessWasReported ==
  status = "succeeded" /\ startPc = "ok" => reported = "succeeded"

\* The sweep writes a failure for a row it read earlier; until it does, the
\* task the row then has pending cannot be at work.
SweepSparesLiveTask ==
  sweepDecision = "fail" /\ Task \in triggerRunIds => task \in TaskOver

\* However requests, posts and tasks are lost, a restore does not stay
\* queued or running for ever.
EventuallySettles == <>[](status \notin NonTerminal)

=============================================================================
