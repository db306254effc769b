# Verification of the BaseOut backup engine

BaseOut backs up Airtable bases. A user (apps/web) or a schedule (the SpaceDO
Durable Object of apps/server) inserts a `backup_runs` row. The engine
(apps/server, a Cloudflare Worker) fans it out to one Trigger.dev task per
included base (apps/workflows). The tasks read Airtable under a per-connection
lock held by the ConnectionDO Durable Object, with tokens that object
refreshes, and report to the engine over HTTP, which finalizes the row. Cron
jobs of the engine repair what was lost.

Everything that makes this correct is spread over processes that share
Postgres rows and call each other over HTTP, so the specifications here treat
each SQL statement, each Durable Object handler and each HTTP delivery as one
atomic step, and everything between two awaits as an interleaving point.

Contents: [1 inventory](#1-inventory), [2 modules](#2-modules),
[3 correspondence](#3-correspondence-with-the-code),
[4 runs](#4-model-checking-runs), [5 fairness](#5-fairness),
[6 proofs](#6-proofs), [7 findings](#7-findings),
[8 limits](#8-what-is-not-modelled), [9 plan](#9-plan).

## 1. Inventory

| Component | Source | State | Operations | What is hard | What makes it correct | Here |
|---|---|---|---|---|---|---|
| Backup run lifecycle | `apps/server/src/lib/runs`, `pages/api/internal/runs` | a `backup_runs` row: `status`, `trigger_run_ids` (the pending completions), `error_message`, counters | start, progress, complete, cancel, delete, delete-complete, reconciliation sweep | every handler awaits between its read and its write; completions are retried, duplicated, lost and late; nothing but the row coordinates the writers | totals counted once; success means every base delivered; a failure has a reason; every run leaves queued/running; nobody is left in cancelling/deleting | RunLifecycle |
| Manual backup start | `apps/web/src/lib/backup-runs/start.ts` | the row it inserts | insert, call the engine, roll back | the engine may have begun the fan-out when its answer is an error | no task survives a rolled back run | RunLifecycle |
| backup-base task wrapper | `apps/workflows/trigger/tasks/backup-base.task.ts`, `trigger.config.ts` | Trigger.dev task and attempt, the POST in flight | begin, progress, completion post, retry, kill, cancel | an attempt dies while its POST is under way and the next posts again | one result per base is consumed | RunLifecycle |
| Connection lock | `durable-objects/ConnectionDO.ts`, the lock loops of `backup-base.ts`, `restore-base.ts` | a flag in memory, an alarm in storage | tryLock, unlockNow, alarm; wait loop, release in `finally` | the flag has no owner, its TTL is shorter than the work, eviction loses it, releases get lost | two tasks do not use one connection at once; a lost lock comes back | ConnectionLock |
| Airtable connection, token refresh | `lib/connections`, `lib/airtable-refresh.ts`, `lib/cron/oauth-refresh-*`, `apps/web/src/lib/airtable` | a `connections` row: status, tokens, refresh claim, `pending_reauth_at` | claim, refresh, persist, mark, clear; reconnect, disconnect, task auth failure, daily invalidation | the refresh token works once; an evicted Durable Object's refresh goes on beside the next; the user and the cron write the same row | a token is never sent twice or lost by the system's own doing; a dead connection is declared dead, after the promised grace | AirtableConnection |
| Restore run lifecycle | `lib/restores`, `pages/api/internal/restores`, apps/web `restore.ts`, `restore-base.task.ts` | a `restore_runs` row | start, progress, complete, cancel, sweep | as for backup runs; the row is updated by id only in more places | totals credited once; success was reported; the sweep spares a live task; no row hangs | RestoreLifecycle |
| Space scheduler | `durable-objects/SpaceDO.ts`, `lib/scheduling` | one alarm, stored fires of two cron lanes, the webhook poll lane | set-frequency, set-webhook-polling, alarm, the PATCH behind them | one alarm for three lanes, at-least-once alarms, a change between the alarm's awaits | the alarm is the earliest lane; no fire is lost, or started twice without a redelivery | SpaceScheduler |
| Webhooks, incremental backup | `lib/webhooks`, `lib/cron/webhook-renewal.ts`, `apps/hooks`, `incremental-backup.ts` | subscription: cursor, dirty watermark, in-flight map | receive ping, poll pass, apply batch, move cursor, renew, fall back to full | ping during a pass; retry after the batch was applied; stale task moves the cursor | no ping is forgotten; the cursor is monotonic; one incremental run per base | WebhookPoll |
| Retention, snapshot cleanup | `lib/retention`, `cleanup-expired-snapshots.ts` | snapshots with their kind, age, prefixes | decide deletions, delete prefixes, mark deleted | one prefix of several fails; a run still referenced is chosen | never deletes what a policy keeps; never marks deleted with files left; a pass is final | Retention |
| Reports | `lib/reports`, `render-report.task.ts` | definition with its next fire, run rows with their windows, delivery rows | sweep, backup hook, run now, edit, render callback, mail, resend | three callers compute a window from the same chain; a retried callback mails again | no backup falls between two windows; a due fire is taken; the rows account for the mails | Reports |
| Per-Space database provisioning | `lib/provisioning` | provisioning state of a Space database | provision, upgrade | crash between the external resource and the row | ends ready or failed; one database per Space | not modelled |
| Entitlements, metering, quota | `lib/entitlements`, `apps/api/src/lib/quota.ts` | usage rollups, credit ledger | record, enforce, debit | a retried post metered twice | usage counted once | not modelled |
| Rediscovery | `lib/rediscovery`, `lib/workspaces` | discovered bases | upserts | small | idempotent | not modelled |
| Data capture | `airtable-client.ts`, `attachment-downloader.ts` | files | page, encode, download, upload | Airtable and storage I/O | content | not modelled |
| AI, health scoring, relationships | tasks of apps/workflows | results of model calls | request, store | small | content | not modelled |
| Public API | `apps/api` | none of its own | proxied reads and writes | small | authorisation | not modelled |
| User interfaces | apps/web, admin, support, embed | sessions | pages | small | content | not modelled |

How they interact: apps/web and SpaceDO insert rows and call `start`; `start`
enqueues tasks at Trigger.dev; tasks call ConnectionDO (`/lock`, `/unlock`,
`/token`) and the engine (`/progress`, `/complete`) through internal routes;
cancel and delete call Trigger.dev and write the row; the `*/15` cron runs the
token sweep and the reconciliation sweep; a daily cron invalidates connections.
The shared state is the Postgres rows. There are no transactions across
statements: the only protection is the WHERE clause of each UPDATE, and which
UPDATEs have one is what most of the properties below are about.

`PROJECT.json` lists the hazards of this code at the lines where they bite,
with the properties that would catch each.

## 2. Modules

| Module | What it is |
|---|---|
| `BackupRun` | abstract: what one backup run promises to those who look at it |
| `RunLifecycle` | one `backup_runs` row and every actor that writes it |
| `RunRefinement` | the refinement mapping: RunLifecycle implements BackupRun |
| `ConnectionLease` | abstract: a lease of one connection with an owner |
| `ConnectionLock` | the lock of one connection and the tasks that contend for it |
| `LockRefinement` | the refinement mapping: ConnectionLock implements ConnectionLease |
| `AirtableConnection` | one `connections` row, its refresh claim and every actor that writes it |
| `SpaceScheduler` | the alarm of one Space with its three lanes, and the requests that change the schedule |
| `WebhookPoll` | the way of a change from Airtable to the Space's database: ping, poll pass, incremental task, cursor, fallback |
| `RestoreLifecycle` | one `restore_runs` row and every actor that writes it |
| `Retention` | the snapshots of one Space: the policy's decision, the cleanup pass, the user's deletions |
| `Reports` | one report definition: schedule, window chain, render task, mails |
| `MC...` | the instance for TLC (symmetry sets, small calendars, request bodies) |
| `...Proofs` | the theorems of the module, with their inductive invariants |

The components meet in narrow places. A run's task holds the lock while it
executes: RunLifecycle lets a task execute for any time and fail for any
reason, which includes `lock_unavailable`; ConnectionLock lets tasks start, work
and die at any time. A completion with an authorization failure moves the
connection to `pending_reauth`: AirtableConnection has that step
(`MarkConnectionPendingReauth`) at any time. SpaceScheduler dispatches runs and
poll passes; what becomes of them is in RunLifecycle (origin `engine`) and in
WebhookPoll, where a pass may come at any time. The full re-read of a webhook
fallback is a run of RunLifecycle that WebhookPoll only sees succeed, fail or
take long. Retention and Reports see backup runs start and finish, at any time
and in any order. Each module is therefore an over-approximation of its
component inside the composed system.

## 3. Correspondence with the code

`PROJECT.json` maps every definition to its lines. In outline:

**RunLifecycle.** The row is `status`, `triggerRunIds`, `errorMessage` and the
counters. A counter is kept as what was added to it: `pages[b]` increments by
`/progress`, `added[b]` times the totals of a base by `/complete`.
`status = "gone"` is a deleted row, on which every UPDATE is a no-op.
- `processRunStart` is `StartCheck`, `UpdateRunStarted`, one
  `EnqueueBackupBase` per base and `UpdateRunTriggerIds`; `StartThrows` is an
  error or a dead Worker at any of its awaits. The caller then rolls back or
  does not (`RollbackRun`, `RollbackLost`), which differs between apps/web and the
  engine's own callers, hence `origin`. The bases are enqueued in any order:
  the order of the configuration is data.
- A task begins, posts progress, posts its one result and returns when the
  fetch settles. `TaskKilled` is a retry while attempts are left, or a terminal
  platform state. A POST in flight is an element of `posts`: `Complete` consumes it at
  any time, also when its attempt is already dead.
- `/complete` is two UPDATEs with awaits between them: `Complete` consumes the
  id (guard `trigger_run_ids ? id`) and decides the final status, `FinalizeRun`
  writes it with no guard but the id. `FinalizeLost` is anything that throws between.
- Cancel is `CancelRead`, the compare-and-set `MarkRunCancelling`, one
  `CancelTask` per id *of the earlier read*, `MarkRunCancelled`.
- The sweep is `ListStuckRuns` (a snapshot of the row), `LookupAndDecide`,
  `ApplyDecision`, three steps other actors come between.
- Delete is `DeleteRead`, `MarkRunDeleting`, `EnqueueDeleteRunFiles`,
  `DeleteComplete`, with `DeleteFails` for everything that leaves it half-way.
- Time is `age`, the two windows of `decideReconciliation` (15 and 60 minutes).
  `Tick` does not pass while an HTTP request is open: Worker requests live for
  seconds. Tasks and the sweep's snapshot do stay across windows.

**ConnectionLock.** `locked` is the object's memory, `alarm` its storage, counted
down in ticks of the 5 s retry interval. `blockConcurrencyWhile` makes a handler one
step. `waited` is the time in the lock loop, `held` the time since the grant. In
backup-base the set-up between the grant and the `try` is outside the
`finally` (`SetupThrows`), in restore-base it is inside.
`LockRequestFails` covers both an answer that never came and a lock that was taken
for a task that does not know.

**LockRefinement.** The users of the abstract lease are the tasks between grant and
release, its remaining time is the alarm's while the flag is up, and it is trusted
as long as `Undisturbed` holds. Waiting tasks, and alarms left over by an eviction,
are hidden.

**AirtableConnection.** A refresh token is a number, `live` and `spent` are what
Airtable thinks of it. `pendingAge` is the age of `pending_reauth_at` in days. A request is
`FetchConnection`, `ClaimRefresh`, an answer of Airtable, and one of the three
persist statements, each guarded by the claim id. A claim of a request that
died is `"abandoned"`. `inDO` is the request the Durable Object is blocked on;
`Evict` lets the next in while the old one goes on, the case the claim in the
row is for. Fresh tokens, inactive connections and rows without a refresh token
answer without a write and are no step.

**RunRefinement.** The abstract status is `open` for queued and running, else
the row's; a base's abstract result is the one `/complete` consumed; the reason
is whether `error_message` is set. Requests, tasks, posts in flight and the
sweep's snapshot are hidden.

**SpaceScheduler.** `config` is the `backup_configurations` row, `fires`, `poll`
and `alarm` the object's storage, `nextScheduled` the columns the pages show. An
alarm delivery is `AlarmDelivered`, then one step per await: the read of the
configuration, of the stored fires, of the connection, the start of each due
lane, the store of the next fires with `setAlarm`, the poll dispatch, the write
of the shown columns. The object has no `blockConcurrencyWhile` here, so
set-frequency may land between any two of them. A PATCH is the read of the
previous row, the upsert, registration of webhooks with its compensation or
their unregistration, the read of the row it sends, the send, the write of the
shown columns. A cadence fires at the multiples of its `Period`.

**WebhookPoll.** Airtable's payload log is a sequence of changes, a cursor a
position in it. Times are not numbers: `due` is whether the stored times make
the subscription due, `reconcileDue` whether they call for a reconciliation, the
anchor the number of changes made by then. A pass is fetch, decide, insert the
run, enqueue, mark started, stamp; a task is fetch of a payload page (applied to
`shown`), post of the cursor, reconciliation, completion; the fallback is four
steps, as its handler awaits between them. `shadow` and `reverted` are history
variables, they mark the two known gaps (section 7).

**RestoreLifecycle.** As RunLifecycle, for one task, and with what differs: the
array starts as `{}` and not as NULL, `UPDATE ... WHERE id` is the only guard of
start and finalize, apps/web removes the row itself, cancel closes with the
id-less case too. `task` and `posts` are the Trigger.dev side.

**Retention.** A run is known by the day it started. `Keep` is the
`decideDeletions` of the five tiers, with the same order of cap, window and
bucket passes; buckets are divisions, as the code's are. `FetchPlan`,
`DeletePrefix`, `PostComplete` are the pass; `MarkRunDeleting`,
`DeleteRunFiles`, `DeleteComplete` the user's deletion, beside it.

**Reports.** A run row has its window, its document (the backups whose
completion rows it read) and its state; the partial unique index is the guard of
`InsertRunningRun`. `gen` holds a `generateReport` call of each caller between
its awaits, so two callers may compute the same window. `Rendered` is the
callback, `InsertDeliveries`, `Mail` and `SendEmail` the delivery it starts.

## 4. Model-checking runs

Passing runs:

| Run | Checks | Bounds and why they are enough |
|---|---|---|
| `RunSafety` | type, `PendingLedger`, `SuccessMeansDelivered`, `FailDecisionIsSafe`, `ImplementsBackupRun` | two bases: a first and a last completion that race, one fails while the other succeeds; two attempts: a retry that posts beside its predecessor; two faults anywhere: a kill and a lost post together; a cancel, a delete, both origins. Progress moves only its own counter, read by no guard of the run, so no pages here |
| `RunLiveness` | `EventuallySettles`, `EveryRunRests` | two bases with a page each, one cancel, one fault anywhere. One attempt: a retry only repeats the states of the first. The engine's own start only, whose row stays when the request throws; apps/web deletes it, and the lost deletion would be a second fault |
| `Lock` | type, `ImplementsLease`, `LockIsFreed` | three tasks (holder, next holder, late releaser), one a restore; TTL 2 and waiting budget 2 (equal, as in the code), work up to 3 ticks, longer than the TTL; one eviction, two faults |
| `Token` | type, `SpentNeverReplayed`, `SpentHasSuccessor`, `EventuallyFresh`, `PendingEnds` | two requests (the object's and one left over from an eviction); two expiries: a refresh whose predecessor is still under way; one reconnect beside a refresh; one fault; a grace of two days |
| `Scheduler` | type, `AlarmIsEarliest`, `FireOncePerDelivery`, `LanesFollowConfig` | two cadences with periods 1 and 2 that meet at every other tick; a Space that starts armed, never armed, or on instant; two concurrent changes (to instant, to a cadence, of the schema lane only); one redelivery and its exhaustion; two faults; time 2, so a lane fires, moves on and fires again |
| `SchedulerLive` | `DueEventuallyServed` | the same with one change, which may land anywhere inside the handler |
| `Webhook` | type, `NoChangeLost`, `OneTaskAtATime`, `RestIsCaughtUp` | two changes of one cell (the second overwrites the first), two run rows (a task beside its successor), one failure of any kind anywhere |
| `WebhookLive` | `EventuallyCaughtUp` | one change, two rows, one failure |
| `Restore` | type, `CreditedOnce`, `SuccessWasReported`, `SweepSparesLiveTask`, `EventuallySettles` | a restore has one task; two attempts, a page, a cancel, three faults: a kill, a lost post and a dead request together |
| `Retention` | type, `OnlySupersededLoseFiles`, `FilesFollowRows`, `PassIsIdempotent`, `ExpiredIsPruned` | two prefixes per run (one deleted, one failed); five days of two-day weeks and three-day months, so a week lies in two months and each window has runs on both sides; three runs; a tier by count, a ladder with weeks and one with months; one edit or deletion by the user; one fault |
| `Reports` | type, `NoCoverageGap`, `MailsAreRecorded`, `DueIsTaken`, `EveryRunEnds` | one backup against two report runs (a window before it and one after), every kind of cadence, three callers, two attempts, one edit, deletion, run-now or resend, one fault |

What they show:
- `ImplementsBackupRun`: whatever the requests, tasks, handlers and the sweep of
  a run do, an observer sees an abstract run: each base counts once and only
  while there is a row, success is made of successes, failures have reasons, a
  run with results is never restarted nor undone, and only runs with a verdict
  are deleted.
- `PendingLedger`: `trigger_run_ids` is an exact ledger. Once recorded it holds
  the bases whose totals were not added, and nothing is added twice, whatever
  is retried or duplicated.
- `SuccessMeansDelivered` holds for all three writers of a success: the last
  callback, a finalize that overwrites a terminal status, and the sweep that
  finishes a run whose finalize was lost.
- `FailDecisionIsSafe`: the sweep acts on a snapshot and on task states that
  may be old when it writes. It is still right, because pending ids only leave and
  a terminal task stays terminal.
- `EventuallySettles`, `EveryRunRests`: with a fault anywhere the run still
  leaves queued and running, because the sweep covers each place where it can
  hang; nothing revisits `cancelling` and `deleting`, and without faults no run
  ends there.
- `LockIsFreed`: no crash, lost message, eviction or leaked lock leaves the flag
  up for ever.
- `ImplementsLease`: until a task overstays the TTL or the object is evicted, tasks
  see a lease that has an owner, although the flag has none and a release does
  not say whose lock it releases: one task at a time uses the connection, the
  lease is never renewed, and only its owner or the alarm at its end ends it. After that a
  task that overstayed may end the lease of another, but no lease is renewed or
  granted over another. Mutual exclusion (`ExclusionWithinTTL`) is part of this.
- `SpentNeverReplayed`, `SpentHasSuccessor`: with the claim, two objects
  refreshing one connection never send a single-use token twice, nor lose the
  successor. Without faults only; a lost answer of a rotated token cannot be
  repaired by anyone, and `EventuallyFresh` then still shows that the connection
  moves on. `PendingEnds`: it does not stay pending for ever.
- `AlarmIsEarliest`, `LanesFollowConfig`: as long as no change meets the handler
  or is lost (`disturbed`), the one alarm is the earliest of three lanes and the
  lanes are those of the configuration, through every switch to and from
  instant. `FireOncePerDelivery` and `DueEventuallyServed` hold without that
  exception: a fire is dispatched again only by a redelivery, and a due fire is
  served also when a change lands inside the handler.
- `NoChangeLost`: at every moment a change the database does not show is after
  the anchor of the next reconciliation or in a full re-read under way, except
  for the two gaps of section 7. Where the cursor stands does not matter for this:
  it only makes changes arrive sooner. `EventuallyCaughtUp`: the daily sweep makes that an
  eventual delivery. `RestIsCaughtUp`: without failures it does not even need
  the sweep; a ping during a pass or task stays dirty. `OneTaskAtATime`: the
  in-flight map keeps tasks of a base apart.
- `CreditedOnce`, `SuccessWasReported`, `SweepSparesLiveTask`: what RunLifecycle
  has, for restores. `EventuallySettles`: the same sweep covers them.
- `OnlySupersededLoseFiles`: no edit, deletion, failure or overlap makes a pass
  remove the last snapshot that stood for its period. `FilesFollowRows`: a
  marked or removed row has no files. `PassIsIdempotent`: the greedy bucket
  passes of `decide-deletions` are a fixpoint under every policy.
- `NoCoverageGap`: three callers computing windows from one chain leave no
  backup between two windows, save one that was still running and one whose
  document a later attempt of its task declared failed.

`ReportStuck` expects a violation; see section 7.

Deadlock is checked in every run but the two of Reports: there, time ends and a
definition may be gone, with nothing left to do. Elsewhere a loop or `AtRest`
names the states in which the component may stop.

## 5. Fairness

- *RunLifecycle*: the steps of a request under way are weakly fair, since a
  Worker either finishes it or it dies, and dying is a fault step, bounded by
  `MaxFaults`. Tasks are weakly fair: Trigger.dev runs what is queued and `maxDuration` ends it.
  The sweep is weakly fair: the cron fires every 15 minutes. Time passes. There is
  no fairness on users: nobody need cancel or delete (`CancelRead`, `DeleteRead`),
  and none on faults.
- *ConnectionLock*: requests are answered or fail, work ends, a due alarm is
  delivered at some time (Cloudflare delivers alarms at least once), time passes.
  No task need start, nothing need be evicted.
- *AirtableConnection*: the `*/15` sweep asks for a token of every expiring
  connection (`FetchConnection`), requests run on, an abandoned claim grows
  old, days pass and the daily job runs. The user need do nothing.
- *SpaceScheduler*: the platform delivers an armed alarm and the handler runs on
  (it throws only as a bounded fault, after which it is redelivered up to
  `MaxRetries` times), a PATCH under way runs on, time passes. Nobody need change
  anything.
- *WebhookPoll*: Airtable retries a ping until it is accepted, the poll alarm
  comes back (SpaceScheduler), tasks run, days and weeks pass, the sweep of stuck
  runs looks at each row. The full re-read ends; that it succeeds is not assumed.
- *RestoreLifecycle*: as RunLifecycle.
- *Retention*: only the hourly pass.
- *Reports*: requests, tasks and mails under way run on, the hourly sweep runs.
  No backup need start or end, nobody need edit, delete, generate or resend.

## 6. Proofs

`tlapm` proves each of these for all values of the constants; the runs above show
most of the same formulas on small instances. The ones marked * are checked by no
run any more: they are strengthenings or parts of what the runs check.

| Module | Theorem | States |
|---|---|---|
| `RunLifecycleProofs` | `TypeCorrect`, `LedgerCorrect`, `SuccessCorrect`, `FailureCorrect`\*, `SweepCorrect`, `StrandedCorrect`\*, `RefinementCorrect` | `TypeOK`, `PendingLedger`, `SuccessMeansDelivered`, `FailedRunHasReason`, `FailDecisionIsSafe`, `StrandedOnlyByCrash`, `ImplementsBackupRun` |
| `ConnectionLockProofs` | `TypeCorrect`, `SafetyNet`\*, `LeaseCorrect`\*, `ExclusionCorrect`\*, `LeaseRefinement` | `TypeOK`, `LockHasAlarm`, `HolderHasLease`, `ExclusionWithinTTL`, `ImplementsLease` |
| `AirtableConnectionProofs` | `TypeCorrect`, `ClaimCorrect`\*, `ClockCorrect`\*, `SingleUseCorrect`, `SuccessorCorrect` | `TypeOK`, `ClaimIsOwned`, `PendingHasClock`, `SpentNeverReplayed`, `SpentHasSuccessor` |
| `RestoreLifecycleProofs` | `TypeCorrect`, `CreditCorrect`, `SuccessCorrect`, `SweepCorrect` | `TypeOK`, `CreditedOnce`, `SuccessWasReported`, `SweepSparesLiveTask` |
| `RetentionProofs` | `TypeCorrect`, `FilesCorrect`, `RetentionCorrect`, `PassCorrect` | `TypeOK`, `FilesFollowRows`, `OnlySupersededLoseFiles`, `PassIsIdempotent` |
| `SpaceSchedulerProofs` | `TypeCorrect`, `AlarmCorrect`, `FireCorrect`, `LaneCorrect` | `TypeOK`, `AlarmIsEarliest`, `FireOncePerDelivery`, `LanesFollowConfig` |
| `WebhookPollProofs` | `TypeCorrect`, `ChangeCorrect`, `OneTaskCorrect`, `CursorCorrect`\*, `RestCorrect` | `TypeOK`, `NoChangeLost`, `OneTaskAtATime`, `CursorIsHonest`, `RestIsCaughtUp` |
| `ReportsProofs` | `TypeCorrect`, `CoverageCorrect`, `MailCorrect` | `TypeOK`, `NoCoverageGap`, `MailsAreRecorded` |

**RunRefinement** (the last part of `RunLifecycleProofs`). One lemma per action of
RunLifecycle: it maps to a named step of BackupRun or to a stutter. Each uses only the part of `IInv` its abstract
guard needs: an overwriting start has nothing delivered (`StartInv`), a
finalize that writes success has good results of all bases (`DeliveredInv`), a
sweep that fails a run leaves a reason, and so on.

**RunLifecycle.** None of the invariants is inductive. `IInv` is built in
layers, each preserved by a step given those before it. `StartInv`: ids are null
until the last step of the start request, and the run ages only after it. That
gives `LedgerInv` (the ledger, and that a failed base leaves an error), since a fan-out
cannot overwrite a ledger already in use. `SweepInv` relates the sweep's snapshot
to the row: pending ids only leave and errors only appear after it.
`DeliveredInv` and `ReasonInv` say of everything that *will* write a status
(`finishing`, `sweepDecision`, an all-landed snapshot) what is wanted of the
status itself. `StrandedOnlyByCrash` stands on its own.

**ConnectionLock.** `WaitInv` (a task that waits is below its budget, so the
next tick keeps it in range), `FreshInv` (a task that never had the lock has
held it for 0 ticks), `LockHasAlarm`. The heart is `HolderHasLease`: until
disturbed, every holder has the flag up and `alarm + held = TTL`. A second grant needs
the flag down, a release by anybody else needs another holder, an alarm needs
`held = TTL`; so exclusion and the lease have to be carried together.
`LeaseRefinement` then maps each action to one of `ConnectionLease`. The three
places where the abstract lease asks for its owner are where the invariant is
used: a grant (nobody holds while the flag is down), a release (the releaser is
the only holder) and an expiry (a holder with nothing left has overstayed).

**AirtableConnection.** `RowInv` holds with any faults. `SingleUse`, without faults:
the request that is claimed or answered is the one the claim names
(`HolderHasClaim`), a stale claim belongs to nobody (`StaleIsAbandoned`), and what was
gained and not yet stored is unspent (`SuccessorUnspent`).

**RestoreLifecycle.** Layers as in RunLifecycle, simpler because there is one task.
`StartInv`: the id is stored by the last step of the start request, and a row ages,
and is swept, only after that request. `LedgerInv` is `CreditedOnce` and that a
reported failure leaves a message. `SweepInv`: a row read without an id never gets
one, and a task that was over stays over. `DeliveredInv`: whatever will write a
success (`finishing`, `sweepDecision`, a snapshot without id and message) comes
after a reported one. `SweepCorrect` needs `SweepInv` and not just the moment of
the decision, since the row and the task go on between the read and the write.

**Retention.** `WorkInv`: what is planned, swept or deleted are runs that ended.
`ProgressInv`: the files left of a run a pass works on lie in the prefixes it has
not come to yet, so the mark at the end finds none (`FilesFollowRows`). `PlanInv`:
what a pass planned is superseded under some policy the Space has had; it stays so
because the ended runs only become more and the days only go on.
`PassIsIdempotent` is a lemma on the decision alone: the windows, the cap and the
count are fixpoints on the set they keep (`KeepByWindowsFixpoint`,
`KeepNewestFixpoint`).

**SpaceScheduler.** `ReadInv` and `WorkInv` say what the handler has in hand at each
of its awaits: a configuration it read, fires it read or derived, the lanes it
still has to start. `StoreInv`: until disturbed, the storage is what the handler
read, so what it writes at the end is the advance of what is stored. `AlarmInv`:
until disturbed, the alarm is the earliest lane while idle, and due while a
delivery is to be repeated. `FireInv` carries `FireOncePerDelivery`: a fire that
was dispatched is behind what is stored, or belongs to the delivery under way or
to one that failed; `Behind` holds of every schedule a request can store, since a
next fire is strictly after now (`NextFires`). It needs no exemption for requests
that land inside the handler. `LaneInv`: what is stored follows the row or a PATCH
that will send the row is pending; `RowInv` says the same of the shown columns.

**WebhookPoll.** `LogInv` keeps every position (cursor, anchor, what a task has
read) within the log, `PassInv` keeps the pass's run its own until its task is
enqueued. `ReadInv` is what makes `NoChangeLost` inductive: a completion
about to become an anchor, or a fallback about to stamp one, has brought in all
it vouches for. That this suffices showed that the cursor plays no part in the
property, whose statement became stronger for it. The remaining layers assume that nothing
failed: `CalmInv` (nobody falls back, a task never holds a cursor above the
stored one), `OneInv` (a task that is not over is the pass's or the one in the
in-flight map, which gives `OneTaskAtATime`), `CursorInv` (a change the database
lacks is ahead of the cursor, or a task under way will reconcile) and `WakeInv` (a
task under way will read it, or a ping or the watermark calls for another pass).
`Max` over the log is characterised once, by the least number principle.

**Reports.** `TimeInv`: a call writes its document in the hour in which its window
ends, so no backup starts later inside a window that is over. `DocInv`: a running
row belongs to one call until its task is queued, and has its document before
there is a task. `CoverInv` speaks of the runs that were ever generated
(`once`), which only grow, where the state of a row may go back to `failed`:
whoever computes a window starts it at the end of one of these or at the
first backup, and all before that is accounted for. `NoCoverageGap` follows, as
it exempts runs that were generated and then failed. `SentInv` counts: no more rows
of a run say sent than mails went out. `CalmInv`: without a fault a run has one
task, one callback, one delivery.

Assumptions: only the named ASSUMEs of the modules, on the types of the
constants (a finite non-empty set of bases, natural bounds, `NULL` not a set of
bases, positive TTL and waiting budget, policies of the type of their table, weeks
and months of at least a day, request bodies, cadences and periods of the types
the schema allows, `NULL` no member of what it stands beside). TLC evaluates them
in every passing run. In particular nothing relates TTL to the waiting budget or to `maxDuration`.

Only model-checked: the liveness properties (`EventuallySettles`, `EveryRunRests`,
`LockIsFreed`, `EventuallyFresh`, `PendingEnds`, `DueEventuallyServed`,
`EventuallyCaughtUp`, `ExpiredIsPruned`, `DueIsTaken`, `EveryRunEnds`): they need
fairness and ENABLED, which the prover does not handle. Every invariant of a
passing run and both refinements have a theorem.

## 7. Findings

`ReportStuck`: when the POST of the render callback fails, the report run stays
`running`; no sweep reads `report_runs`, and the partial unique index
`report_runs_one_running_uq` refuses every later report of the definition.
`render-report.task.ts:62-63` says "the engine's run-row state machine reconciles
a lost callback".

Differences met while modelling that have no run of their own. The models have
the behaviour, and no property claims its opposite.

*Backup runs.*
- `finalizeRun` (`pages/api/internal/runs/complete.ts:601`) updates by id alone: a
  late task replaces `cancelled`, or the sweep's `failed`, by its own result.
  `lib/runs/cancel.ts:13-15`: `/complete` "no-ops against a terminal row";
  `reconcile-sweep.ts:6-9`: "exactly one terminal transition wins".
- Cancel uses the ids it read before its compare-and-set, and start writes
  `running` and the ids with no guard: a cancel during the fan-out is
  acknowledged with tasks live (`cancel.ts:102`, against `:4-6`).
- apps/web deletes the row on every result that is not ok, also a transport
  error half-way through the fan-out (`start.ts:115`; `backup-runs.ts:8`: "on
  engine 4xx").
- `/complete` adds the totals to what `/progress` added (`complete.ts:571`;
  `progress.ts:26-27` says it overwrites).
- A task that completes before its id is recorded is a no-op and stays pending
  (`start.ts:318`; `reconcile.ts:11`: "these tasks never completed").
- With bases that end in different trial statuses the last callback's status
  wins, as `lib/runs/complete.ts:39-42` says.

*Lock.* The alarm clears the flag after 60 s, work may take 600 s and never renews
it (`ConnectionDO.ts:79,265`, against `:5-7`). A task that waited for the whole
budget gives up with `lock_unavailable`, where
`openspec/changes/server/specs/backup-engine/spec.md:43` has it retry "until the
lock is released".

*Connection.* A reconnect leaves `pending_reauth_at` and the claim
(`persist.ts:106-110`): the next authorization failure keeps the old clock
(`auto-invalidate.ts:11-12` promises ~10 days), and a refresh under way overwrites
the new tokens. `markPendingReauth` is guarded by the claim alone
(`ConnectionDO.ts:201`): a refresh rejected after a disconnect moves the row from
`invalid` to `pending_reauth` (`:189-190`).

*Scheduler.*
- A set-frequency that lands inside `alarm()` is overwritten by what the handler
  had read (`SpaceDO.ts:317-352` and `456-487`): a lane the change added stays
  NULL until the next save (`disturbed` in the model).
- Two concurrent PATCHes may send their schedules in the other order.
- A failed registration or arming on a switch to instant is not tried again
  (`register-webhooks.ts:206`).
- `parseScheduleBody` refuses `instant`, so a change of `schemaFrequency` on an
  instant Space never reaches the object.
- Nobody re-arms an object whose alarm the platform has given up on, but a save or
  the bootstrap script.

*Webhooks.*
- The anchor is stamped at completion, later than the reads it vouches for
  (`runs/complete.ts:656`; `shadow`).
- The pass enqueues with the cursor of an earlier read, so a payload may be applied
  again over a newer value (`SpaceDO.ts:399,409,439`; `incremental-backup.ts:27-28`;
  `reverted`); the next change or reconciliation of the record repairs it.
- The fallback stamps the anchor and resets the cursor before the re-read has
  read anything (`fallback.ts:159`), and a failed task waits for the daily sweep.
- A webhook Airtable no longer knows, or that is `pending_reauth`, is not created
  again by the fallback (`incremental-backup.ts:845`, `webhook-renewal.ts:13-15`).
- A plan's cap reached on the second base leaves the first base's subscription
  while the configuration is reverted (`lifecycle.ts:155`, `backup-config.ts:223-225`).

*Restores.*
- A late completion overwrites `cancelled` or `failed`, and start's update by id
  revives a cancelled row (`restores/cancel.ts:14-18`).
- A cancel that read no id stops nothing (`cancel.ts:100`), and a row in
  `cancelling` after a crash is never swept.
- The sweep takes a row without pending ids for one whose completions all landed,
  and may so report a restore as succeeded that never started; this is why
  `SuccessWasReported` requires that the start request finished.
- apps/web removes the row on any engine error, although a task may be enqueued.
- A sweep takes the oldest 25 rows (`reconcile-sweep.ts:61`); rows it can do nothing
  about may keep later ones waiting.
- The `trial_*` statuses are refused by `/complete`'s own parser.

*Retention.*
- Failed, cancelled, schema-only and incremental runs count as snapshots
  (`design.md:121`, `Features.md:609`).
- `resolveStorageWriter` is called without credentials in the cleanup task, which
  gives the local writer: with other storage kinds rows are marked while the
  files stay. The model's storage is the local one.
- Prefixes come from the names of the bases that are included now
  (`delete-deps.ts:88-93`): files of a base since removed or renamed stay.
- A pass that dies after removing some files, followed by a policy edit that keeps
  the run, leaves a half-removed snapshot listed (`cleanup-expired-snapshots.ts:16-18`).
- A row stuck in `deleting` is left out of retention; restore start does not look
  at `deleted_at`.

*Reports.*
- A backup still running when its window is assembled is never reported
  (`window.ts:22-24`: "no silent coverage gaps").
- An edit under a sweep gets the next fire of the old schedule (`store.ts:298`); a
  PATCH to no cadence computes it from the replaced one (`store.ts:198`).
- A late or repeated callback is not guarded: `failed` and `generated` may flip and
  the mail goes out a second time.
- A backup that finishes while a report of the definition is running is skipped by
  the hook, and taken into the next window.

*Provisioning* (read only): `markError` and `markActive` update by Space id
alone, so a second provisioning request may turn an active row into `error`.

## 8. What is not modelled

- In RunLifecycle: what a completion writes to other tables (per-table
  snapshots, metering, storage enforcement, report triggers): they read the run and do
  not write the modelled columns; that they may throw is in `FinalizeLost`.
  The cap of runs per sweep: the rest is taken by the next sweep, so it delays.
  Retention's `deleted_at`: another column, in Retention.
- In ConnectionLock: what is captured between lock and unlock, which takes any
  time up to `maxDuration`.
- In AirtableConnection: the keepalive mode (which rows are asked for, and
  when), the cap of a sweep, duplicate rows of one organization, webhook parking on
  invalidation, the ciphertext cache used without on-demand refresh.
- In SpaceScheduler: time zones and calendar arithmetic of `next-fire` (a cadence
  is the multiples of its period), the plan gates of the PATCH, the storage check.
- In WebhookPoll: several bases per Space, registration and renewal beyond
  parking, schema changes, comments, attachments, platform retries of a killed
  attempt (the same as a replay).
- In RestoreLifecycle: what is written to the Airtable base, whose target the code
  does not create yet (`ensureRestoreTarget` throws in production).
- In Retention: months of different lengths, several runs a day, changing sets of
  included bases, other storage kinds, two user deletions at once, two passes at
  once (hourly cron, `maxDuration` 600 s). `is_trial` is set by no insert, so the
  trial cap is left out.
- In Reports: the other window kinds, base scopes, several recipients and formats,
  the artifact reads, the creation gate, the `schema_backup` cadence (as
  `data_backup`).
- Bounds on counters (`MaxFaults`, `MaxPages`, `MaxEvictions`, `MaxExpiries`,
  `MaxReconnects`, `MaxChanges`, `MaxTime`, `MaxDay`, `MaxRuns`, `MaxActs`,
  `MaxManual`) are bounds of the model, not of the code. The proofs hold for each
  value of them.
- The components marked not modelled in section 1. Provisioning is mostly DDL and
  Cloudflare API calls behind a four-state row; metering and entitlements are SQL
  over rollups; the user interfaces, data capture and model calls keep little
  state that two actors contend for.

## 9. Plan

1. A composition of RunLifecycle and ConnectionLock: two runs on one connection,
   a run fails for the lock only under contention.
2. Two bases per Space in WebhookPoll, with registration.
3. The row of a per-Space database, with two provisioning requests.
