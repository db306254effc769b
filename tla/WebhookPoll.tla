----------------------------- MODULE WebhookPoll -----------------------------
(***************************************************************************)
(* How the changes of one instant base reach a Space's database: Airtable  *)
(* logs each change and pings apps/hooks; the SpaceDO's poll pass finds    *)
(* the subscription dirty and enqueues an incremental-backup task; the     *)
(* task applies the payloads from the cursor it was given, advances the    *)
(* stored cursor, and now and then reconciles records modified after an    *)
(* anchor.  A gap in the payload log falls back to a full re-read.         *)
(*                                                                         *)
(* Time is not a number here.  A time that the code stores and compares    *)
(* with others is the number of changes made until then (the anchor), or   *)
(* a flag: due once last_ping_at > last_polled_at or 24 hours have passed  *)
(* since last_polled_at, reconcileDue once 7 days have since the anchor.   *)
(***************************************************************************)
EXTENDS Integers, Sequences, FiniteSetsExt

CONSTANTS
  Cells,       \* cells of the base that change
  Runs,        \* backup run rows of the Space; a row is used again once over
  MaxChanges,  \* bound: changes made in Airtable
  MaxFaults,   \* bound: failures of all kinds together
  NULL

ASSUME NullAssumption == NULL \notin Runs
ASSUME BoundsAssumption == MaxChanges \in Nat /\ MaxFaults \in Nat

VARIABLES
  log,      \* Airtable: the payload log, one entry per change
  kept,     \* Airtable: the oldest payload still retained
  pingDue,  \* Airtable: a notification has yet to be accepted by apps/hooks
  due, reconcileDue,  \* what the stored times say (see above)
  cursor, anchor, \* the subscription: payload_cursor, last_reconciled_at
  paused,   \* the webhook is pending_reauth
  inflight, \* the object's in-flight map, for this base
  pass,     \* the poll pass: where it is and what it has read
  run,      \* run[r]: the backup_runs row of an incremental run
  task,     \* task[r]: the Trigger.dev task of run r
  full,     \* full[r]: the full re-read that the fallback of r started
  shown,    \* shown[c]: the change whose value the database holds
  shadow,   \* history: changes an anchor vouches for that no read had seen
  reverted, \* history: an old payload, applied again, overwrote a newer value
  faults

airtable == <<log, kept, pingDue>>
clock    == <<due, reconcileDue>>
sub      == <<cursor, anchor>>
history  == <<shadow, reverted>>
vars == <<airtable, clock, sub, paused, inflight, pass, run, task, full, shown,
          history, faults>>

-----------------------------------------------------------------------------
Now == Len(log)
Changes == 1..Now
LastChangeOf(c, before) == Max({0} \cup {i \in 1..before : log[i].cell = c})
Latest(c) == LastChangeOf(c, Now)

NoTask == [pc |-> "none", cursor |-> 0, anchor |-> 0, reconcile |-> FALSE,
           to |-> 0, more |-> FALSE, seen |-> 0]
TaskOver(r) == task[r].pc = "none"
Unstarted == [status |-> "none", tracked |-> FALSE]
InFlight(r) == run[r].status \in {"queued", "running"}
FreeRun(r) == /\ ~InFlight(r) /\ TaskOver(r) /\ full[r] = "none"
              /\ inflight # r /\ pass.run # r

IdlePass == [pc |-> "idle", polls |-> FALSE, cursor |-> 0, reconcile |-> FALSE,
             run |-> NULL, pinged |-> FALSE]

Fault == faults < MaxFaults /\ faults' = faults + 1

-----------------------------------------------------------------------------
(* Airtable and apps/hooks.                                                *)

\* A transaction; an opaque one arrives as an INTERNAL_ERROR payload.
Change ==
  /\ Now < MaxChanges
  /\ \E c \in Cells, o \in BOOLEAN : log' = Append(log, [cell |-> c, opaque |-> o])
  /\ pingDue' = TRUE
  /\ UNCHANGED <<kept, clock, sub, paused, inflight, pass, run, task, full, shown,
                 history, faults>>

\* Payloads are retained for seven days.
Expire ==
  /\ kept <= Now
  /\ Fault
  /\ kept' \in (kept + 1)..(Now + 1)
  /\ UNCHANGED <<log, pingDue, clock, sub, paused, inflight, pass, run, task, full,
                 shown, history>>

\* handlePing, recordPing.  A lost answer makes Airtable ping again.
PingRecorded ==
  /\ pingDue
  /\ due' = TRUE
  /\ pass' = [pass EXCEPT !.pinged = @ \/ pass.pc # "idle"]
  /\ \/ pingDue' = FALSE /\ UNCHANGED faults
     \/ UNCHANGED pingDue /\ Fault
  /\ UNCHANGED <<log, kept, reconcileDue, sub, paused, inflight, run, task, full,
                 shown, history>>

\* Airtable gives up on a notification nobody accepted.
PingLost ==
  /\ pingDue /\ pingDue' = FALSE
  /\ Fault
  /\ UNCHANGED <<log, kept, clock, sub, paused, inflight, pass, run, task, full,
                 shown, history>>

\* persistStatus("pending_reauth"), by the renewal cron or a failed refresh.
Park ==
  /\ ~paused /\ paused' = TRUE
  /\ Fault
  /\ UNCHANGED <<airtable, clock, sub, inflight, pass, run, task, full, shown,
                 history>>

\* Time passes: SAFETY_SWEEP_MS, RECONCILE_CADENCE_MS.
Day ==
  /\ ~due /\ due' = TRUE
  /\ UNCHANGED <<airtable, reconcileDue, sub, paused, inflight, pass, run, task,
                 full, shown, history, faults>>
Week ==
  /\ ~reconcileDue /\ reconcileDue' = TRUE
  /\ UNCHANGED <<airtable, due, sub, paused, inflight, pass, run, task, full,
                 shown, history, faults>>

-----------------------------------------------------------------------------
(* SpaceDO.runWebhookPollPass.                                             *)

\* fetchDueWebhookSubscriptions: the row with its cursor, as of now.
PassFetch ==
  /\ pass.pc = "idle"
  /\ pass' = IF due /\ ~paused
             THEN [IdlePass EXCEPT !.pc = "fetched", !.polls = TRUE, !.cursor = cursor,
                                   !.reconcile = reconcileDue]
             ELSE [IdlePass EXCEPT !.pc = "fetched"]
  /\ UNCHANGED <<airtable, clock, sub, paused, inflight, run, task, full, shown,
                 history, faults>>

\* Mutant: a run counts as in flight only until it starts.
StillQueued == IF inflight # NULL /\ run[inflight].status = "queued" THEN inflight ELSE NULL

\* The in-flight map keeps only runs whose row is not over.
StillInFlight == IF inflight # NULL /\ InFlight(inflight) THEN inflight ELSE NULL

\* decideWebhookPolls: the row fetched is due and not paused, and no run is
\* in flight.
Enqueues(next) == pass.polls /\ next = NULL

\* Nothing to enqueue: the map is stored and the pass is over.
PassSkips ==
  /\ pass.pc = "fetched" /\ ~Enqueues(StillInFlight)
  /\ inflight' = StillInFlight
  /\ pass' = IdlePass
  /\ UNCHANGED <<airtable, clock, sub, paused, run, task, full, shown, history,
                 faults>>

PassDecide ==
  /\ pass.pc = "fetched" /\ Enqueues(StillInFlight)
  /\ pass' = [pass EXCEPT !.pc = "insert"]
  /\ UNCHANGED <<airtable, clock, sub, paused, inflight, run, task, full, shown,
                 history, faults>>

PassInsertRun ==
  /\ pass.pc = "insert"
  /\ \E r \in Runs :
       /\ FreeRun(r)
       /\ run' = [run EXCEPT ![r] = [status |-> "queued", tracked |-> FALSE]]
       /\ pass' = [pass EXCEPT !.pc = "enqueue", !.run = r]
  /\ UNCHANGED <<airtable, clock, sub, paused, inflight, task, full, shown,
                 history, faults>>

Enqueued(r) ==
  task' = [task EXCEPT ![r] = [NoTask EXCEPT !.pc = "queued", !.cursor = pass.cursor,
                                                !.reconcile = pass.reconcile]]

PassEnqueue ==
  /\ pass.pc = "enqueue"
  /\ Enqueued(pass.run)
  /\ pass' = [pass EXCEPT !.pc = "start"]
  /\ UNCHANGED <<airtable, clock, sub, paused, inflight, run, full, shown, history,
                 faults>>

\* The catch branch: the row goes, though the task may exist (a lost answer).
PassEnqueueFails ==
  /\ pass.pc = "enqueue"
  /\ Fault
  /\ Enqueued(pass.run) \/ UNCHANGED task
  /\ run' = [run EXCEPT ![pass.run] = Unstarted]
  /\ inflight' = NULL
  /\ pass' = IdlePass
  /\ UNCHANGED <<airtable, clock, sub, paused, full, shown, history>>

\* markWebhookRunStarted is an update by id, whatever the status has become.
PassMarkStarted ==
  /\ pass.pc = "start"
  /\ run' = [run EXCEPT ![pass.run] = [status |-> "running", tracked |-> TRUE]]
  /\ pass' = [IdlePass EXCEPT !.pc = "stamp", !.pinged = pass.pinged, !.run = pass.run]
  /\ UNCHANGED <<airtable, clock, sub, paused, inflight, task, full, shown,
                 history, faults>>

\* Mutant: last_polled_at becomes the time of the stamp.
DueNever == FALSE

\* last_polled_at becomes the time the alarm started: a ping since then is
\* later than the stamp.
DueOnceStamped == pass.pinged

PassStamp ==
  /\ pass.pc = "stamp"
  /\ due' = DueOnceStamped
  /\ inflight' = pass.run
  /\ pass' = IdlePass
  /\ UNCHANGED <<airtable, reconcileDue, sub, paused, run, task, full, shown,
                 history, faults>>

\* Any other throw, or a restart of the object, ends the pass where it is.
PassThrows ==
  /\ pass.pc # "idle"
  /\ Fault
  /\ pass' = IdlePass
  /\ UNCHANGED <<airtable, clock, sub, paused, inflight, run, task, full, shown,
                 history>>

-----------------------------------------------------------------------------
(* incremental-backup.ts: the task of run r.                               *)

TaskAt(r, pc) == task[r].pc = pc
Goes(r, t) == task' = [task EXCEPT ![r] = t]
Jumps(r, pc) == Goes(r, [NoTask EXCEPT !.pc = pc])

\* fetchSubscriptionContext: the anchor is the stored one, the cursor is not.
TaskFetchContext(r) ==
  /\ TaskAt(r, "queued")
  /\ Goes(r, [task[r] EXCEPT !.pc = "fetch", !.anchor = anchor])
  /\ UNCHANGED <<airtable, clock, sub, paused, inflight, pass, run, full, shown,
                 history, faults>>

\* Of the payloads from..to-1, those about c that can be read.
Readable(c, from, to) == {i \in from..(to - 1) : log[i].cell = c /\ ~log[i].opaque}

\* The value of c once they are applied in order.
ShownAfter(c, from, to) ==
  IF Readable(c, from, to) = {} THEN shown[c] ELSE Max(Readable(c, from, to))

\* An opaque payload is skipped; diffChangedRecord compares the value a payload
\* replaces with the stored one.  Either calls for a reconciliation.
Suspect(from, to) == \E i \in from..(to - 1) :
  log[i].opaque \/ ShownAfter(log[i].cell, from, i) # LastChangeOf(log[i].cell, i - 1)

TaskFetchPage(r) ==
  /\ TaskAt(r, "fetch")
  /\ LET from == task[r].cursor IN
     /\ from >= kept
     /\ \E to \in from..(Now + 1) :
          /\ to = from => from = Now + 1
          /\ shown' = [c \in Cells |-> ShownAfter(c, from, to)]
          /\ reverted' = (reverted \/ \E c \in Cells : shown'[c] < shown[c])
          /\ Goes(r, [task[r] EXCEPT !.pc = IF to = from THEN "drained" ELSE "post",
                                     !.to = to, !.more = to <= Now,
                                     !.reconcile = @ \/ Suspect(from, to)])
  /\ UNCHANGED <<airtable, clock, sub, paused, inflight, pass, run, full, shadow,
                 faults>>

\* The cursor callback only advances; the task reads on while there is more.
Advanced(to) == IF cursor <= to THEN to ELSE cursor

TaskPostCursor(r) ==
  /\ TaskAt(r, "post")
  /\ cursor' = Advanced(task[r].to)
  /\ Goes(r, [task[r] EXCEPT !.pc = IF task[r].more THEN "fetch" ELSE "drained",
                             !.cursor = task[r].to, !.to = 0, !.more = FALSE])
  /\ UNCHANGED <<airtable, clock, anchor, paused, inflight, pass, run, full, shown,
                 history, faults>>

\* reconcileTable: every record modified after the anchor is read again.
TaskReconcile(r) ==
  /\ TaskAt(r, "drained")
  /\ shown' = IF task[r].reconcile
              THEN [c \in Cells |->
                     IF Latest(c) > task[r].anchor THEN Latest(c) ELSE shown[c]]
              ELSE shown
  /\ Goes(r, [NoTask EXCEPT !.pc = "succeeded", !.reconcile = task[r].reconcile,
                            !.seen = Now])
  /\ UNCHANGED <<airtable, clock, sub, paused, inflight, pass, run, full, history,
                 faults>>

\* An exception is reported as failed; a task that is killed reports nothing.
TaskFails(r) ==
  /\ task[r].pc \notin {"none", "succeeded", "failed"}
  /\ Fault
  /\ Jumps(r, "failed") \/ Jumps(r, "none")
  /\ UNCHANGED <<airtable, clock, sub, paused, inflight, pass, run, full, shown,
                 history>>

-----------------------------------------------------------------------------
(* The completion callback, the fallback callback and the full re-read.    *)

\* An anchor stamped now vouches for every change up to now; seen is what the
\* read it speaks for had before it.
StampAnchor(seen) ==
  /\ anchor' = Now
  /\ reconcileDue' = FALSE
  /\ shadow' = shadow \cup {i \in Changes : i > seen}

\* runs/:id/complete.  The triggerRunId of a run not marked started is unknown
\* yet, and nothing happens.
TaskComplete(r) ==
  /\ task[r].pc \in {"succeeded", "failed"}
  /\ run' = IF run[r].tracked THEN [run EXCEPT ![r] = Unstarted] ELSE run
  /\ IF run[r].tracked /\ task[r].pc = "succeeded" /\ task[r].reconcile
     THEN StampAnchor(task[r].seen) ELSE UNCHANGED <<anchor, reconcileDue, shadow>>
  /\ Goes(r, NoTask)
  /\ UNCHANGED <<airtable, due, cursor, paused, inflight, pass, full, shown,
                 faults, reverted>>

TaskCompletionLost(r) ==
  /\ task[r].pc \in {"succeeded", "failed"}
  /\ Fault
  /\ Goes(r, NoTask)
  /\ UNCHANGED <<airtable, clock, sub, paused, inflight, pass, run, full, shown,
                 history>>

\* The cursor has expired, or the payload list says the webhook is broken.
TaskSignalsGap(r) ==
  /\ TaskAt(r, "fetch")
  /\ \/ task[r].cursor < kept /\ UNCHANGED faults
     \/ Fault
  /\ Jumps(r, "fallback")
  /\ UNCHANGED <<airtable, clock, sub, paused, inflight, pass, run, full, shown,
                 history>>

\* Mutant: the fallback goes on though the full run was refused.
FallbackIgnoresRefusal(r) ==
  /\ TaskAt(r, "fallback")
  /\ Goes(r, [NoTask EXCEPT !.pc = "stamp", !.seen = Now])
  /\ UNCHANGED <<airtable, clock, sub, paused, inflight, pass, run, full, shown,
                 history, faults>>

\* processRunStart, narrowed to the base.
FallbackStartRun(r) ==
  /\ TaskAt(r, "fallback")
  /\ full' = [full EXCEPT ![r] = "running"]
  /\ Goes(r, [NoTask EXCEPT !.pc = "stamp", !.seen = Now])
  /\ UNCHANGED <<airtable, clock, sub, paused, inflight, pass, run, shown, history,
                 faults>>

FallbackStamp(r) ==
  /\ TaskAt(r, "stamp")
  /\ StampAnchor(IF full[r] = "running" THEN Now ELSE task[r].seen)
  /\ Jumps(r, "latest")
  /\ UNCHANGED <<airtable, due, cursor, paused, inflight, pass, run, full, shown,
                 faults, reverted>>

\* Mutant: a cursor that could not be fetched is written all the same.
FallbackReadsNothing(r) ==
  /\ TaskAt(r, "latest")
  /\ Goes(r, [NoTask EXCEPT !.pc = "reset", !.to = -1])
  /\ UNCHANGED <<airtable, clock, sub, paused, inflight, pass, run, full, shown,
                 history, faults>>

\* cursorForNextPayload; without a token or an answer the cursor stays.
FallbackReadLatest(r) ==
  /\ TaskAt(r, "latest")
  /\ \/ Goes(r, [NoTask EXCEPT !.pc = "reset", !.to = Now + 1]) /\ UNCHANGED faults
     \/ Jumps(r, "failed") /\ Fault
  /\ UNCHANGED <<airtable, clock, sub, paused, inflight, pass, run, full, shown,
                 history>>

FallbackReset(r) ==
  /\ TaskAt(r, "reset")
  /\ cursor' = task[r].to
  /\ Jumps(r, "failed")
  /\ UNCHANGED <<airtable, clock, anchor, paused, inflight, pass, run, full, shown,
                 history, faults>>

\* The full run, over when its fallback may still be at the stamp.
FullOver(r) ==
  /\ full[r] = "running"
  /\ full' = [full EXCEPT ![r] = "none"]
  /\ IF TaskAt(r, "stamp") THEN Goes(r, [task[r] EXCEPT !.seen = Now]) ELSE UNCHANGED task

FullReads(r) ==
  /\ FullOver(r)
  /\ shown' = [c \in Cells |-> Latest(c)]
  /\ UNCHANGED <<airtable, clock, sub, paused, inflight, pass, run, history, faults>>

\* Not counted as a failure: the gap that led to the re-read was one.
FullFails(r) ==
  /\ FullOver(r)
  /\ shadow' = Changes
  /\ UNCHANGED <<airtable, clock, sub, paused, inflight, pass, run, shown, reverted,
                 faults>>

\* Mutant: only a run that never started is ended.
SweepQueuedRun(r) ==
  /\ run[r].status = "queued" /\ TaskOver(r) /\ pass.run # r
  /\ run' = [run EXCEPT ![r] = Unstarted]
  /\ UNCHANGED <<airtable, clock, sub, paused, inflight, pass, task, full, shown,
                 history, faults>>

\* The reconciliation sweep ends a run whose task is over.
SweepRun(r) ==
  /\ InFlight(r) /\ TaskOver(r) /\ pass.run # r
  /\ run' = [run EXCEPT ![r] = Unstarted]
  /\ UNCHANGED <<airtable, clock, sub, paused, inflight, pass, task, full, shown,
                 history, faults>>

-----------------------------------------------------------------------------
Init ==
  /\ log = <<>> /\ kept = 1 /\ pingDue = FALSE
  /\ due = TRUE /\ reconcileDue = TRUE
  /\ cursor = 1 /\ anchor = -1
  /\ paused = FALSE
  /\ inflight = NULL
  /\ pass = IdlePass
  /\ run = [r \in Runs |-> Unstarted]
  /\ task = [r \in Runs |-> NoTask]
  /\ full = [r \in Runs |-> "none"]
  /\ shown = [c \in Cells |-> 0]
  /\ shadow = {} /\ reverted = FALSE
  /\ faults = 0

PassStep == \/ PassFetch \/ PassSkips \/ PassDecide \/ PassInsertRun \/ PassEnqueue
            \/ PassMarkStarted \/ PassStamp
TaskStep(r) == \/ TaskFetchContext(r) \/ TaskFetchPage(r) \/ TaskPostCursor(r)
               \/ TaskReconcile(r) \/ TaskComplete(r) \/ TaskSignalsGap(r)
               \/ FallbackStartRun(r) \/ FallbackStamp(r) \/ FallbackReadLatest(r)
               \/ FallbackReset(r)

Next ==
  \/ Change \/ Expire \/ PingRecorded \/ PingLost \/ Park \/ Day \/ Week
  \/ PassStep \/ PassEnqueueFails \/ PassThrows
  \/ \E r \in Runs : \/ TaskStep(r) \/ TaskFails(r) \/ TaskCompletionLost(r)
                     \/ FullReads(r) \/ FullFails(r) \/ SweepRun(r)

Spec == Init /\ [][Next]_vars

\* Airtable retries its pings, the alarm is re-armed (AlarmIsEarliest in
\* SpaceScheduler), tasks are run and runs swept, and time goes by.
FairSpec ==
  /\ Spec
  /\ WF_vars(PingRecorded) /\ WF_vars(PassStep) /\ WF_vars(Day) /\ WF_vars(Week)
  /\ \A r \in Runs : /\ WF_vars(TaskStep(r)) /\ WF_vars(FullReads(r))
                     /\ WF_vars(SweepRun(r))

-----------------------------------------------------------------------------
TaskPcs == {"none", "queued", "fetch", "post", "drained", "succeeded", "failed",
            "fallback", "stamp", "latest", "reset"}

TypeOK ==
  /\ log \in Seq([cell : Cells, opaque : BOOLEAN])
  /\ kept \in Nat /\ pingDue \in BOOLEAN
  /\ due \in BOOLEAN /\ reconcileDue \in BOOLEAN
  /\ cursor \in Nat /\ anchor \in Nat \cup {-1}
  /\ paused \in BOOLEAN /\ inflight \in Runs \cup {NULL}
  /\ pass \in [pc : {"idle", "fetched", "insert", "enqueue", "start", "stamp"},
               polls : BOOLEAN, cursor : Nat, reconcile : BOOLEAN,
               run : Runs \cup {NULL}, pinged : BOOLEAN]
  /\ run \in [Runs -> [status : {"none", "queued", "running"}, tracked : BOOLEAN]]
  /\ task \in [Runs -> [pc : TaskPcs, cursor : Nat, anchor : Nat \cup {-1},
                        reconcile : BOOLEAN, to : Nat, more : BOOLEAN, seen : Nat]]
  /\ full \in [Runs -> {"none", "running"}]
  /\ shown \in [Cells -> Nat] /\ shadow \subseteq Nat /\ reverted \in BOOLEAN
  /\ faults \in Nat

Shown(c) == shown[c] = Latest(c)
FullRunning == \E r \in Runs : full[r] = "running"

\* Whatever fails, a change the database does not show is after the anchor of
\* the next reconciliation, or the full re-read of a fallback is still to
\* come: wherever the cursor is, the weekly re-read finds it.  Two gaps are
\* known and recorded: an anchor stamped later than the read it speaks for
\* (shadow), and an old payload applied again over a newer value (reverted).
Recoverable(c) == Latest(c) > anchor \/ FullRunning
NoChangeLost == ~reverted => \A c \in Cells :
  Shown(c) \/ Recoverable(c) \/ Latest(c) \in shadow

\* While nothing fails, the in-flight map keeps the incremental tasks of a base
\* apart, though a run row may be over before the map is stored.
OneTaskAtATime == faults = 0 =>
  \A r, q \in Runs : ~TaskOver(r) /\ ~TaskOver(q) => r = q

\* While nothing fails, a base at rest is caught up: no ping that arrives
\* during a pass or a task is swallowed by the watermark.
AtRest == ~pingDue /\ ~due /\ pass.pc = "idle" /\ \A r \in Runs : TaskOver(r)
RestIsCaughtUp == faults = 0 /\ AtRest /\ ~reverted =>
  \A c \in Cells : Shown(c) \/ Latest(c) \in shadow

\* Whatever fails, the daily sweep brings every change in, unless the webhook
\* is parked or the change fell into one of the two gaps.
EventuallyCaughtUp == \A c \in Cells :
  []<>(paused \/ reverted \/ Shown(c) \/ Latest(c) \in shadow)
=============================================================================
