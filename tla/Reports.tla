------------------------------- MODULE Reports -------------------------------
(***************************************************************************)
(* The reports of one definition (apps/server/src/lib/reports): the hourly *)
(* schedule sweep, the hook after a backup and "run now" all call          *)
(* generateReport, which computes the window from the chain of earlier     *)
(* reports, inserts the one running row, assembles the document and        *)
(* enqueues the render-report task; the task's callback ends the run and   *)
(* mails it, and failed mails can be sent again.                           *)
(*                                                                         *)
(* The window is since_last and there is one recipient.  A document is the *)
(* set of backups it reports, by the rows their completion inserted.       *)
(***************************************************************************)
EXTENDS Naturals, Sequences, FiniteSetsExt

CONSTANTS
  Backups,      \* full backups of the Space, one base each
  Cadences,     \* cadences the user may choose, NULL for manual only
  Period,       \* Period[c]: hours between two fires of a clock cadence
  NULL,         \* the SQL null
  MaxAttempts,  \* attempts Trigger.dev gives a task
  MaxTime,      \* bound: hours
  MaxRuns,      \* bound: report runs
  MaxManual,    \* bound: edits of the definition, run-now and resend calls
  MaxFaults     \* bound: exceptions, kills and lost requests

ASSUME CadenceAssumption ==
  /\ Cadences \ {NULL} \subseteq {"data_backup"} \cup DOMAIN Period
  /\ Period \in [DOMAIN Period -> Nat \ {0}]
\* The null is no hour and no document.
ASSUME NullAssumption == NULL \notin Nat /\ \A doc \in SUBSET Backups : NULL # doc
ASSUME BoundsAssumption ==
  /\ MaxAttempts \in Nat \ {0}
  /\ MaxTime \in Nat /\ MaxRuns \in Nat /\ MaxManual \in Nat /\ MaxFaults \in Nat

RunIds    == 1..MaxRuns
Attempts  == 1..MaxAttempts
Callers   == {"sweep", "manual"} \cup Backups  \* a backup calls by its hook
Periodic  == DOMAIN Period

VARIABLES
  now,       \* the hour
  backup,    \* backup[b]: startedAt, and whether its base rows are inserted
  def,       \* cadence, enabled and next_run_at of report_definitions, or NULL
  runs,      \* the report_runs rows of the definition, in order
  gen,       \* gen[g]: the generateReport call of caller g
  sweep,     \* the definition as the sweep listed it, or NULL
  task, attempt, posts,  \* render-report tasks and their callbacks
  delivery,  \* delivery[r, a]: the report_deliveries row of callback a of run r
  mails,     \* mails[r]: mails of run r that went out
  resend,    \* the failed rows a resend request still goes through
  manuals, faults,  \* counted against the bounds
  lost       \* runs whose caller, task or callback died

jobVars  == <<task, attempt, posts>>
mailVars == <<delivery, mails, resend>>
counters == <<manuals, faults, lost>>
vars == <<now, backup, def, runs, gen, sweep, jobVars, mailVars, counters>>

Idle == [pc |-> "idle", start |-> 0, end |-> 0, adHoc |-> FALSE, run |-> 0]

\* computeNextRunAt: the next fire strictly after `from`, null without a clock.
ComputeNextRunAt(c, from) ==
  IF c \in Periodic THEN (from \div Period[c] + 1) * Period[c] ELSE NULL

Definition(c, on, t) ==
  [cadence |-> c, enabled |-> on,
   nextRunAt |-> IF on THEN ComputeNextRunAt(c, t) ELSE NULL]

DefinitionRow == [cadence: Cadences, enabled: BOOLEAN, nextRunAt: {NULL} \cup Nat]
RunRow  == [state: {"running", "generated", "failed"}, start: 0..MaxTime, end: 0..MaxTime,
            adHoc: BOOLEAN, doc: {NULL} \cup SUBSET Backups,
            unfinished: SUBSET Backups, once: BOOLEAN]
CallType == [pc: {"idle", "due", "read", "inserted", "persisted", "failing"},
             start: 0..MaxTime, end: 0..MaxTime, adHoc: BOOLEAN, run: 0..MaxRuns]

TypeOK ==
  /\ now \in 0..MaxTime
  /\ backup \in [Backups -> [started: {NULL} \cup 0..MaxTime, done: BOOLEAN]]
  /\ def \in {NULL} \cup DefinitionRow
  /\ runs \in Seq(RunRow) /\ Len(runs) <= MaxRuns
  /\ \A r \in DOMAIN runs : /\ runs[r].start <= runs[r].end
                            /\ runs[r].state = "generated" => runs[r].doc # NULL
  /\ gen \in [Callers -> CallType]
  /\ \A g \in Callers :
       gen[g].pc \in {"inserted", "persisted", "failing"} => gen[g].run \in DOMAIN runs
  /\ sweep \in {NULL} \cup [cadence: Cadences, now: 0..MaxTime]
  /\ task \in [RunIds -> {"none", "queued", "posted", "dead"}]
  /\ attempt \in [RunIds -> Attempts]
  /\ posts \in SUBSET (RunIds \X Attempts \X {"rendered", "error"})
  /\ delivery \in [RunIds \X Attempts ->
                     {"none", "open", "pending", "sent", "failed", "orphan"}]
  /\ mails \in [RunIds -> Nat]
  /\ resend \in SUBSET (RunIds \X Attempts)
  /\ manuals \in 0..MaxManual /\ faults \in 0..MaxFaults /\ lost \in SUBSET RunIds

\* createDefinition: the first fire lies ahead.
Init ==
  /\ now = 0
  /\ backup = [b \in Backups |-> [started |-> NULL, done |-> FALSE]]
  /\ \E c \in Cadences : def = Definition(c, TRUE, 0)
  /\ runs = <<>>
  /\ gen = [g \in Callers |-> Idle]
  /\ sweep = NULL
  /\ task = [r \in RunIds |-> "none"]
  /\ attempt = [r \in RunIds |-> 1]
  /\ posts = {}
  /\ delivery = [d \in RunIds \X Attempts |-> "none"]
  /\ mails = [r \in RunIds |-> 0]
  /\ resend = {}
  /\ manuals = 0 /\ faults = 0 /\ lost = {}

Manual == manuals < MaxManual /\ manuals' = manuals + 1
Fault  == faults < MaxFaults /\ faults' = faults + 1

-----------------------------------------------------------------------------
(* The window chain: lib/reports/window.ts, deps.ts.                       *)

ChainRuns == {r \in DOMAIN runs : ~ runs[r].adHoc /\ runs[r].state = "generated"}

\* selectChainAnchor: the latest end of a run that advanced the chain.
AnchorOfAnyRun == {runs[r].end : r \in {q \in DOMAIN runs : runs[q].state # "running"}}
AnchorEnds == {runs[r].end : r \in ChainRuns}

FirstBackupStart ==
  {backup[b].started : b \in {c \in Backups : backup[c].started # NULL}}

\* computeWindow for since_last; with nothing to anchor it, it is empty.
WindowStart(t) ==
  LET start == IF AnchorEnds # {} THEN Max(AnchorEnds)
               ELSE IF FirstBackupStart # {} THEN Min(FirstBackupStart) ELSE t
  IN  IF start > t THEN t ELSE start

InWindow(r) == {b \in Backups : /\ backup[b].started # NULL
                                /\ runs[r].start <= backup[b].started
                                /\ backup[b].started < runs[r].end}

-----------------------------------------------------------------------------
(* generateReport: lib/reports/generate.ts.                                *)

\* The definition and the earlier runs are read and the window is computed.
Reading(start, adHoc, end) ==
  [pc |-> "read", start |-> start, end |-> end, adHoc |-> adHoc, run |-> 0]

\* The running rows; a deleted definition has none (ON DELETE CASCADE).
RunningRuns == {r \in DOMAIN runs : def # NULL /\ runs[r].state = "running"}

\* insertRunningRun: the partial unique index admits one running row; a
\* deleted definition makes the insert throw, which also ends a sweep.  At
\* the bound on runs the insert is refused, as a conflicting one is.
InsertRunningRun(g) ==
  LET refused == Len(runs) = MaxRuns \/ RunningRuns # {} IN
  /\ gen[g].pc = "read"
  /\ \/ /\ def = NULL \/ refused
        /\ gen' = [gen EXCEPT ![g] = Idle]
        /\ sweep' = IF def = NULL /\ g = "sweep" THEN NULL ELSE sweep
        /\ UNCHANGED runs
     \/ /\ def # NULL /\ ~ refused
        /\ runs' = Append(runs, [state |-> "running", start |-> gen[g].start,
                                 end |-> gen[g].end, adHoc |-> gen[g].adHoc,
                                 doc |-> NULL, unfinished |-> {}, once |-> FALSE])
        /\ gen' = [gen EXCEPT ![g].pc = "inserted", ![g].run = Len(runs) + 1]
        /\ UNCHANGED sweep
  /\ UNCHANGED <<now, backup, def, jobVars, mailVars, counters>>

PersistDocumentForgotten(g) ==
  /\ gen[g].pc = "inserted"
  /\ gen' = [gen EXCEPT ![g].pc = "persisted"]
  /\ UNCHANGED <<now, backup, def, runs, sweep, jobVars, mailVars, counters>>

\* fetchSectionData, assembleReport and persistDocument: the base rows of the
\* backups that started in the window, as far as they have been inserted.
PersistDocument(g) ==
  LET r == gen[g].run
      seen == {b \in InWindow(r) : backup[b].done}
  IN
  /\ gen[g].pc = "inserted"
  /\ gen' = [gen EXCEPT ![g].pc = "persisted"]
  /\ runs' = [runs EXCEPT ![r].doc = seen, ![r].unfinished = InWindow(r) \ seen]
  /\ UNCHANGED <<now, backup, def, sweep, jobVars, mailVars, counters>>

EnqueueRender(g) ==
  /\ gen[g].pc = "persisted"
  /\ task' = [task EXCEPT ![gen[g].run] = "queued"]
  /\ gen' = [gen EXCEPT ![g] = Idle]
  /\ UNCHANGED <<now, backup, def, runs, sweep, attempt, posts, mailVars, counters>>

\* An await throws.  Before the row exists the exception leaves generateReport
\* and ends a sweep; afterwards markFailed runs.  Trigger.dev may have
\* accepted the task of an enqueue that failed.
GenerateThrows(g) ==
  /\ gen[g].pc \in {"read", "inserted", "persisted"}
  /\ Fault
  /\ IF gen[g].pc = "read"
     THEN /\ gen' = [gen EXCEPT ![g] = Idle]
          /\ sweep' = IF g = "sweep" THEN NULL ELSE sweep
     ELSE /\ gen' = [gen EXCEPT ![g].pc = "failing"]
          /\ UNCHANGED sweep
  /\ \/ UNCHANGED task
     \/ gen[g].pc = "persisted" /\ task' = [task EXCEPT ![gen[g].run] = "queued"]
  /\ UNCHANGED <<now, backup, def, runs, attempt, posts, mailVars, manuals, lost>>

\* What markRunFailed and the error branch of the callback leave of a row.
StateAfterErrorKept(state) == state
StateAfterError(state) == "failed"

MarkFailed(g) ==
  /\ gen[g].pc = "failing"
  /\ gen' = [gen EXCEPT ![g] = Idle]
  /\ runs' = IF def = NULL THEN runs
             ELSE [runs EXCEPT ![gen[g].run].state = StateAfterError(@)]
  /\ UNCHANGED <<now, backup, def, sweep, jobVars, mailVars, counters>>

\* The Worker dies under the call, or markFailed throws.
GenerateDies(g) ==
  /\ gen[g].pc \in {"read", "inserted", "persisted", "failing"}
  /\ Fault
  /\ gen' = [gen EXCEPT ![g] = Idle]
  /\ sweep' = IF g = "sweep" THEN NULL ELSE sweep
  /\ lost' = lost \cup ({gen[g].run} \ {0})
  /\ UNCHANGED <<now, backup, def, runs, jobVars, mailVars, manuals>>

-----------------------------------------------------------------------------
(* The callers.                                                            *)

Due == /\ def # NULL /\ def.enabled /\ def.cadence \in Periodic
       /\ def.nextRunAt # NULL /\ def.nextRunAt <= now

\* runScheduledReportSweep lists the due definitions and generates each; its
\* own copy of the definition gives the next fire.
SweepList ==
  /\ sweep = NULL /\ gen["sweep"].pc = "idle"
  /\ Due
  /\ sweep' = [cadence |-> def.cadence, now |-> now]
  /\ gen' = [gen EXCEPT !["sweep"] = Reading(WindowStart(now), FALSE, now)]
  /\ UNCHANGED <<now, backup, def, runs, jobVars, mailVars, manuals, faults, lost>>

\* setNextRunAt: WHERE id only, whatever became of the generation.
NextAfterSweepNotStrict == ComputeNextRunAt(sweep.cadence, sweep.now - 1)
NextAfterSweep == ComputeNextRunAt(sweep.cadence, sweep.now)

SetNextRunAt ==
  /\ sweep # NULL /\ gen["sweep"].pc = "idle"
  /\ sweep' = NULL
  /\ def' = IF def = NULL THEN NULL ELSE [def EXCEPT !.nextRunAt = NextAfterSweep]
  /\ UNCHANGED <<now, backup, runs, gen, jobVars, mailVars, counters>>

SweepDies ==
  /\ sweep # NULL /\ gen["sweep"].pc = "idle"
  /\ Fault
  /\ sweep' = NULL
  /\ UNCHANGED <<now, backup, def, runs, gen, jobVars, mailVars, manuals, lost>>

\* fireEventReports, deferred by the completion that finalized backup b.
FireEventReport(b) ==
  /\ gen[b].pc = "due"
  /\ gen' = [gen EXCEPT ![b] =
       IF def # NULL /\ def.enabled /\ def.cadence = "data_backup"
       THEN Reading(WindowStart(now), FALSE, now) ELSE Idle]
  /\ UNCHANGED <<now, backup, def, runs, sweep, jobVars, mailVars, counters>>

\* POST generate: run now, over the chain's window or over one of the user's.
GenerateNow ==
  /\ gen["manual"].pc = "idle"
  /\ Manual
  /\ def # NULL
  /\ \E reading \in {Reading(WindowStart(now), FALSE, now)}
                    \cup {Reading(0, TRUE, MaxTime)} :
       gen' = [gen EXCEPT !["manual"] = reading]
  /\ UNCHANGED <<now, backup, def, runs, sweep, jobVars, mailVars, faults, lost>>

\* PATCH of the definition, a full replacement; a null cadence computes the
\* next fire from the cadence it replaces.
NextAfterEdit(c, on) ==
  IF on THEN ComputeNextRunAt(IF c = NULL THEN def.cadence ELSE c, now) ELSE NULL

UpdateDefinition ==
  /\ def # NULL
  /\ Manual
  /\ \E c \in Cadences, on \in BOOLEAN :
       def' = [cadence |-> c, enabled |-> on, nextRunAt |-> NextAfterEdit(c, on)]
  /\ UNCHANGED <<now, backup, runs, gen, sweep, jobVars, mailVars, faults, lost>>

\* DELETE of the definition removes its runs and deliveries (ON DELETE CASCADE).
DeleteDefinition ==
  /\ def # NULL
  /\ Manual
  /\ def' = NULL
  /\ UNCHANGED <<now, backup, runs, gen, sweep, jobVars, mailVars, faults, lost>>

-----------------------------------------------------------------------------
(* The render-report task.                                                 *)

\* renderReport catches its errors; the task posts either outcome and returns.
PostRendered(r) ==
  /\ task[r] = "queued"
  /\ task' = [task EXCEPT ![r] = "posted"]
  /\ \E result \in {"rendered", "error"} :
       posts' = posts \cup {<<r, attempt[r], result>>}
  /\ UNCHANGED <<now, backup, def, runs, gen, sweep, attempt, mailVars, counters>>

\* The platform loses the task, maybe after it has posted, and starts it
\* again while attempts are left.
TaskKilled(r) ==
  /\ task[r] \in {"queued", "posted"}
  /\ Fault
  /\ \/ /\ attempt[r] < MaxAttempts
        /\ attempt' = [attempt EXCEPT ![r] = @ + 1]
        /\ task' = [task EXCEPT ![r] = "queued"]
        /\ UNCHANGED lost
     \/ /\ task' = [task EXCEPT ![r] = "dead"]
        /\ lost' = lost \cup {r}
        /\ UNCHANGED attempt
  /\ UNCHANGED <<now, backup, def, runs, gen, sweep, posts, mailVars, manuals>>

PostLost(p) ==
  /\ Fault
  /\ posts' = posts \ {p}
  /\ lost' = lost \cup {p[1]}
  /\ UNCHANGED <<now, backup, def, runs, gen, sweep, task, attempt, mailVars, manuals>>

-----------------------------------------------------------------------------
(* POST rendered (run-rendered.ts) and the mails (delivery.ts, resend).    *)

\* Both outcomes are written WHERE id only; a rendered run is then mailed
\* after the response.
Rendered(p) ==
  LET r == p[1] IN
  /\ posts' = posts \ {p}
  /\ \/ def = NULL /\ UNCHANGED <<runs, delivery>>
     \/ /\ def # NULL /\ p[3] = "error"
        /\ runs' = [runs EXCEPT ![r].state = StateAfterError(@)]
        /\ UNCHANGED delivery
     \/ /\ def # NULL /\ p[3] = "rendered"
        /\ runs' = [runs EXCEPT ![r].state = "generated", ![r].once = TRUE]
        /\ delivery' = [delivery EXCEPT ![<<r, p[2]>>] = "open"]
  /\ UNCHANGED <<now, backup, def, gen, sweep, task, attempt, mails, resend, counters>>

\* The deferred delivery: nothing for a manual-only definition nor, as
\* suppress_empty is on, for an empty window; else it inserts the rows.
InsertDeliveries(r, a) ==
  /\ delivery[r, a] = "open"
  /\ delivery' = [delivery EXCEPT ![<<r, a>>] =
       IF def # NULL /\ def.cadence # NULL /\ runs[r].doc # {} THEN "pending" ELSE "none"]
  /\ UNCHANGED <<now, backup, def, runs, gen, sweep, jobVars, mails, resend, counters>>

\* The mail goes out or is refused; if it went out and the row cannot be
\* written, the catch block marks it failed.
Mail(r, a) ==
  \/ /\ delivery' = [delivery EXCEPT ![<<r, a>>] = "sent"]
     /\ mails' = [mails EXCEPT ![r] = @ + 1]
     /\ UNCHANGED faults
  \/ /\ delivery' = [delivery EXCEPT ![<<r, a>>] = "failed"]
     /\ UNCHANGED <<mails, faults>>
  \/ /\ Fault
     /\ delivery' = [delivery EXCEPT ![<<r, a>>] = "failed"]
     /\ mails' = [mails EXCEPT ![r] = @ + 1]

SendEmail(r, a) ==
  /\ delivery[r, a] = "pending"
  /\ Mail(r, a)
  /\ UNCHANGED <<now, backup, def, runs, gen, sweep, jobVars, resend, manuals, lost>>

\* The Worker ends under the deferred delivery: the row stays pending.
DeliveryDies(r, a) ==
  /\ delivery[r, a] \in {"open", "pending"}
  /\ Fault
  /\ delivery' = [delivery EXCEPT ![<<r, a>>] =
                    IF @ = "open" THEN "none" ELSE "orphan"]
  /\ UNCHANGED <<now, backup, def, runs, gen, sweep, jobVars, mails, resend, manuals, lost>>

\* POST resend goes through the rows listFailedDeliveries returned.
ResendableUnsent(r) == {d \in {r} \X Attempts : delivery[d] \in {"pending", "failed"}}
Resendable(r) == {d \in {r} \X Attempts : delivery[d] = "failed"}

ListFailedDeliveries(r) ==
  /\ resend = {} /\ def # NULL
  /\ Manual
  /\ Resendable(r) # {}
  /\ resend' = Resendable(r)
  /\ UNCHANGED <<now, backup, def, runs, gen, sweep, jobVars, delivery, mails, faults, lost>>

ResendEmail(r, a) ==
  /\ <<r, a>> \in resend
  /\ resend' = resend \ {<<r, a>>}
  /\ Mail(r, a)
  /\ UNCHANGED <<now, backup, def, runs, gen, sweep, jobVars, manuals, lost>>

-----------------------------------------------------------------------------
(* Backups and time.                                                       *)

StartBackup(b) ==
  /\ backup[b].started = NULL
  /\ backup' = [backup EXCEPT ![b].started = now]
  /\ UNCHANGED <<now, def, runs, gen, sweep, jobVars, mailVars, counters>>

\* The completion inserts the base row, finalizes the run and defers the hook.
FinishBackup(b) ==
  /\ backup[b].started # NULL /\ ~ backup[b].done
  /\ backup' = [backup EXCEPT ![b].done = TRUE]
  /\ gen' = [gen EXCEPT ![b].pc = "due"]
  /\ UNCHANGED <<now, def, runs, sweep, jobVars, mailVars, counters>>

\* An hour passes: no request lasts that long.
Tick ==
  /\ now < MaxTime
  /\ \A g \in Callers : gen[g].pc = "idle"
  /\ sweep = NULL /\ resend = {}
  /\ now' = now + 1
  /\ UNCHANGED <<backup, def, runs, gen, sweep, jobVars, mailVars, counters>>

GenerateStep(g) ==
  InsertRunningRun(g) \/ PersistDocument(g) \/ EnqueueRender(g) \/ MarkFailed(g)
SweepStep == SweepList \/ SetNextRunAt
JobStep(r) ==
  PostRendered(r) \/ \E p \in posts : p[1] = r /\ Rendered(p)
MailStep(r, a) == InsertDeliveries(r, a) \/ SendEmail(r, a) \/ ResendEmail(r, a)

Next ==
  \/ \E g \in Callers : GenerateStep(g) \/ GenerateThrows(g) \/ GenerateDies(g)
  \/ SweepStep \/ SweepDies
  \/ \E b \in Backups : FireEventReport(b) \/ StartBackup(b) \/ FinishBackup(b)
  \/ GenerateNow \/ UpdateDefinition \/ DeleteDefinition
  \/ \E r \in RunIds : JobStep(r) \/ TaskKilled(r) \/ ListFailedDeliveries(r)
  \/ \E p \in posts : PostLost(p)
  \/ \E r \in RunIds, a \in Attempts : MailStep(r, a) \/ DeliveryDies(r, a)
  \/ Tick

Spec == Init /\ [][Next]_vars

\* Requests run to their end unless a fault stops them, the platform runs
\* and delivers, the cron fires every hour.  Nobody has to edit, delete,
\* generate or resend, and no backup has to start or end.
Fairness ==
  /\ \A g \in Callers : WF_vars(GenerateStep(g))
  /\ WF_vars(SweepStep)
  /\ \A r \in RunIds : WF_vars(JobStep(r))
  /\ \A r \in RunIds, a \in Attempts : WF_vars(MailStep(r, a))

FairSpec == Spec /\ Fairness

-----------------------------------------------------------------------------
(* What holds.                                                             *)

\* "Never a silent coverage gap": what the chain has passed is in a document
\* of the chain, whatever failed, was generated ad hoc or overlapped.  Two
\* gaps are left: a backup that was still running when its window was
\* assembled, and a document that a later attempt of its task declared failed.
NoCoverageGap ==
  \A b \in Backups :
    (backup[b].done /\ \E end \in AnchorEnds : backup[b].started < end) =>
       \/ \E r \in ChainRuns : b \in runs[r].doc \cup runs[r].unfinished
       \/ \E r \in DOMAIN runs : runs[r].once /\ runs[r].state = "failed"

\* The rows say what happened: as many mails went out as rows say, and no
\* recipient gets a run twice unless something failed.
MailsAreRecorded ==
  \A r \in RunIds :
    /\ Cardinality({a \in Attempts : delivery[r, a] = "sent"}) <= mails[r]
    /\ faults = 0 => mails[r] <= 1

\* A due fire is taken, also when the sweep failed before.
DueIsTaken == Due ~> ~ Due

\* A run ends, unless its caller, task or callback died.
EveryRunEnds ==
  \A r \in RunIds : r \in RunningRuns ~> (r \notin RunningRuns \/ r \in lost)

-----------------------------------------------------------------------------
\* render-report.task.ts: "the engine's run-row state machine reconciles a
\* lost callback".
CallbackLost(r) == r \in RunningRuns /\ task[r] = "posted" /\ \A p \in posts : p[1] # r

LostCallbackIsReconciled ==
  \A r \in RunIds : CallbackLost(r) ~> r \notin RunningRuns
=============================================================================
