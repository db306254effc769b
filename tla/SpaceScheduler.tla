--------------------------- MODULE SpaceScheduler ---------------------------
(***************************************************************************)
(* The scheduler of one Space: the SpaceDO Durable Object with its single  *)
(* alarm, which serves three lanes (scheduled full backups, scheduled      *)
(* schema backups, the webhook poll), and the PATCH backup-config requests *)
(* of apps/web that change the schedule under it.                          *)
(*                                                                         *)
(* The object has no blockConcurrencyWhile: while alarm() awaits the       *)
(* database another request may run.  Storage operations hold the input    *)
(* gate, so the code between two database awaits is one step.              *)
(***************************************************************************)
EXTENDS Naturals, FiniteSets

CONSTANTS
  StartConfigs,  \* configurations the Space may start with
  Patches,       \* PATCH backup-config requests
  Bodies,        \* bodies a PATCH may have: records over some of the fields
  Cadences,      \* schedulable cadences: "monthly", "weekly", "daily"
  Period,        \* Period[c]: a cadence fires at the multiples of it
  PollInterval,  \* webhook_poll_interval_seconds
  Jitters,       \* values of the poll's random extra delay
  MaxRetries,    \* retries the platform gives a failing alarm
  MaxTime,       \* bound: time stops here
  MaxFaults,     \* bound: throws, crashes and lost requests together
  NULL

Fields   == {"scope", "frequency", "schemaFrequency"}
Scopes   == {"schema_only", "schema_and_data"}
Lanes    == {"full", "schema"}
Times    == Nat \cup {NULL}
Fires    == [Lanes -> Times]
NoFires  == [l \in Lanes |-> NULL]
Config   == [scope : Scopes, frequency : Cadences \cup {"instant"},
             schemaFrequency : Cadences \cup {NULL}]

ASSUME CadenceAssumption == "instant" \notin Cadences /\ "monthly" \in Cadences
ASSUME ConfigAssumption == StartConfigs \subseteq Config
ASSUME NullAssumption ==
  /\ NULL \notin Nat \cup Cadences \cup {"instant"} \cup Config \cup Bodies
  /\ NULL \notin Fires
ASSUME PeriodAssumption == Period \in [Cadences -> Nat \ {0}]
ASSUME PollAssumption == PollInterval \in Nat \ {0} /\ Jitters \subseteq Nat /\ Jitters # {}
ASSUME BoundsAssumption == MaxRetries \in Nat /\ MaxTime \in Nat /\ MaxFaults \in Nat
ASSUME BodiesAssumption == \A b \in Bodies :
  /\ DOMAIN b \in (SUBSET Fields) \ {{}}
  /\ "scope" \in DOMAIN b => b.scope \in Scopes
  /\ "frequency" \in DOMAIN b => b.frequency \in Cadences \cup {"instant"}
  /\ "schemaFrequency" \in DOMAIN b => b.schemaFrequency \in Cadences \cup {NULL}

VARIABLES
  now,
  config,        \* the backup_configurations row; NULL once the Space is gone
  nextScheduled, \* its next_scheduled_at columns, what the pages show
  fires, poll, alarm,  \* the object's storage
  handler,       \* the alarm handler: where it is and what it has read
  patch,         \* patch[p]: the same for a PATCH request
  dispatched,    \* history: how often a lane's fire was attempted or recorded
  throws,        \* history: alarm deliveries that failed
  retries,       \* failures of the alarm in a row
  dropped,       \* the platform gave up on a delivery and nothing was set since
  disturbed,     \* history: a schedule change met another writer or was lost,
                 \* or the platform gave up on a delivery
  faults

storage  == <<fires, poll, alarm>>
platform == <<throws, retries, dropped>>
vars == <<now, config, nextScheduled, storage, handler, patch, dispatched, platform,
          disturbed, faults>>

-----------------------------------------------------------------------------
(* lib/scheduling: dual-schedule.ts, next-fire.ts.                         *)

\* computeNextFire: the boundary of the cadence after t, never t itself.
NextFireInclusive(c, t) == ((t + Period[c] - 1) \div Period[c]) * Period[c]
NextFire(c, t) == ((t \div Period[c]) + 1) * Period[c]

FireFor(c, t) == IF c \in Cadences THEN NextFire(c, t) ELSE NULL

ComputeFires(cfg, t) ==
  [l \in Lanes |-> IF l = "schema" THEN FireFor(cfg.schemaFrequency, t)
                   ELSE IF cfg.scope = "schema_and_data" THEN FireFor(cfg.frequency, t)
                   ELSE NULL]

DueKinds(fs, t) == {l \in Lanes : fs[l] # NULL /\ fs[l] <= t}

\* parseScheduleBody refuses a body whose data cadence is 'instant'.
ParseAcceptsLegacy(cfg) == cfg.frequency # "instant" /\ cfg.schemaFrequency = NULL
ParseAccepts(cfg) == cfg.frequency # "instant"

\* minDefined: the least of the times that are not NULL, NULL if there is none.
MinDefined(S) ==
  IF S \subseteq {NULL} THEN NULL
  ELSE CHOOSE t \in S \ {NULL} : \A u \in S \ {NULL} : t <= u

LaneTimes(fs) == {fs[l] : l \in Lanes}

\* The earliest of everything the storage holds.
Earliest == MinDefined(IF fires = NULL THEN {poll} ELSE LaneTimes(fires) \cup {poll})

-----------------------------------------------------------------------------

TypeOK ==
  /\ now \in 0..MaxTime
  /\ config \in Config \cup {NULL}
  /\ nextScheduled \in Fires
  /\ fires \in Fires \cup {NULL}
  /\ poll \in Times /\ alarm \in Times
  /\ handler \in [pc : {"idle", "fetch", "read", "dispatch", "start", "advance", "poll", "write"},
                  config : Config \cup {NULL}, fires : Fires, now : 0..MaxTime,
                  kinds : SUBSET Lanes, todo : SUBSET Lanes]
  /\ patch \in [Patches ->
       [pc : {"called", "upsert", "register", "revert", "unregister", "read", "send",
              "write", "done"},
        body : Bodies \cup {NULL}, previous : Cadences \cup {"instant", NULL},
        schedule : Config \cup {NULL}, fires : Fires]]
  /\ dispatched \in [Lanes -> [0..MaxTime -> Nat]]
  /\ throws \in 0..MaxFaults /\ retries \in 0..MaxRetries
  /\ dropped \in BOOLEAN /\ disturbed \in BOOLEAN
  /\ faults \in 0..MaxFaults

Idle == [pc |-> "idle", config |-> NULL, fires |-> NoFires, now |-> 0, kinds |-> {}, todo |-> {}]

Called == [pc |-> "called", body |-> NULL, previous |-> NULL, schedule |-> NULL, fires |-> NoFires]
Answered == [Called EXCEPT !.pc = "done"]

\* A Space that was set up before: armed by set-frequency, by
\* set-webhook-polling, (legacy) with an alarm and no stored fires, or a row
\* inserted with the default cadence by a save that did not touch the schedule.
Init ==
  /\ now = 0
  /\ config \in StartConfigs
  /\ \/ /\ config.frequency # "instant"
        /\ fires = ComputeFires(config, 0)
        /\ poll = NULL
        /\ alarm = MinDefined(LaneTimes(fires))
        /\ nextScheduled = fires
     \/ /\ config.frequency = "instant" /\ config.schemaFrequency = NULL
        /\ fires = NULL
        /\ poll = PollInterval
        /\ alarm = PollInterval
        /\ nextScheduled = NoFires
     \/ /\ config.frequency # "instant" /\ config.schemaFrequency = NULL
        /\ config.scope = "schema_and_data"
        /\ fires = NULL
        /\ poll = NULL
        /\ alarm \in {NULL, NextFire(config.frequency, 0)}
        /\ nextScheduled = NoFires
  /\ handler = Idle
  /\ patch = [p \in Patches |-> Called]
  /\ dispatched = [l \in Lanes |-> [t \in 0..MaxTime |-> 0]]
  /\ throws = 0 /\ retries = 0 /\ dropped = FALSE
  /\ disturbed = FALSE /\ faults = 0

Fault == faults < MaxFaults /\ faults' = faults + 1

\* The alarm handler has read the row, so what it will store is already set.
HandlerOpen == handler.pc \notin {"idle", "fetch"}

-----------------------------------------------------------------------------
(* PATCH backup-config (apps/web) and the routes of the engine it calls.   *)

Goes(p, pc) == patch' = [patch EXCEPT ![p].pc = pc]
Ends(p)     == patch' = [patch EXCEPT ![p] = Answered]

\* The upsert sets the columns the body names and keeps the others.
ApplyBodyOnly(body, cfg) == body
Apply(body, cfg) == [f \in Fields |-> IF f \in DOMAIN body THEN body[f] ELSE cfg[f]]

\* The cadence before the change, to detect a transition; a failed read
\* counts as "no previous config".
PatchReadPrevious(p) ==
  /\ patch[p].pc = "called"
  /\ config # NULL
  /\ \E b \in Bodies, failed \in BOOLEAN :
       /\ patch' = [patch EXCEPT ![p].pc = "upsert", ![p].body = b,
            ![p].previous = IF failed \/ "frequency" \notin DOMAIN b THEN NULL
                            ELSE config.frequency]
       /\ IF failed THEN "frequency" \in DOMAIN b /\ Fault ELSE UNCHANGED faults
  /\ UNCHANGED <<now, config, nextScheduled, storage, handler, dispatched, platform, disturbed>>

\* persistBackupConfigPolicy, then the branch on the kind of transition.
PatchUpsert(p) ==
  LET body == patch[p].body
      previous == patch[p].previous
      next == IF "frequency" \notin DOMAIN body THEN "read"
              ELSE IF body.frequency = "instant" /\ previous # "instant" THEN "register"
              ELSE IF body.frequency # "instant" /\ previous = "instant" THEN "unregister"
              ELSE "read"
  IN
  /\ patch[p].pc = "upsert"
  /\ IF config = NULL
     THEN UNCHANGED config /\ Ends(p)
     ELSE /\ config' = Apply(body, config)
          /\ patch' = [patch EXCEPT ![p].pc = next, ![p].body = NULL,
                         ![p].previous = IF next = "register" THEN @ ELSE NULL]
  /\ UNCHANGED <<now, nextScheduled, storage, handler, dispatched, platform, disturbed, faults>>

\* register-webhooks: registered and polling armed (set-webhook-polling),
\* the cap of Airtable reached, or anything else, which is swallowed.
PatchRegister(p) ==
  /\ patch[p].pc = "register"
  /\ \/ /\ config # NULL
        /\ \E j \in Jitters : poll' = now + PollInterval + j
        /\ alarm' = MinDefined(IF fires = NULL THEN {poll'} ELSE LaneTimes(fires) \cup {poll'})
        /\ Goes(p, "read")
        /\ disturbed' = (disturbed \/ HandlerOpen)
        /\ dropped' = FALSE
        /\ UNCHANGED faults
     \/ Goes(p, "revert") /\ UNCHANGED <<poll, alarm, dropped, disturbed, faults>>
     \/ Fault /\ Goes(p, "read") /\ UNCHANGED <<poll, alarm, dropped, disturbed>>
  /\ UNCHANGED <<now, config, nextScheduled, fires, handler, dispatched, throws, retries>>

\* The compensating upsert after the cap, which ends the request: the stored
\* fires are trusted to be those of the previous cadence.
PatchRevert(p) ==
  LET previous == patch[p].previous IN
  /\ patch[p].pc = "revert"
  /\ Ends(p)
  /\ IF config = NULL THEN UNCHANGED <<config, disturbed>>
     ELSE /\ config' = [config EXCEPT !.frequency = IF previous = NULL THEN "monthly" ELSE previous]
          /\ disturbed' = TRUE
  /\ UNCHANGED <<now, nextScheduled, storage, handler, dispatched, platform, faults>>

\* The alarm once polling is disabled.
AlarmWithoutPollKept == alarm
AlarmWithoutPoll == IF fires = NULL THEN NULL ELSE MinDefined(LaneTimes(fires))

\* unregister-webhooks: polling is disarmed, or the call is lost (swallowed).
PatchUnregister(p) ==
  /\ patch[p].pc = "unregister"
  /\ Goes(p, "read")
  /\ \/ /\ poll' = NULL
        /\ alarm' = AlarmWithoutPoll
        /\ disturbed' = (disturbed \/ HandlerOpen)
        /\ UNCHANGED faults
     \/ Fault /\ UNCHANGED <<poll, alarm, disturbed>>
  /\ UNCHANGED <<now, config, nextScheduled, fires, handler, dispatched, platform>>

\* fetchScheduleForSpace: the whole schedule after the upsert.
PatchReadSchedule(p) ==
  /\ patch[p].pc = "read"
  /\ IF config = NULL THEN Ends(p)
     ELSE patch' = [patch EXCEPT ![p].pc = "send", ![p].schedule = config, ![p].previous = NULL]
  /\ UNCHANGED <<now, config, nextScheduled, storage, handler, dispatched, platform,
                 disturbed, faults>>

\* What set-frequency arms: never past a pending poll.
SetScheduleAlarm(fs) == MinDefined(LaneTimes(fs) \cup {poll})

\* set-frequency: the proxy route and handleSetSchedule, no await between.
PatchSend(p) ==
  LET schedule == patch[p].schedule
      fs == ComputeFires(schedule, now) IN
  /\ patch[p].pc = "send"
  /\ \/ /\ ParseAccepts(schedule)
        /\ fires' = fs
        /\ alarm' = SetScheduleAlarm(fs)
        /\ patch' = [patch EXCEPT ![p].pc = "write", ![p].fires = fs, ![p].schedule = NULL]
        /\ disturbed' = \/ HandlerOpen
                        \/ schedule # config
                        \/ \E q \in Patches \ {p} : patch[q].pc = "write"
        /\ dropped' = FALSE
        /\ UNCHANGED faults
     \/ /\ ~ ParseAccepts(schedule)
        /\ Ends(p)
        /\ UNCHANGED <<fires, alarm, disturbed, dropped, faults>>
     \/ /\ Fault
        /\ Ends(p)
        /\ disturbed' = TRUE
        /\ UNCHANGED <<fires, alarm, dropped>>
  /\ UNCHANGED <<now, config, nextScheduled, poll, handler, dispatched, throws, retries>>

\* The route writes what the object answered into the row.
PatchWriteNextScheduled(p) ==
  /\ patch[p].pc = "write"
  /\ Ends(p)
  /\ \/ /\ nextScheduled' = IF config = NULL THEN nextScheduled ELSE patch[p].fires
        /\ UNCHANGED <<disturbed, faults>>
     \/ Fault /\ disturbed' = TRUE /\ UNCHANGED nextScheduled
  /\ UNCHANGED <<now, config, storage, handler, dispatched, platform>>

-----------------------------------------------------------------------------
(* SpaceDO.alarm().                                                        *)

AlarmDelivered ==
  /\ handler.pc = "idle"
  /\ alarm # NULL /\ alarm <= now
  /\ alarm' = NULL
  /\ handler' = [handler EXCEPT !.pc = "fetch"]
  /\ UNCHANGED <<now, config, nextScheduled, fires, poll, patch, dispatched, platform,
                 disturbed, faults>>

\* fetchConfig; without a row the handler ends and nothing is armed again.
AlarmFetchConfig ==
  /\ handler.pc = "fetch"
  /\ IF config = NULL
     THEN handler' = Idle /\ retries' = 0
     ELSE handler' = [handler EXCEPT !.pc = "read", !.config = config] /\ UNCHANGED retries
  /\ UNCHANGED <<now, config, nextScheduled, storage, patch, dispatched, throws, dropped,
                 disturbed, faults>>

\* The fires the handler works with.  A DO armed before there were two lanes
\* has none: the tick is then taken as the data schedule firing now.
FiresOrLegacy ==
  IF fires # NULL THEN fires
  ELSE [NoFires EXCEPT !["full"] =
          IF handler.config.scope = "schema_and_data" /\ handler.config.frequency # "instant"
          THEN now ELSE NULL]

AlarmReadFires ==
  LET due == DueKinds(FiresOrLegacy, now) IN
  /\ handler.pc = "read"
  /\ handler' = [handler EXCEPT !.pc = IF due = {} THEN "advance" ELSE "dispatch",
                   !.now = now, !.fires = FiresOrLegacy, !.kinds = due, !.todo = due]
  /\ UNCHANGED <<now, config, nextScheduled, storage, patch, dispatched, platform,
                 disturbed, faults>>

Attempted(kinds) ==
  [l \in Lanes |-> [t \in 0..MaxTime |->
     dispatched[l][t] + IF l \in kinds /\ handler.fires[l] = t THEN 1 ELSE 0]]

\* Skipped fires still advance and re-arm.
AfterSkipReturns == Idle
AfterSkip == [handler EXCEPT !.pc = "advance", !.todo = {}]

\* fetchSpace and the connection: active, or the fires are recorded as
\* skipped (a Space that is gone skips silently).
AlarmCheckConnection ==
  /\ handler.pc = "dispatch"
  /\ \/ handler' = [handler EXCEPT !.pc = "start"] /\ UNCHANGED dispatched
     \/ /\ handler' = AfterSkip
        /\ dispatched' = Attempted(handler.kinds)
  /\ UNCHANGED <<now, config, nextScheduled, storage, patch, platform, disturbed, faults>>

\* insertScheduledRun and runStart for one kind, the full one first; a
\* refused run is deleted again (RunLifecycle has the life of the run).
AlarmStartRun(l) ==
  /\ handler.pc = "start"
  /\ l \in handler.todo
  /\ l = "schema" => "full" \notin handler.todo
  /\ handler' = [handler EXCEPT !.todo = @ \ {l},
                   !.pc = IF handler.todo = {l} THEN "advance" ELSE "start"]
  /\ dispatched' = Attempted({l})
  /\ UNCHANGED <<now, config, nextScheduled, storage, patch, platform, disturbed, faults>>

\* The lanes that fired move on, the others keep what was stored.
NextFires ==
  [l \in Lanes |-> IF l \in handler.kinds THEN ComputeFires(handler.config, handler.now)[l]
                   ELSE handler.fires[l]]

\* Stores the next fires, then handles the poll lane: dropped unless the
\* cadence is instant, kept if it is not due, else a poll pass runs.
AlarmAdvance ==
  LET instant == handler.config.frequency = "instant"
      due     == instant /\ (poll = NULL \/ poll <= handler.now) IN
  /\ handler.pc = "advance"
  /\ fires' = NextFires
  /\ poll' = IF instant THEN poll ELSE NULL
  /\ alarm' = IF due THEN alarm ELSE MinDefined(LaneTimes(NextFires) \cup {poll'})
  /\ handler' = [handler EXCEPT !.pc = IF due THEN "poll" ELSE "write", !.fires = NextFires]
  /\ UNCHANGED <<now, config, nextScheduled, patch, dispatched, platform, disturbed, faults>>

\* runWebhookPollPass has ended, well or with an error (contained): the next
\* poll is stored and the alarm armed.
AlarmPolled ==
  /\ handler.pc = "poll"
  /\ \E j \in Jitters : poll' = handler.now + PollInterval + j
  /\ alarm' = MinDefined(LaneTimes(handler.fires) \cup {poll'})
  /\ handler' = [handler EXCEPT !.pc = "write"]
  /\ UNCHANGED <<now, config, nextScheduled, fires, patch, dispatched, platform,
                 disturbed, faults>>

\* updateNextScheduled, the last statement.
AlarmWriteNextScheduled ==
  /\ handler.pc = "write"
  /\ nextScheduled' = IF config = NULL THEN nextScheduled ELSE handler.fires
  /\ handler' = Idle
  /\ retries' = 0
  /\ disturbed' = (disturbed \/ \E p \in Patches : patch[p].pc = "write")
  /\ UNCHANGED <<now, config, storage, patch, dispatched, throws, dropped, faults>>

\* A database await throws or the object is evicted.  The platform delivers
\* the alarm again, MaxRetries times; an alarm set meanwhile may stand instead.
AlarmThrows ==
  /\ handler.pc # "idle"
  /\ Fault
  /\ handler' = Idle
  /\ throws' = throws + 1
  /\ \/ /\ retries < MaxRetries
        /\ retries' = retries + 1
        /\ \/ alarm' = now
           \/ alarm # NULL /\ UNCHANGED alarm
        /\ UNCHANGED <<dropped, disturbed>>
     \/ /\ retries = MaxRetries
        /\ retries' = 0
        /\ dropped' = TRUE /\ disturbed' = TRUE
        /\ UNCHANGED alarm
  /\ UNCHANGED <<now, config, nextScheduled, fires, poll, patch, dispatched>>

-----------------------------------------------------------------------------

\* The Space is deleted; the object and its alarm stay.
DeleteSpace ==
  /\ config # NULL
  /\ config' = NULL
  /\ UNCHANGED <<now, nextScheduled, storage, handler, patch, dispatched, platform,
                 disturbed, faults>>

Tick ==
  /\ now < MaxTime
  /\ now' = now + 1
  /\ UNCHANGED <<config, nextScheduled, storage, handler, patch, dispatched, platform,
                 disturbed, faults>>

\* The end of the bounded time, with nothing under way.
AtRest ==
  /\ now = MaxTime /\ handler.pc = "idle"
  /\ ~ (alarm # NULL /\ alarm <= now)
  /\ \A p \in Patches : patch[p].pc \in {"called", "done"}
  /\ UNCHANGED vars

AlarmStep == \/ AlarmDelivered \/ AlarmFetchConfig \/ AlarmReadFires
             \/ AlarmCheckConnection \/ AlarmAdvance \/ AlarmPolled
             \/ AlarmWriteNextScheduled
             \/ \E l \in Lanes : AlarmStartRun(l)
PatchStep(p) == \/ PatchUpsert(p) \/ PatchRegister(p) \/ PatchRevert(p)
                \/ PatchUnregister(p) \/ PatchReadSchedule(p) \/ PatchSend(p)
                \/ PatchWriteNextScheduled(p)

Next ==
  \/ AlarmStep
  \/ \E p \in Patches : PatchReadPrevious(p) \/ PatchStep(p)
  \/ AlarmThrows
  \/ DeleteSpace
  \/ Tick
  \/ AtRest

Spec == Init /\ [][Next]_vars
FairSpec == Spec /\ WF_vars(AlarmStep) /\ WF_vars(Tick)
                 /\ \A p \in Patches : WF_vars(PatchStep(p))

-----------------------------------------------------------------------------

\* While no schedule change meets the handler, the single alarm is exactly
\* the earliest of the three lanes, or a redelivery that is due now.  (Nothing
\* is stored yet for a DO armed before there were lanes.)
AlarmIsEarliest ==
  (/\ handler.pc = "idle" /\ ~ disturbed /\ config # NULL
   /\ fires # NULL \/ poll # NULL) =>
     alarm = Earliest \/ (retries > 0 /\ alarm # NULL /\ alarm <= now)

\* A fire is dispatched again only by a redelivery of the alarm.
FireOncePerDelivery ==
  \A l \in Lanes, t \in 0..MaxTime : dispatched[l][t] <= 1 + throws

Quiet == /\ handler.pc = "idle" /\ retries = 0
         /\ \A p \in Patches : patch[p].pc \in {"called", "upsert", "done"}

\* When nothing is under way, each lane holds the next boundary of its
\* configured cadence (or one that has just come due), and the pages show
\* what is stored, however changes, alarms and time interleaved.
LanesFollowConfig ==
  (Quiet /\ ~ disturbed /\ config # NULL /\ config.frequency # "instant" /\ fires # NULL) =>
     /\ \A l \in Lanes : \/ fires[l] = ComputeFires(config, now)[l]
                         \/ fires[l] # NULL /\ fires[l] <= now
     /\ nextScheduled = fires

\* Every due fire is eventually dispatched or replaced, unless the platform
\* gave up on the alarm or the Space is gone.
IsDue(l) == fires # NULL /\ fires[l] # NULL /\ fires[l] <= now
DueEventuallyServed ==
  \A l \in Lanes : IsDue(l) ~> (~ IsDue(l) \/ dropped \/ config = NULL)
=============================================================================
