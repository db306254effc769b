------------------------ MODULE SpaceSchedulerProofs ------------------------
(***************************************************************************)
(* The safety properties of SpaceScheduler for any number of requests, any *)
(* cadences and periods, any number of redeliveries and faults.            *)
(***************************************************************************)
EXTENDS SpaceScheduler, TLAPS

-----------------------------------------------------------------------------
(* The layers of the inductive invariant.                                  *)

\* The handler has read the stored fires and not stored the next ones yet.
Working   == handler.pc \in {"dispatch", "start", "advance"}
Finishing == handler.pc \in {"poll", "write"}

\* What a DO armed before there were lanes is taken to hold.
LegacyFires(cfg, t) ==
  [NoFires EXCEPT !["full"] =
     IF cfg.scope = "schema_and_data" /\ cfg.frequency # "instant" THEN t ELSE NULL]

\* Values that were read when the step before said so.
ReadInv ==
  /\ HandlerOpen => handler.config \in Config
  /\ \A p \in Patches : /\ patch[p].pc = "upsert" => patch[p].body \in Bodies
                        /\ patch[p].pc = "send" => patch[p].schedule \in Config

\* What the handler works on is what it read, and a DO without stored fires
\* is read as a legacy one.
WorkInv ==
  /\ throws <= faults
  /\ handler.now <= now
  /\ Working => /\ handler.kinds = DueKinds(handler.fires, handler.now)
                /\ handler.todo \subseteq handler.kinds
                /\ fires = NULL => handler.fires = LegacyFires(handler.config, handler.now)
  /\ handler.pc = "dispatch" => handler.todo = handler.kinds
  /\ Finishing => fires # NULL

\* Unless a schedule change met the handler, the storage is the handler's own.
StoreInv == ~ disturbed =>
  /\ Working /\ fires # NULL => handler.fires = fires
  /\ Finishing => handler.fires = fires

\* AlarmIsEarliest through a delivery: an alarm that is set while the handler
\* runs is the earliest of what is stored, but for the poll pass, during which
\* it may be one that has come due.
AlarmInv == ~ disturbed =>
  /\ handler.pc \in {"fetch", "read"} \/ Working =>
       alarm = NULL \/ alarm = Earliest
  /\ handler.pc = "poll" => alarm = NULL \/ alarm = Earliest \/ alarm <= now
  /\ handler.pc = "write" => alarm = Earliest

\* A fire whose dispatches are used up is one this delivery has dispatched
\* and will move on from, or is behind what is stored.
SpentHere(l, t) ==
  /\ Working /\ l \in handler.kinds \ handler.todo
  /\ handler.fires[l] = t
Behind(l, t) ==
  /\ fires # NULL /\ (fires[l] = NULL \/ fires[l] > t)
  /\ Working => handler.fires[l] = NULL \/ handler.fires[l] > t
FireInv == \A l \in Lanes, t \in 0..MaxTime :
  dispatched[l][t] > throws =>
    /\ dispatched[l][t] = 1 + throws
    /\ t <= now
    /\ SpentHere(l, t) \/ Behind(l, t)

\* A request that will read the row and send it on, or has read what it holds.
Pending == \E p \in Patches :
  \/ patch[p].pc \in {"register", "revert", "unregister", "read"}
  \/ patch[p].pc = "send" /\ patch[p].schedule = config

Follows(fs, cfg) == \A l \in Lanes : \/ fs[l] = ComputeFires(cfg, now)[l]
                                     \/ fs[l] # NULL /\ fs[l] <= now

\* Each lane follows the row unless a request is on its way to see to it, and
\* an open handler has read the row as it is.
LaneInv ==
  (~ disturbed /\ config # NULL /\ config.frequency # "instant" /\ ~ Pending) =>
    /\ IF fires = NULL THEN config.schemaFrequency = NULL ELSE Follows(fires, config)
    /\ HandlerOpen => handler.config = config

\* Who will still write next_scheduled_at, and what.
RowInv == (~ disturbed /\ config # NULL /\ fires # NULL /\ ~ Finishing /\ retries = 0) =>
  /\ nextScheduled = fires \/ \E p \in Patches : patch[p].pc = "write"
  /\ \A p \in Patches : patch[p].pc = "write" => patch[p].fires = fires

IInv == /\ TypeOK /\ ReadInv /\ WorkInv /\ StoreInv
        /\ AlarmInv /\ AlarmIsEarliest
        /\ FireInv
        /\ LaneInv /\ RowInv

-----------------------------------------------------------------------------
(* Times.                                                                  *)

\* No time is NULL.
LEMMA NullIsNoTime == NULL \notin Nat
  BY NullAssumption

\* minDefined returns a time, the least there is, and ignores NULL.
LEMMA MinDefinedLeast ==
  ASSUME NEW a \in Times, NEW b \in Times, NEW c \in Times
  PROVE  LET m == MinDefined({a, b, c}) IN
         /\ m \in Times
         /\ m = NULL <=> a = NULL /\ b = NULL /\ c = NULL
         /\ \A t \in {a, b, c} : t # NULL => m <= t
  <1> DEFINE S == {a, b, c}
             least(m) == m \in S \ {NULL} /\ \A u \in S \ {NULL} : m <= u
  <1>1. CASE S \subseteq {NULL}
    BY <1>1 DEF MinDefined, Times
  <1>2. CASE ~ S \subseteq {NULL}
    <2>1. \E m \in S \ {NULL} : \A u \in S \ {NULL} : m <= u
      <3>1. \A x \in S \ {NULL} : x \in Nat
        BY DEF Times
      <3>2. CASE a # NULL /\ (b = NULL \/ a <= b) /\ (c = NULL \/ a <= c)
        BY <3>1, <3>2
      <3>3. CASE b # NULL /\ (a = NULL \/ b <= a) /\ (c = NULL \/ b <= c)
        BY <3>1, <3>3
      <3>4. CASE c # NULL /\ (a = NULL \/ c <= a) /\ (b = NULL \/ c <= b)
        BY <3>1, <3>4
      <3>5. QED
        BY <1>2, <3>1, <3>2, <3>3, <3>4
    <2>2. PICK m \in S \ {NULL} : m = MinDefined(S) /\ \A u \in S \ {NULL} : m <= u
      BY <1>2, <2>1 DEF MinDefined
    <2>3. QED
      BY <2>2
  <1>3. QED
    BY <1>1, <1>2

\* The lanes of the storage are two times.
LEMMA LaneTimesAre ==
  ASSUME NEW fs \in Fires
  PROVE  /\ LaneTimes(fs) = {fs["full"], fs["schema"]}
         /\ fs["full"] \in Times /\ fs["schema"] \in Times
  BY DEF LaneTimes, Lanes, Fires

\* What an alarm is armed with is a time.
LEMMA ArmedIsTime ==
  ASSUME NEW fs \in Fires, NEW p \in Times
  PROVE  /\ MinDefined(LaneTimes(fs) \cup {p}) \in Times
         /\ MinDefined(LaneTimes(fs)) \in Times
         /\ MinDefined(LaneTimes(fs)) = MinDefined(LaneTimes(fs) \cup {NULL})
         /\ MinDefined({p}) = p
         /\ \A l \in Lanes : fs[l] # NULL => MinDefined(LaneTimes(fs) \cup {p}) <= fs[l]
         /\ MinDefined(LaneTimes(fs) \cup {p}) = NULL => NoFires = fs
  <1> DEFINE S == LaneTimes(fs) \cup {p}
             N == LaneTimes(fs) \cup {NULL}
  <1>1. NULL \in Times /\ S = {fs["full"], fs["schema"], p}
        /\ LaneTimes(fs) = {fs["full"], fs["schema"], fs["schema"]}
    BY LaneTimesAre DEF Times
  <1>2. MinDefined(S) \in Times /\ MinDefined(LaneTimes(fs)) \in Times
    BY <1>1, LaneTimesAre, MinDefinedLeast
  <1>3. MinDefined(LaneTimes(fs)) = MinDefined(N)
    <2>1. N \ {NULL} = LaneTimes(fs) \ {NULL}
          /\ (N \subseteq {NULL} <=> LaneTimes(fs) \subseteq {NULL})
      OBVIOUS
    <2> DEFINE Least(T) == CHOOSE t \in T : \A u \in T : t <= u
    <2>2. /\ MinDefined(N) = IF N \subseteq {NULL} THEN NULL ELSE Least(N \ {NULL})
          /\ MinDefined(LaneTimes(fs)) = IF LaneTimes(fs) \subseteq {NULL} THEN NULL
                                         ELSE Least(LaneTimes(fs) \ {NULL})
      BY DEF MinDefined
    <2> HIDE DEF Least, N
    <2>3. QED
      BY <2>1, <2>2
  <1>4. MinDefined({p}) = p
    <2>1. {p} = {p, p, p}
      OBVIOUS
    <2>2. CASE p = NULL
      BY <2>2 DEF MinDefined
    <2>3. CASE p # NULL
      <3>1. {p} \ {NULL} = {p} /\ p <= p
        BY <2>3 DEF Times
      <3>2. QED
        BY <2>3, <3>1 DEF MinDefined
    <2>4. QED
      BY <2>2, <2>3
  <1>5. \A l \in Lanes : fs[l] # NULL => MinDefined(S) <= fs[l]
    BY <1>1, LaneTimesAre, MinDefinedLeast DEF Lanes
  <1>6. MinDefined(S) = NULL => NoFires = fs
    BY <1>1, LaneTimesAre, MinDefinedLeast DEF Lanes, NoFires, Fires
  <1>7. QED
    BY <1>2, <1>3, <1>4, <1>5, <1>6

\* computeNextFire: a later time, and the same one until it has come.
LEMMA NextFireAdvances ==
  ASSUME NEW c \in Cadences, NEW t \in Nat
  PROVE  /\ NextFire(c, t) \in Nat /\ NextFire(c, t) > t
         /\ \A u \in Nat : t <= u /\ u < NextFire(c, t) => NextFire(c, u) = NextFire(c, t)
  <1> DEFINE P == Period[c]
  <1>1. P \in Nat \ {0}
    BY PeriodAssumption
  <1> HIDE DEF P
  <1>2. /\ t \div P \in Nat /\ (t \div P) * P <= t /\ t < (t \div P + 1) * P
    BY <1>1
  <1>3. ASSUME NEW u \in Nat, t <= u, u < (t \div P + 1) * P
        PROVE  u \div P = t \div P
    BY <1>1, <1>2, <1>3
  <1>4. QED
    BY <1>1, <1>2, <1>3 DEF NextFire, P

\* The fires of a configuration: none, or ahead.
LEMMA FiresAhead ==
  ASSUME NEW cfg \in Config, NEW t \in Nat
  PROVE  /\ ComputeFires(cfg, t) \in Fires
         /\ \A l \in Lanes : LET f == ComputeFires(cfg, t)[l] IN
              /\ f # NULL => f \in Nat /\ f > t
              /\ \A u \in Nat : t <= u =>
                   \/ ComputeFires(cfg, u)[l] = f
                   \/ f # NULL /\ f <= u
  <1>1. ASSUME NEW c \in Cadences \cup {"instant", NULL}, NEW u \in Nat
        PROVE  /\ FireFor(c, u) \in Times
               /\ FireFor(c, u) # NULL => c \in Cadences /\ FireFor(c, u) = NextFire(c, u)
               /\ c \notin Cadences => FireFor(c, u) = NULL
               /\ c \in Cadences => FireFor(c, u) = NextFire(c, u)
    BY NextFireAdvances DEF FireFor, Times
  <1>2. ASSUME NEW c \in Cadences \cup {"instant", NULL}
        PROVE  LET f == FireFor(c, t) IN
               /\ f # NULL => f \in Nat /\ f > t
               /\ \A u \in Nat : t <= u => FireFor(c, u) = f \/ (f # NULL /\ f <= u)
    <2>1. CASE c \in Cadences
      BY <1>1, <2>1, NextFireAdvances, NullIsNoTime
    <2>2. CASE c \notin Cadences
      BY <1>1, <2>2
    <2>3. QED
      BY <2>1, <2>2
  <1>3. cfg.frequency \in Cadences \cup {"instant", NULL}
        /\ cfg.schemaFrequency \in Cadences \cup {"instant", NULL}
    BY DEF Config
  <1>4. ASSUME NEW u \in Nat
        PROVE  /\ ComputeFires(cfg, u)["schema"] = FireFor(cfg.schemaFrequency, u)
               /\ ComputeFires(cfg, u)["full"] = IF cfg.scope = "schema_and_data"
                                               THEN FireFor(cfg.frequency, u) ELSE NULL
               /\ ComputeFires(cfg, u) \in Fires
    BY <1>1, <1>3 DEF ComputeFires, Lanes, Fires, Times
  <1>5. QED
    BY <1>2, <1>3, <1>4 DEF Lanes

\* A lane that follows the row goes on doing so while time passes.
LEMMA FollowsStays ==
  ASSUME NEW cfg \in Config, NEW fs \in Fires, NEW t \in Nat, NEW u \in Nat, t <= u,
         NEW l \in Lanes, fs[l] = ComputeFires(cfg, t)[l] \/ (fs[l] # NULL /\ fs[l] <= t)
  PROVE  fs[l] = ComputeFires(cfg, u)[l] \/ (fs[l] # NULL /\ fs[l] <= u)
  <1>1. CASE fs[l] = ComputeFires(cfg, t)[l]
    BY <1>1, FiresAhead
  <1>2. CASE fs[l] # NULL /\ fs[l] <= t
    BY <1>2 DEF Fires, Times
  <1>3. QED
    BY <1>1, <1>2

\* The upsert leaves a row of the schema.
LEMMA ApplyType ==
  ASSUME NEW body \in Bodies, NEW cfg \in Config
  PROVE  Apply(body, cfg) \in Config
  <1> DEFINE new == Apply(body, cfg)
  <1>1. new = [scope |-> new["scope"], frequency |-> new["frequency"],
               schemaFrequency |-> new["schemaFrequency"]]
    BY DEF Apply, Fields
  <1>2. /\ new["scope"] \in Scopes
        /\ new["frequency"] \in Cadences \cup {"instant"}
        /\ new["schemaFrequency"] \in Cadences \cup {NULL}
    BY BodiesAssumption DEF Apply, Fields, Config
  <1>3. QED
    BY <1>1, <1>2 DEF Config

\* NULL is none of the values it stands in for.
LEMMA NullIsApart == /\ NULL \notin Config /\ NULL \notin Bodies /\ NULL \notin Fires
                     /\ NULL \notin Cadences /\ NULL # "instant" /\ NULL \notin Nat
  BY NullAssumption

-----------------------------------------------------------------------------
(* The induction, one lemma per layer.                                     *)

\* The states of a handler and of a request.
HandlerType ==
  [pc : {"idle", "fetch", "read", "dispatch", "start", "advance", "poll", "write"},
   config : Config \cup {NULL}, fires : Fires, now : 0..MaxTime,
   kinds : SUBSET Lanes, todo : SUBSET Lanes]
PatchType ==
  [pc : {"called", "upsert", "register", "revert", "unregister", "read", "send",
         "write", "done"},
   body : Bodies \cup {NULL}, previous : Cadences \cup {"instant", NULL},
   schedule : Config \cup {NULL}, fires : Fires]

LEMMA IdleType == Idle \in HandlerType /\ Called \in PatchType /\ Answered \in PatchType
                  /\ NoFires \in Fires /\ Answered.pc = "done"
  BY BoundsAssumption DEF Idle, HandlerType, Called, Answered, PatchType, NoFires, Fires,
     Times

(* A PATCH step only touches its own request.                              *)
LEMMA PatchTypeStep ==
  ASSUME TypeOK, ReadInv, NEW p \in Patches, PatchReadPrevious(p) \/ PatchStep(p)
  PROVE  /\ \E new \in PatchType :
              /\ patch' = [patch EXCEPT ![p] = new]
              /\ new.pc = "upsert" => new.body \in Bodies
              /\ new.pc = "send" => new.schedule \in Config
         /\ config' \in Config \cup {NULL} /\ (config = NULL => config' = NULL)
         /\ fires' \in Fires \cup {NULL} /\ poll' \in Times /\ alarm' \in Times
         /\ nextScheduled' \in Fires
         /\ dropped' \in BOOLEAN /\ disturbed' \in BOOLEAN /\ faults' \in 0..MaxFaults
         /\ UNCHANGED <<now, handler, dispatched, throws, retries>>
  <1> USE DEF Fault, Goes, Ends, storage, platform
  <1>0. /\ patch[p] \in PatchType /\ patch \in [Patches -> PatchType]
        /\ now \in Nat /\ config \in Config \cup {NULL} /\ poll \in Times
        /\ fires \in Fires \cup {NULL} /\ alarm \in Times /\ nextScheduled \in Fires
        /\ MaxFaults \in Nat /\ faults \in 0..MaxFaults
        /\ dropped \in BOOLEAN /\ disturbed \in BOOLEAN
    BY BoundsAssumption DEF TypeOK, PatchType
  <1>1. CASE PatchReadPrevious(p)
    <2>1. PICK b \in Bodies, failed \in BOOLEAN :
            /\ patch' = [patch EXCEPT ![p].pc = "upsert", ![p].body = b,
                 ![p].previous = IF failed \/ "frequency" \notin DOMAIN b THEN NULL
                                 ELSE config.frequency]
            /\ IF failed THEN "frequency" \in DOMAIN b /\ Fault ELSE UNCHANGED faults
      BY <1>1 DEF PatchReadPrevious
    <2> DEFINE new == [patch[p] EXCEPT !.pc = "upsert", !.body = b,
                 !.previous = IF failed \/ "frequency" \notin DOMAIN b THEN NULL
                              ELSE config.frequency]
    <2>2. config # NULL => config.frequency \in Cadences \cup {"instant", NULL}
      BY <1>0 DEF Config
    <2>3. new \in PatchType /\ patch' = [patch EXCEPT ![p] = new]
          /\ new.pc = "upsert" /\ new.body = b
      BY <1>0, <1>1, <2>1, <2>2 DEF PatchReadPrevious, PatchType
    <2>4. faults' \in 0..MaxFaults
      BY <1>0, <2>1
    <2>5. UNCHANGED <<now, config, nextScheduled, fires, poll, alarm, handler, dispatched,
                      throws, retries, dropped, disturbed>>
      BY <1>1 DEF PatchReadPrevious
    <2>6. QED
      BY <1>0, <2>3, <2>4, <2>5
  <1>2. CASE PatchUpsert(p)
    <2>1. CASE config = NULL
      BY <1>0, <1>2, <2>1, IdleType DEF PatchUpsert
    <2>2. CASE config # NULL
      <3>1. config' \in Config
        BY <1>0, <1>2, <2>2, ApplyType DEF PatchUpsert, ReadInv
      <3>2. PICK next \in {"read", "register", "unregister"} :
              patch' = [patch EXCEPT ![p].pc = next, ![p].body = NULL,
                          ![p].previous = IF next = "register" THEN @ ELSE NULL]
        BY <1>2, <2>2 DEF PatchUpsert
      <3> DEFINE new == [patch[p] EXCEPT !.pc = next, !.body = NULL,
                           !.previous = IF next = "register" THEN @ ELSE NULL]
      <3>3. new \in PatchType /\ patch' = [patch EXCEPT ![p] = new] /\ new.pc = next
        BY <1>0, <3>2 DEF PatchType
      <3>4. QED
        BY <1>0, <1>2, <2>2, <3>1, <3>3 DEF PatchUpsert
    <2>3. QED
      BY <2>1, <2>2
  <1>3. CASE PatchRegister(p)
    <2>1. /\ poll' \in Times /\ alarm' \in Times
          /\ dropped' \in BOOLEAN /\ disturbed' \in BOOLEAN /\ faults' \in 0..MaxFaults
      <3>1. CASE UNCHANGED <<poll, alarm, dropped, disturbed>>
        BY <1>0, <1>3, <3>1 DEF PatchRegister
      <3>2. CASE ~ UNCHANGED <<poll, alarm, dropped, disturbed>>
        <4>1. /\ \E j \in Jitters : poll' = now + PollInterval + j
              /\ alarm' = MinDefined(IF fires = NULL THEN {poll'}
                                     ELSE LaneTimes(fires) \cup {poll'})
              /\ disturbed' = (disturbed \/ HandlerOpen)
              /\ dropped' = FALSE /\ UNCHANGED faults
          BY <1>3, <3>2 DEF PatchRegister
        <4>2. poll' \in Times
          BY <1>0, <4>1, PollAssumption DEF Times
        <4>3. alarm' \in Times
          BY <1>0, <4>1, <4>2, ArmedIsTime
        <4>4. QED
          BY <1>0, <4>1, <4>2, <4>3
      <3>3. QED
        BY <3>1, <3>2
    <2>2. PICK next \in {"read", "revert"} : patch' = [patch EXCEPT ![p].pc = next]
      BY <1>3 DEF PatchRegister
    <2> DEFINE new == [patch[p] EXCEPT !.pc = next]
    <2>3. new \in PatchType /\ patch' = [patch EXCEPT ![p] = new] /\ new.pc = next
      BY <1>0, <2>2 DEF PatchType
    <2>4. QED
      BY <1>0, <1>3, <2>1, <2>3 DEF PatchRegister
  <1>4. CASE PatchRevert(p)
    <2>1. config' \in Config \cup {NULL} /\ (config = NULL => config' = NULL)
      <3>1. (IF patch[p].previous = NULL THEN "monthly" ELSE patch[p].previous)
              \in Cadences \cup {"instant"}
        BY <1>0, CadenceAssumption DEF PatchType
      <3>2. QED
        BY <1>0, <1>4, <3>1 DEF PatchRevert, Config
    <2>2. QED
      BY <1>0, <1>4, <2>1, IdleType DEF PatchRevert
  <1>5. CASE PatchUnregister(p)
    <2>1. poll' \in Times /\ alarm' \in Times
      BY <1>0, <1>5, ArmedIsTime DEF PatchUnregister, AlarmWithoutPoll, Times
    <2> DEFINE new == [patch[p] EXCEPT !.pc = "read"]
    <2>2. new \in PatchType /\ patch' = [patch EXCEPT ![p] = new] /\ new.pc = "read"
      BY <1>0, <1>5 DEF PatchUnregister, PatchType
    <2>5. disturbed' \in BOOLEAN
      BY <1>0, <1>5, Zenon DEF PatchUnregister
    <2>3. /\ faults' \in 0..MaxFaults
          /\ UNCHANGED <<now, config, nextScheduled, fires, handler, dispatched,
                         throws, retries, dropped>>
      BY <1>0, <1>5 DEF PatchUnregister
    <2>4. QED
      BY <1>0, <2>1, <2>2, <2>3, <2>5
  <1>6. CASE PatchReadSchedule(p)
    <2>1. CASE config = NULL
      BY <1>0, <1>6, <2>1, IdleType DEF PatchReadSchedule
    <2>2. CASE config # NULL
      <3> DEFINE new == [patch[p] EXCEPT !.pc = "send", !.schedule = config,
                                         !.previous = NULL]
      <3>1. new \in PatchType /\ patch' = [patch EXCEPT ![p] = new]
            /\ new.schedule = config /\ new.pc = "send"
        BY <1>0, <1>6, <2>2 DEF PatchReadSchedule, PatchType
      <3>2. QED
        BY <1>0, <1>6, <2>2, <3>1 DEF PatchReadSchedule
    <2>3. QED
      BY <2>1, <2>2
  <1>7. CASE PatchSend(p)
    <2> DEFINE fs == ComputeFires(patch[p].schedule, now)
    <2>1. fs \in Fires
      BY <1>0, <1>7, FiresAhead DEF PatchSend, ReadInv
    <2>2. CASE patch' = [patch EXCEPT ![p] = Answered]
      <3>1. fires' \in Fires \cup {NULL} /\ alarm' \in Times
        BY <1>0, <1>7, <2>1, ArmedIsTime DEF PatchSend, SetScheduleAlarm
      <3>4. disturbed' \in BOOLEAN /\ dropped' \in BOOLEAN
        BY <1>0, <1>7, Zenon DEF PatchSend
      <3>2. UNCHANGED <<now, config, nextScheduled, poll, handler, dispatched,
                        throws, retries>>
        BY <1>7 DEF PatchSend
      <3>5. faults' = faults \/ Fault
        BY <1>7, Zenon DEF PatchSend
      <3>3. faults' \in 0..MaxFaults
        BY <1>0, <3>5
      <3> QED
        BY <1>0, <2>2, <3>1, <3>2, <3>3, <3>4, IdleType
    <2>3. CASE patch' # [patch EXCEPT ![p] = Answered]
      <3> DEFINE new == [patch[p] EXCEPT !.pc = "write", !.fires = fs, !.schedule = NULL]
      <3>1. /\ fires' = fs
            /\ alarm' = SetScheduleAlarm(fs)
            /\ patch' = [patch EXCEPT ![p].pc = "write", ![p].fires = fs,
                                      ![p].schedule = NULL]
            /\ disturbed' \in BOOLEAN /\ dropped' = FALSE /\ UNCHANGED faults
        BY <1>7, <2>3 DEF PatchSend
      <3>2. new \in PatchType /\ patch' = [patch EXCEPT ![p] = new] /\ new.pc = "write"
        BY <1>0, <2>1, <3>1 DEF PatchType
      <3>3. alarm' \in Times
        BY <1>0, <2>1, <3>1, ArmedIsTime DEF SetScheduleAlarm
      <3>4. QED
        BY <1>0, <1>7, <2>1, <3>1, <3>2, <3>3 DEF PatchSend
    <2>4. QED
      BY <2>2, <2>3
  <1>8. CASE PatchWriteNextScheduled(p)
    <2>1. nextScheduled' \in Fires
      BY <1>0, <1>8 DEF PatchWriteNextScheduled, PatchType
    <2>2. disturbed' \in BOOLEAN
      BY <1>0, <1>8, Zenon DEF PatchWriteNextScheduled
    <2>5. faults' \in 0..MaxFaults
      BY <1>0, <1>8 DEF PatchWriteNextScheduled
    <2>3. patch' = [patch EXCEPT ![p] = Answered]
          /\ UNCHANGED <<now, config, fires, poll, alarm, handler, dispatched,
                        throws, retries, dropped>>
      BY <1>8 DEF PatchWriteNextScheduled
    <2>4. QED
      BY <1>0, <2>1, <2>2, <2>3, <2>5, IdleType
  <1>9. QED
    BY <1>1, <1>2, <1>3, <1>4, <1>5, <1>6, <1>7, <1>8 DEF PatchStep

(* The handler computes with what it read, so what it stores is well-typed. *)
LEMMA AlarmTypeStep ==
  ASSUME TypeOK, ReadInv, WorkInv, AlarmStep \/ AlarmThrows
  PROVE  /\ handler' \in HandlerType
         /\ HandlerOpen' => handler'.config \in Config
         /\ dispatched' \in [Lanes -> [0..MaxTime -> Nat]]
         /\ fires' \in Fires \cup {NULL} /\ poll' \in Times /\ alarm' \in Times
         /\ nextScheduled' \in Fires
         /\ throws' \in 0..MaxFaults /\ retries' \in 0..MaxRetries
         /\ faults' \in 0..MaxFaults
         /\ dropped' \in BOOLEAN /\ disturbed' \in BOOLEAN
         /\ UNCHANGED <<now, config, patch>>
  <1> USE DEF storage, platform
  <1>0. /\ handler \in HandlerType /\ dispatched \in [Lanes -> [0..MaxTime -> Nat]]
        /\ now \in Nat /\ now \in 0..MaxTime /\ config \in Config \cup {NULL}
        /\ fires \in Fires \cup {NULL} /\ poll \in Times /\ alarm \in Times
        /\ nextScheduled \in Fires
        /\ throws \in 0..MaxFaults /\ retries \in 0..MaxRetries /\ faults \in 0..MaxFaults
        /\ MaxFaults \in Nat /\ MaxRetries \in Nat
        /\ dropped \in BOOLEAN /\ disturbed \in BOOLEAN
    BY BoundsAssumption DEF TypeOK, HandlerType
  <1>1. CASE AlarmDelivered
    <2>1. handler' \in HandlerType /\ handler'.pc = "fetch"
      BY <1>0, <1>1 DEF AlarmDelivered, HandlerType
    <2>2. QED
      BY <1>0, <1>1, <2>1 DEF AlarmDelivered, Times, HandlerOpen
  <1>2. CASE AlarmFetchConfig
    <2>1. CASE config = NULL
      <3>1. /\ handler' = Idle /\ retries' = 0 /\ handler'.pc = "idle"
            /\ UNCHANGED <<now, config, nextScheduled, fires, poll, alarm, patch,
                           dispatched, throws, dropped, disturbed, faults>>
        BY <1>2, <2>1 DEF AlarmFetchConfig, Idle
      <3>2. QED
        BY <1>0, <3>1, IdleType DEF HandlerOpen
    <2>2. CASE config # NULL
      <3>1. handler' \in HandlerType /\ handler'.config = config
        BY <1>0, <1>2, <2>2 DEF AlarmFetchConfig, HandlerType
      <3>2. QED
        BY <1>0, <1>2, <2>2, <3>1 DEF AlarmFetchConfig
    <2>3. QED
      BY <2>1, <2>2
  <1>3. CASE AlarmReadFires
    <2>1. FiresOrLegacy \in Fires
      BY <1>0, <1>3, IdleType DEF FiresOrLegacy, Fires, Times
    <2>2. DueKinds(FiresOrLegacy, now) \in SUBSET Lanes
      BY DEF DueKinds
    <2>3. handler' \in HandlerType /\ handler'.config = handler.config
      BY <1>0, <1>3, <2>1, <2>2 DEF AlarmReadFires, HandlerType
    <2>4. QED
      BY <1>0, <1>3, <2>3 DEF AlarmReadFires, ReadInv, HandlerOpen
  <1>4. ASSUME NEW kinds
        PROVE  Attempted(kinds) \in [Lanes -> [0..MaxTime -> Nat]]
    <2>1. ASSUME NEW l \in Lanes, NEW t \in 0..MaxTime
          PROVE  dispatched[l][t] + (IF l \in kinds /\ handler.fires[l] = t THEN 1 ELSE 0)
                   \in Nat
      <3>1. dispatched[l][t] \in Nat
        BY <1>0
      <3>2. QED
        BY <3>1
    <2>2. QED
      BY <2>1 DEF Attempted
  <1>5. CASE AlarmCheckConnection
    <2>1. handler' \in HandlerType /\ handler'.config = handler.config
      BY <1>0, <1>5 DEF AlarmCheckConnection, AfterSkip, HandlerType
    <2>2. QED
      BY <1>0, <1>4, <1>5, <2>1 DEF AlarmCheckConnection, ReadInv, HandlerOpen
  <1>6. ASSUME NEW l \in Lanes, AlarmStartRun(l)
        PROVE  /\ handler' \in HandlerType /\ handler'.config = handler.config
               /\ dispatched' \in [Lanes -> [0..MaxTime -> Nat]]
               /\ UNCHANGED <<now, config, nextScheduled, fires, poll, alarm, patch,
                              throws, retries, dropped, disturbed, faults>>
               /\ handler.pc = "start"
    BY <1>0, <1>4, <1>6 DEF AlarmStartRun, HandlerType
  <1>7. CASE AlarmAdvance
    <2>1. NextFires \in Fires
      <3>1. handler.config \in Config /\ handler.now \in Nat /\ handler.fires \in Fires
        BY <1>0, <1>7 DEF AlarmAdvance, ReadInv, HandlerOpen, HandlerType
      <3>2. QED
        BY <3>1, FiresAhead DEF NextFires, Fires
    <2>2. poll' \in Times
      BY <1>0, <1>7 DEF AlarmAdvance, Times
    <2>3. alarm' \in Times
      BY <1>0, <1>7, <2>1, <2>2, ArmedIsTime DEF AlarmAdvance
    <2>4. handler' \in HandlerType /\ handler'.config = handler.config
      BY <1>0, <1>7, <2>1 DEF AlarmAdvance, HandlerType
    <2>5. QED
      BY <1>0, <1>7, <2>1, <2>2, <2>3, <2>4 DEF AlarmAdvance, ReadInv, HandlerOpen
  <1>8. CASE AlarmPolled
    <2>1. handler.now \in Nat /\ handler.fires \in Fires
      BY <1>0 DEF HandlerType
    <2>2. poll' \in Times
      BY <1>8, <2>1, PollAssumption DEF AlarmPolled, Times
    <2>3. alarm' \in Times
      BY <1>8, <2>1, <2>2, ArmedIsTime DEF AlarmPolled
    <2>4. handler' \in HandlerType /\ handler'.config = handler.config
      BY <1>0, <1>8 DEF AlarmPolled, HandlerType
    <2>5. QED
      BY <1>0, <1>8, <2>2, <2>3, <2>4 DEF AlarmPolled, ReadInv, HandlerOpen
  <1>9. CASE AlarmWriteNextScheduled
    <2>1. nextScheduled' \in Fires
      BY <1>0, <1>9 DEF AlarmWriteNextScheduled, HandlerType
    <2>2. disturbed' \in BOOLEAN
      BY <1>0, <1>9, Zenon DEF AlarmWriteNextScheduled
    <2>3. /\ handler' = Idle /\ retries' = 0
          /\ UNCHANGED <<now, config, fires, poll, alarm, patch, dispatched, throws,
                         dropped, faults>>
      BY <1>9 DEF AlarmWriteNextScheduled
    <2>4. QED
      BY <1>0, <2>1, <2>2, <2>3, IdleType DEF Idle, HandlerOpen
  <1>10. CASE AlarmThrows
    <2>1. /\ handler' = Idle /\ throws' = throws + 1
          /\ faults' \in 0..MaxFaults /\ faults < MaxFaults
          /\ retries' \in 0..MaxRetries
          /\ alarm' = now \/ alarm' = alarm
          /\ UNCHANGED <<now, config, nextScheduled, fires, poll, patch, dispatched>>
      BY <1>0, <1>10 DEF AlarmThrows, Fault
    <2>2. dropped' \in BOOLEAN /\ disturbed' \in BOOLEAN
      BY <1>0, <1>10, Zenon DEF AlarmThrows
    <2>3. throws' \in 0..MaxFaults
      BY <1>0, <2>1 DEF WorkInv
    <2>4. QED
      BY <1>0, <2>1, <2>2, <2>3, IdleType DEF Idle, HandlerOpen, Times
  <1>11. QED
    BY <1>0, <1>1, <1>2, <1>3, <1>5, <1>6, <1>7, <1>8, <1>9, <1>10
       DEF AlarmStep, ReadInv, HandlerOpen

(* Types, and that what a step needs was read before.                      *)
LEMMA TypeStep ==
  ASSUME TypeOK, ReadInv, WorkInv, [Next]_vars
  PROVE  TypeOK' /\ ReadInv'
  <1>0. /\ handler \in HandlerType /\ patch \in [Patches -> PatchType]
        /\ now \in 0..MaxTime /\ MaxTime \in Nat
    BY BoundsAssumption DEF TypeOK, HandlerType, PatchType
  <1>1. ASSUME NEW p \in Patches, PatchReadPrevious(p) \/ PatchStep(p)
        PROVE  TypeOK' /\ ReadInv'
    <2>1. PICK new \in PatchType :
            /\ patch' = [patch EXCEPT ![p] = new]
            /\ new.pc = "upsert" => new.body \in Bodies
            /\ new.pc = "send" => new.schedule \in Config
      BY <1>1, PatchTypeStep
    <2>2. patch' \in [Patches -> PatchType]
      BY <1>0, <2>1
    <2>3. TypeOK'
      BY <1>1, <2>2, PatchTypeStep DEF TypeOK, PatchType
    <2>4. ReadInv'
      BY <1>0, <1>1, <2>1, PatchTypeStep DEF ReadInv, HandlerOpen
    <2>5. QED
      BY <2>3, <2>4
  <1>2. CASE AlarmStep \/ AlarmThrows
    <2>1. TypeOK'
      BY <1>0, <1>2, AlarmTypeStep DEF TypeOK, HandlerType
    <2>2. ReadInv'
      BY <1>2, AlarmTypeStep DEF ReadInv
    <2>3. QED
      BY <2>1, <2>2
  <1>3. CASE DeleteSpace
    BY <1>3 DEF DeleteSpace, TypeOK, ReadInv, HandlerOpen, storage, platform
  <1>4. CASE Tick
    <2>1. now' \in 0..MaxTime
      BY <1>0, <1>4 DEF Tick
    <2>2. QED
      BY <1>4, <2>1 DEF Tick, TypeOK, ReadInv, HandlerOpen, storage, platform
  <1>5. CASE AtRest \/ UNCHANGED vars
    BY <1>5 DEF AtRest, vars, TypeOK, ReadInv, HandlerOpen, storage, platform
  <1>6. QED
    BY <1>1, <1>2, <1>3, <1>4, <1>5 DEF Next

(* The first state of a Space that was set up before.                      *)
THEOREM InitInv == Init => IInv
  <1> SUFFICES ASSUME Init
               PROVE  IInv
    OBVIOUS
  <1> USE DEF Init
  <1>1. config \in Config /\ config # NULL /\ 0 \in Nat
    BY ConfigAssumption, NullIsApart
  <1>2. /\ handler = Idle /\ handler.pc = "idle" /\ handler.now = 0
        /\ \A p \in Patches : patch[p].pc = "called"
        /\ patch = [p \in Patches |-> Called]
    BY DEF Idle, Called
  <1>3. /\ fires \in Fires \cup {NULL} /\ poll \in Times /\ alarm \in Times
        /\ nextScheduled \in Fires
    <2>1. CASE fires = ComputeFires(config, 0) /\ poll = NULL
               /\ alarm = MinDefined(LaneTimes(fires)) /\ nextScheduled = fires
      BY <1>1, <2>1, FiresAhead, ArmedIsTime DEF Times
    <2>2. CASE fires = NULL /\ poll = PollInterval /\ alarm = PollInterval
               /\ nextScheduled = NoFires
      BY <2>2, PollAssumption, IdleType DEF Times
    <2>3. CASE /\ config.frequency # "instant" /\ fires = NULL /\ poll = NULL
               /\ alarm \in {NULL, NextFire(config.frequency, 0)}
               /\ nextScheduled = NoFires
      BY <1>1, <2>3, IdleType, NextFireAdvances DEF Times, Config
    <2>4. QED
      BY <2>1, <2>2, <2>3
  <1>4. TypeOK
    <2>1. /\ 0 \in 0..MaxTime /\ 0 \in 0..MaxFaults /\ 0 \in 0..MaxRetries
          /\ dispatched \in [Lanes -> [0..MaxTime -> Nat]]
      BY BoundsAssumption
    <2>2. handler \in HandlerType /\ patch \in [Patches -> PatchType]
      BY <1>2, IdleType
    <2>3. QED
      BY <1>1, <1>3, <2>1, <2>2 DEF TypeOK, HandlerType, PatchType
  <1>5. ReadInv
    BY <1>2 DEF ReadInv, HandlerOpen
  <1>6. WorkInv
    BY <1>2 DEF WorkInv, Working, Finishing
  <1>7. StoreInv
    BY <1>2 DEF StoreInv, Working, Finishing
  <1>8. AlarmInv
    BY <1>2 DEF AlarmInv, Working
  <1>9. AlarmIsEarliest
    <2>1. CASE fires = ComputeFires(config, 0) /\ poll = NULL
               /\ alarm = MinDefined(LaneTimes(fires))
      <3>1. fires # NULL /\ fires \in Fires
        BY <1>1, <2>1, FiresAhead, NullIsApart
      <3>2. alarm = Earliest
        BY <1>3, <2>1, <3>1, ArmedIsTime DEF Earliest
      <3>3. QED
        BY <3>2 DEF AlarmIsEarliest
    <2>2. CASE fires = NULL /\ poll = PollInterval /\ alarm = PollInterval
      <3>1. fires = NULL /\ alarm = Earliest
        BY <1>1, <1>3, <2>2, ArmedIsTime, FiresAhead DEF Earliest
      <3>2. QED
        BY <3>1 DEF AlarmIsEarliest
    <2>3. CASE fires = NULL /\ poll = NULL
      BY <2>3 DEF AlarmIsEarliest
    <2>4. QED
      BY <2>1, <2>2, <2>3
  <1>10. FireInv
    BY DEF FireInv
  <1>11. LaneInv
    <2>1. CASE fires = ComputeFires(config, 0)
      <3>1. fires # NULL /\ now = 0
        BY <1>1, <2>1, FiresAhead, NullIsApart
      <3>2. QED
        BY <1>2, <2>1, <3>1 DEF LaneInv, Follows, HandlerOpen
    <2>2. CASE fires = NULL /\ config.schemaFrequency = NULL
      BY <1>2, <2>2 DEF LaneInv, HandlerOpen
    <2>3. QED
      BY <2>1, <2>2
  <1>12. RowInv
    <2>1. CASE fires = NULL
      BY <2>1 DEF RowInv
    <2>2. CASE nextScheduled = fires
      BY <1>2, <2>2 DEF RowInv
    <2>3. QED
      BY <2>1, <2>2
  <1>13. QED
    BY <1>4, <1>5, <1>6, <1>7, <1>8, <1>9, <1>10, <1>11, <1>12 DEF IInv

(* A request arms the alarm with the earliest of what it leaves stored, and *)
(* is marked when it does so under an open handler.                        *)
LEMMA PatchStorage ==
  ASSUME TypeOK, ReadInv, NEW p \in Patches, PatchReadPrevious(p) \/ PatchStep(p)
  PROVE  \/ UNCHANGED storage /\ (disturbed => disturbed')
         \/ /\ alarm' = Earliest' /\ (HandlerOpen => disturbed')
            /\ \/ UNCHANGED fires
               \/ fires' \in Fires /\ \A l \in Lanes : fires'[l] = NULL \/ fires'[l] > now
  <1>0. fires \in Fires \cup {NULL} /\ poll \in Times /\ NULL \notin Fires /\ now \in Nat
        /\ fires' \in Fires \cup {NULL} /\ poll' \in Times
    BY PatchTypeStep, NullIsApart, BoundsAssumption DEF TypeOK
  <1>1. CASE PatchReadPrevious(p)
    BY <1>1 DEF PatchReadPrevious
  <1>2. CASE PatchUpsert(p)
    BY <1>2 DEF PatchUpsert, storage
  <1>3. CASE PatchRegister(p)
    <2>1. CASE UNCHANGED <<poll, alarm, dropped, disturbed>>
      BY <1>3, <2>1 DEF PatchRegister, storage
    <2>2. CASE ~ UNCHANGED <<poll, alarm, dropped, disturbed>>
      <3>1. /\ alarm' = MinDefined(IF fires = NULL THEN {poll'}
                                   ELSE LaneTimes(fires) \cup {poll'})
            /\ disturbed' = (disturbed \/ HandlerOpen)
            /\ UNCHANGED fires
        BY <1>3, <2>2 DEF PatchRegister
      <3>2. alarm' = Earliest'
        BY <3>1 DEF Earliest
      <3>3. QED
        BY <3>1, <3>2
    <2>3. QED
      BY <2>1, <2>2
  <1>4. CASE PatchRevert(p)
    BY <1>4 DEF PatchRevert
  <1>5. CASE PatchUnregister(p)
    <2>1. UNCHANGED fires
      BY <1>5 DEF PatchUnregister
    <2>2. CASE /\ poll' = NULL
               /\ alarm' = AlarmWithoutPoll
               /\ disturbed' = (disturbed \/ HandlerOpen)
      <3>1. NULL \in Times
        BY DEF Times
      <3>2. alarm' = Earliest'
        <4>1. CASE fires = NULL
          BY <2>1, <2>2, <3>1, <4>1, ArmedIsTime, IdleType DEF Earliest, AlarmWithoutPoll
        <4>2. CASE fires # NULL
          <5>1. /\ alarm' = MinDefined(LaneTimes(fires))
                /\ Earliest' = MinDefined(LaneTimes(fires) \cup {NULL})
            BY <2>1, <2>2, <4>2 DEF Earliest, AlarmWithoutPoll
          <5>2. QED
            BY <1>0, <3>1, <4>2, <5>1, ArmedIsTime
        <4>3. QED
          BY <4>1, <4>2
      <3>3. QED
        BY <2>1, <2>2, <3>2
    <2>3. CASE UNCHANGED <<poll, alarm, disturbed>>
      BY <2>1, <2>3 DEF storage
    <2>4. QED
      BY <1>5, <2>2, <2>3 DEF PatchUnregister
  <1>6. CASE PatchReadSchedule(p)
    BY <1>6 DEF PatchReadSchedule
  <1>7. CASE PatchSend(p)
    <2> DEFINE fs == ComputeFires(patch[p].schedule, now)
    <2>1. UNCHANGED poll
      BY <1>7 DEF PatchSend
    <2>2. CASE /\ fires' = fs
               /\ alarm' = SetScheduleAlarm(fs)
               /\ disturbed' = \/ HandlerOpen
                               \/ patch[p].schedule # config
                               \/ \E q \in Patches \ {p} : patch[q].pc = "write"
      <3>1. fs \in Fires /\ \A l \in Lanes : fs[l] = NULL \/ fs[l] > now
        BY <1>0, <1>7, FiresAhead DEF PatchSend, ReadInv
      <3>2. alarm' = Earliest'
        BY <1>0, <2>1, <2>2, <3>1 DEF Earliest, SetScheduleAlarm
      <3>3. QED
        BY <2>2, <3>1, <3>2
    <2>3. CASE UNCHANGED <<fires, alarm, disturbed>>
      BY <2>1, <2>3 DEF storage
    <2>4. CASE UNCHANGED <<fires, alarm>> /\ disturbed' = TRUE
      BY <2>1, <2>4 DEF storage
    <2>5. QED
      BY <1>7, <2>2, <2>3, <2>4 DEF PatchSend
  <1>8. CASE PatchWriteNextScheduled(p)
    BY <1>8 DEF PatchWriteNextScheduled
  <1>9. QED
    BY <1>1, <1>2, <1>3, <1>4, <1>5, <1>6, <1>7, <1>8 DEF PatchStep

\* A step of a request is at most one fault.
LEMMA PatchFaults ==
  ASSUME NEW p \in Patches, PatchReadPrevious(p) \/ PatchStep(p)
  PROVE  faults' = faults \/ Fault
  BY DEF PatchReadPrevious, PatchStep, PatchUpsert, PatchRegister, PatchRevert,
         PatchUnregister, PatchReadSchedule, PatchSend, PatchWriteNextScheduled

(* The handler's own variables, and that stored fires never go away.       *)
LEMMA WorkStep ==
  ASSUME TypeOK, ReadInv, WorkInv, [Next]_vars
  PROVE  WorkInv'
  <1> USE DEF Working, Finishing, storage, platform
  <1>0. /\ handler \in HandlerType /\ now \in Nat /\ NULL \notin Fires
        /\ throws \in Nat /\ faults \in Nat /\ fires \in Fires \cup {NULL}
        /\ handler.now \in Nat
    BY NullIsApart, BoundsAssumption DEF TypeOK, HandlerType
  <1>1. ASSUME NEW p \in Patches, PatchReadPrevious(p) \/ PatchStep(p)
        PROVE  WorkInv'
    <2>1. UNCHANGED <<now, handler, throws>> /\ (faults' = faults \/ faults' = faults + 1)
      BY <1>1, PatchTypeStep, PatchFaults DEF Fault
    <2>2. fires' = NULL => fires = NULL
      BY <1>0, <1>1, PatchStorage
    <2>3. QED
      BY <1>0, <2>1, <2>2 DEF WorkInv
  <1>2. CASE AlarmDelivered
    BY <1>0, <1>2 DEF AlarmDelivered, WorkInv, HandlerType
  <1>3. CASE AlarmFetchConfig
    <2>1. /\ \/ handler' = Idle
             \/ handler' = [handler EXCEPT !.pc = "read", !.config = config]
          /\ UNCHANGED <<now, fires, throws, faults>>
      BY <1>3 DEF AlarmFetchConfig
    <2>2. CASE handler' = Idle
      BY <1>0, <2>1, <2>2 DEF WorkInv, Idle
    <2>3. CASE handler' = [handler EXCEPT !.pc = "read", !.config = config]
      <3>1. handler'.pc = "read" /\ handler'.now = handler.now
        BY <1>0, <2>3 DEF HandlerType
      <3>2. QED
        BY <1>0, <2>1, <3>1 DEF WorkInv
    <2>4. QED
      BY <2>1, <2>2, <2>3
  <1>4. CASE AlarmReadFires
    <2>1. /\ handler' = [handler EXCEPT
               !.pc = IF DueKinds(FiresOrLegacy, now) = {} THEN "advance" ELSE "dispatch",
               !.now = now, !.fires = FiresOrLegacy, !.kinds = DueKinds(FiresOrLegacy, now),
               !.todo = DueKinds(FiresOrLegacy, now)]
          /\ UNCHANGED <<now, fires, throws, faults>>
      BY <1>4 DEF AlarmReadFires
    <2>2. fires = NULL => FiresOrLegacy = LegacyFires(handler.config, now)
      BY DEF FiresOrLegacy, LegacyFires
    <2>3. /\ handler'.now = now /\ handler'.fires = FiresOrLegacy
          /\ handler'.kinds = DueKinds(FiresOrLegacy, now)
          /\ handler'.todo = DueKinds(FiresOrLegacy, now)
          /\ handler'.config = handler.config /\ handler'.pc \in {"advance", "dispatch"}
      BY <1>0, <2>1 DEF HandlerType
    <2>4. QED
      BY <1>0, <2>1, <2>2, <2>3 DEF WorkInv
  <1>5. CASE AlarmCheckConnection
    BY <1>0, <1>5 DEF AlarmCheckConnection, AfterSkip, WorkInv, HandlerType
  <1>6. ASSUME NEW l \in Lanes, AlarmStartRun(l)
        PROVE  WorkInv'
    <2>1. /\ handler'.pc \in {"start", "advance"} /\ handler'.todo = handler.todo \ {l}
          /\ handler'.kinds = handler.kinds /\ handler'.now = handler.now
          /\ handler'.fires = handler.fires /\ handler'.config = handler.config
          /\ handler.pc = "start"
          /\ UNCHANGED <<now, fires, throws, faults>>
      BY <1>0, <1>6 DEF AlarmStartRun, HandlerType
    <2>2. QED
      BY <1>0, <2>1 DEF WorkInv
  <1>7. CASE AlarmAdvance
    <2>1. /\ handler'.pc \in {"poll", "write"} /\ handler'.now = handler.now
          /\ fires' = NextFires
          /\ UNCHANGED <<now, throws, faults>>
      BY <1>0, <1>7 DEF AlarmAdvance, HandlerType
    <2>2. NextFires # NULL
      <3>1. handler.config \in Config /\ handler.fires \in Fires
        BY <1>0, <1>7 DEF AlarmAdvance, ReadInv, HandlerOpen, HandlerType
      <3>2. NextFires \in Fires
        BY <1>0, <3>1, FiresAhead DEF NextFires, Fires
      <3>3. QED
        BY <1>0, <3>2
    <2>3. QED
      BY <1>0, <2>1, <2>2 DEF WorkInv
  <1>8. CASE AlarmPolled
    BY <1>0, <1>8 DEF AlarmPolled, WorkInv, HandlerType
  <1>9. CASE AlarmWriteNextScheduled
    BY <1>0, <1>9 DEF AlarmWriteNextScheduled, WorkInv, Idle
  <1>10. CASE AlarmThrows
    BY <1>0, <1>10 DEF AlarmThrows, Fault, WorkInv, Idle
  <1>11. CASE DeleteSpace \/ Tick \/ AtRest \/ UNCHANGED vars
    BY <1>0, <1>11 DEF DeleteSpace, Tick, AtRest, vars, WorkInv
  <1>12. QED
    BY <1>1, <1>2, <1>3, <1>4, <1>5, <1>6, <1>7, <1>8, <1>9, <1>10, <1>11
       DEF Next, AlarmStep

\* The handler, field by field, after each of its steps.
LEMMA HandlerMoves ==
  ASSUME TypeOK
  PROVE  /\ AlarmDelivered => handler'.pc = "fetch"
         /\ AlarmFetchConfig =>
              \/ config = NULL /\ handler'.pc = "idle"
              \/ /\ config # NULL /\ UNCHANGED retries
                 /\ handler'.pc = "read" /\ handler'.config = config
         /\ AlarmReadFires =>
              /\ handler.pc = "read" /\ handler'.pc \in {"dispatch", "advance"}
              /\ handler'.config = handler.config /\ handler'.fires = FiresOrLegacy
              /\ handler'.now = now
              /\ handler'.kinds = DueKinds(FiresOrLegacy, now)
              /\ handler'.todo = DueKinds(FiresOrLegacy, now)
         /\ AlarmCheckConnection =>
              /\ handler.pc = "dispatch"
              /\ handler'.config = handler.config /\ handler'.fires = handler.fires
              /\ handler'.now = handler.now /\ handler'.kinds = handler.kinds
              /\ \/ handler'.pc = "start" /\ handler'.todo = handler.todo
                    /\ UNCHANGED dispatched
                 \/ handler'.pc = "advance" /\ handler'.todo = {}
                    /\ dispatched' = Attempted(handler.kinds)
         /\ \A l \in Lanes : AlarmStartRun(l) =>
              /\ handler.pc = "start" /\ handler'.pc \in {"start", "advance"}
              /\ handler'.config = handler.config /\ handler'.fires = handler.fires
              /\ handler'.now = handler.now /\ handler'.kinds = handler.kinds
              /\ l \in handler.todo /\ handler'.todo = handler.todo \ {l}
              /\ dispatched' = Attempted({l})
         /\ AlarmAdvance =>
              /\ handler.pc = "advance" /\ handler'.pc \in {"poll", "write"}
              /\ handler'.config = handler.config /\ handler'.fires = NextFires
         /\ AlarmPolled =>
              /\ handler.pc = "poll" /\ handler'.pc = "write"
              /\ handler'.config = handler.config /\ handler'.fires = handler.fires
         /\ AlarmWriteNextScheduled \/ AlarmThrows => handler'.pc = "idle"
  <1>1. handler \in HandlerType
    BY DEF TypeOK, HandlerType
  <1>2. /\ AlarmDelivered => handler' = [handler EXCEPT !.pc = "fetch"]
        /\ AlarmFetchConfig =>
             \/ config = NULL /\ handler' = Idle
             \/ /\ config # NULL /\ UNCHANGED retries
                /\ handler' = [handler EXCEPT !.pc = "read", !.config = config]
    BY DEF AlarmDelivered, AlarmFetchConfig
  <1>3. AlarmReadFires =>
             /\ handler.pc = "read"
             /\ handler' = [handler EXCEPT
                   !.pc = IF DueKinds(FiresOrLegacy, now) = {} THEN "advance"
                          ELSE "dispatch",
                   !.now = now, !.fires = FiresOrLegacy,
                   !.kinds = DueKinds(FiresOrLegacy, now),
                   !.todo = DueKinds(FiresOrLegacy, now)]
    BY DEF AlarmReadFires
  <1>4. AlarmCheckConnection =>
             /\ handler.pc = "dispatch"
             /\ \/ handler' = [handler EXCEPT !.pc = "start"] /\ UNCHANGED dispatched
                \/ handler' = [handler EXCEPT !.pc = "advance", !.todo = {}]
                   /\ dispatched' = Attempted(handler.kinds)
    BY DEF AlarmCheckConnection, AfterSkip
  <1>5. ASSUME NEW l \in Lanes, AlarmStartRun(l)
        PROVE  /\ handler.pc = "start" /\ l \in handler.todo
               /\ handler' = [handler EXCEPT !.todo = @ \ {l},
                     !.pc = IF handler.todo = {l} THEN "advance" ELSE "start"]
               /\ dispatched' = Attempted({l})
    BY <1>5 DEF AlarmStartRun
  <1>6. AlarmAdvance =>
             /\ handler.pc = "advance"
             /\ \E pc \in {"poll", "write"} :
                  handler' = [handler EXCEPT !.pc = pc, !.fires = NextFires]
    BY DEF AlarmAdvance
  <1>7. AlarmPolled => handler.pc = "poll" /\ handler' = [handler EXCEPT !.pc = "write"]
    BY DEF AlarmPolled
  <1>8. AlarmWriteNextScheduled \/ AlarmThrows => handler' = Idle
    BY DEF AlarmWriteNextScheduled, AlarmThrows
  <1>9. AlarmDelivered => handler'.pc = "fetch"
    BY <1>1, <1>2 DEF HandlerType, Idle
  <1>10. AlarmFetchConfig =>
            \/ config = NULL /\ handler'.pc = "idle"
            \/ /\ config # NULL /\ UNCHANGED retries
               /\ handler'.pc = "read" /\ handler'.config = config
    <2>1. handler' = Idle => handler'.pc = "idle"
      BY DEF Idle
    <2>2. handler' = [handler EXCEPT !.pc = "read", !.config = config]
            => handler'.pc = "read" /\ handler'.config = config
      BY <1>1 DEF HandlerType
    <2>3. QED
      BY <1>2, <2>1, <2>2
  <1>11. AlarmReadFires =>
            /\ handler.pc = "read" /\ handler'.pc \in {"dispatch", "advance"}
            /\ handler'.config = handler.config /\ handler'.fires = FiresOrLegacy
            /\ handler'.now = now
            /\ handler'.kinds = DueKinds(FiresOrLegacy, now)
            /\ handler'.todo = DueKinds(FiresOrLegacy, now)
    BY <1>1, <1>3 DEF HandlerType, Idle
  <1>12. AlarmCheckConnection =>
            /\ handler.pc = "dispatch"
            /\ handler'.config = handler.config /\ handler'.fires = handler.fires
            /\ handler'.now = handler.now /\ handler'.kinds = handler.kinds
            /\ \/ handler'.pc = "start" /\ handler'.todo = handler.todo
                  /\ UNCHANGED dispatched
               \/ handler'.pc = "advance" /\ handler'.todo = {}
                  /\ dispatched' = Attempted(handler.kinds)
    BY <1>1, <1>4 DEF HandlerType, Idle
  <1>13. \A l \in Lanes : AlarmStartRun(l) =>
            /\ handler.pc = "start" /\ handler'.pc \in {"start", "advance"}
            /\ handler'.config = handler.config /\ handler'.fires = handler.fires
            /\ handler'.now = handler.now /\ handler'.kinds = handler.kinds
            /\ l \in handler.todo /\ handler'.todo = handler.todo \ {l}
            /\ dispatched' = Attempted({l})
    BY <1>1, <1>5 DEF HandlerType, Idle
  <1>14. AlarmAdvance =>
            /\ handler.pc = "advance" /\ handler'.pc \in {"poll", "write"}
            /\ handler'.config = handler.config /\ handler'.fires = NextFires
    BY <1>1, <1>6 DEF HandlerType, Idle
  <1>15. AlarmPolled =>
            /\ handler.pc = "poll" /\ handler'.pc = "write"
            /\ handler'.config = handler.config /\ handler'.fires = handler.fires
    BY <1>1, <1>7 DEF HandlerType, Idle
  <1>16. AlarmWriteNextScheduled \/ AlarmThrows => handler'.pc = "idle"
    BY <1>1, <1>8 DEF HandlerType, Idle
  <1>17. QED
    BY <1>9, <1>10, <1>11, <1>12, <1>13, <1>14, <1>15, <1>16

(* The alarm through a delivery, and that storage and handler agree.       *)
LEMMA AlarmInvStep ==
  ASSUME IInv, [Next]_vars
  PROVE  StoreInv' /\ AlarmInv' /\ AlarmIsEarliest'
  <1> USE DEF Working, Finishing, storage, platform
  <1>0. /\ handler \in HandlerType /\ now \in Nat /\ NULL \notin Fires /\ NULL \notin Nat
        /\ fires \in Fires \cup {NULL} /\ handler.now \in Nat /\ handler.now <= now
        /\ handler.fires \in Fires /\ poll \in Times /\ alarm \in Times
        /\ retries \in Nat
        /\ TypeOK /\ ReadInv /\ WorkInv /\ StoreInv /\ AlarmInv /\ AlarmIsEarliest
    BY NullIsApart, BoundsAssumption DEF TypeOK, HandlerType, IInv, WorkInv
  <1>1. ASSUME NEW p \in Patches, PatchReadPrevious(p) \/ PatchStep(p)
        PROVE  StoreInv' /\ AlarmInv' /\ AlarmIsEarliest'
    <2>1. UNCHANGED <<now, handler, retries>> /\ (config = NULL => config' = NULL)
      BY <1>0, <1>1, PatchTypeStep
    <2>2. CASE UNCHANGED storage /\ (disturbed => disturbed')
      <3>1. Earliest' = Earliest
        BY <2>2 DEF Earliest
      <3>2. QED
        BY <1>0, <2>1, <2>2, <3>1 DEF StoreInv, AlarmInv, AlarmIsEarliest
    <2>3. CASE alarm' = Earliest' /\ (HandlerOpen => disturbed')
      BY <1>0, <2>1, <2>3 DEF StoreInv, AlarmInv, AlarmIsEarliest, HandlerOpen
    <2>4. QED
      BY <1>0, <1>1, <2>2, <2>3, PatchStorage
  <1>2. CASE AlarmDelivered
    BY <1>0, <1>2, HandlerMoves DEF AlarmDelivered, StoreInv, AlarmInv, AlarmIsEarliest
  <1>3. CASE AlarmFetchConfig
    <2>1. UNCHANGED <<config, fires, poll, alarm, disturbed>> /\ handler.pc = "fetch"
      BY <1>3 DEF AlarmFetchConfig
    <2>2. Earliest' = Earliest
      BY <2>1 DEF Earliest
    <2>3. QED
      BY <1>0, <1>3, <2>1, <2>2, HandlerMoves DEF StoreInv, AlarmInv, AlarmIsEarliest
  <1>4. CASE AlarmReadFires
    <2>1. UNCHANGED <<now, config, fires, poll, alarm, disturbed>>
      BY <1>4 DEF AlarmReadFires
    <2>2. Earliest' = Earliest /\ (fires # NULL => FiresOrLegacy = fires)
      BY <2>1 DEF Earliest, FiresOrLegacy
    <2>3. QED
      BY <1>0, <1>4, <2>1, <2>2, HandlerMoves DEF StoreInv, AlarmInv, AlarmIsEarliest
  <1>5. CASE AlarmCheckConnection \/ \E l \in Lanes : AlarmStartRun(l)
    <2>1. UNCHANGED <<now, config, fires, poll, alarm, disturbed>>
      BY <1>5 DEF AlarmCheckConnection, AlarmStartRun
    <2>2. Earliest' = Earliest
      BY <2>1 DEF Earliest
    <2>3. Working /\ Working' /\ handler'.fires = handler.fires
      BY <1>0, <1>5, HandlerMoves
    <2>4. QED
      BY <1>0, <2>1, <2>2, <2>3 DEF StoreInv, AlarmInv, AlarmIsEarliest
  <1>6. CASE AlarmAdvance
    <2>1. /\ handler.pc = "advance" /\ handler.config \in Config
          /\ fires' = NextFires /\ handler'.fires = NextFires
          /\ UNCHANGED <<now, config, disturbed>>
      BY <1>0, <1>6, HandlerMoves DEF AlarmAdvance, ReadInv, HandlerOpen
    <2>2. NextFires \in Fires
      BY <1>0, <2>1, FiresAhead DEF NextFires, Fires
    <2>3. CASE /\ alarm' = MinDefined(LaneTimes(NextFires) \cup {poll'})
               /\ handler'.pc = "write"
      <3>1. alarm' = Earliest'
        BY <1>0, <2>1, <2>2, <2>3 DEF Earliest
      <3>2. QED
        BY <2>1, <2>3, <3>1 DEF StoreInv, AlarmInv, AlarmIsEarliest
    <2>4. CASE /\ handler.config.frequency = "instant"
               /\ UNCHANGED <<alarm, poll>> /\ handler'.pc = "poll"
      <3>1. ASSUME ~ disturbed, alarm # NULL
            PROVE  alarm = Earliest' \/ alarm <= now
        <4>1. alarm = Earliest
          BY <1>0, <2>1, <3>1 DEF AlarmInv
        <4>2. CASE fires = NULL
          <5>1. handler.fires = NoFires /\ handler.kinds = {}
            BY <1>0, <2>1, <2>4, <4>2 DEF WorkInv, LegacyFires, NoFires, Lanes, DueKinds
          <5>2. NextFires = NoFires
            BY <5>1 DEF NextFires, NoFires, Lanes
          <5>3. LaneTimes(NoFires) = {NULL}
            BY DEF LaneTimes, NoFires, Lanes
          <5>4. Earliest' = MinDefined({NULL, poll, poll})
            BY <1>0, <2>1, <2>2, <2>4, <5>2, <5>3 DEF Earliest
          <5>5. alarm = poll /\ poll \in Nat
            BY <1>0, <3>1, <4>1, <4>2, IdleType, ArmedIsTime DEF Earliest, Times
          <5>6. MinDefined({NULL, poll}) = MinDefined({poll})
            <6>1. LaneTimes(NoFires) \cup {poll} = {NULL, poll}
                  /\ {NULL, poll} \ {NULL} = {poll} /\ {poll} \ {NULL} = {poll}
              BY <1>0, <5>3, <5>5
            <6>2. QED
              BY <1>0, <5>5, <6>1 DEF MinDefined
          <5>7. QED
            BY <1>0, <5>4, <5>5, <5>6, IdleType, ArmedIsTime
        <4>3. CASE fires # NULL /\ handler.kinds = {}
          <5>1. NextFires = handler.fires /\ handler.fires = fires
            BY <1>0, <2>1, <3>1, <4>3 DEF NextFires, Fires, StoreInv
          <5>2. Earliest' = Earliest
            BY <2>1, <2>4, <5>1 DEF Earliest
          <5>3. QED
            BY <4>1, <5>2
        <4>4. CASE fires # NULL /\ handler.kinds # {}
          <5>1. PICK l \in handler.kinds : TRUE
            BY <4>4
          <5>2. /\ l \in Lanes /\ fires[l] # NULL /\ fires[l] <= handler.now
                /\ fires[l] \in Nat
            BY <1>0, <2>1, <3>1, <4>4, <5>1 DEF StoreInv, WorkInv, DueKinds, Fires, Times
          <5>3. alarm <= fires[l]
            BY <1>0, <4>1, <4>4, <5>2, ArmedIsTime DEF Earliest
          <5>4. alarm \in Nat
            BY <1>0, <3>1 DEF Times
          <5>5. QED
            BY <1>0, <5>2, <5>3, <5>4
        <4>5. QED
          BY <4>2, <4>3, <4>4
      <3>2. QED
        BY <2>1, <2>4, <3>1 DEF StoreInv, AlarmInv, AlarmIsEarliest
    <2>5. QED
      BY <1>0, <1>6, <2>3, <2>4 DEF AlarmAdvance, HandlerType
  <1>7. CASE AlarmPolled
    <2>1. /\ alarm' = MinDefined(LaneTimes(handler.fires) \cup {poll'})
          /\ UNCHANGED <<now, config, fires, disturbed>>
      BY <1>7 DEF AlarmPolled
    <2>2. ~ disturbed => fires = handler.fires /\ fires # NULL
      BY <1>0, <1>7, HandlerMoves DEF StoreInv, WorkInv
    <2>3. ~ disturbed => alarm' = Earliest'
      BY <2>1, <2>2 DEF Earliest
    <2>4. QED
      BY <1>0, <1>7, <2>1, <2>2, <2>3, HandlerMoves DEF StoreInv, AlarmInv, AlarmIsEarliest
  <1>8. CASE AlarmWriteNextScheduled
    <2>1. /\ UNCHANGED <<now, config, fires, poll, alarm>> /\ handler.pc = "write"
          /\ (disturbed => disturbed')
      BY <1>8 DEF AlarmWriteNextScheduled
    <2>2. Earliest' = Earliest
      BY <2>1 DEF Earliest
    <2>3. QED
      BY <1>0, <1>8, <2>1, <2>2, HandlerMoves DEF StoreInv, AlarmInv, AlarmIsEarliest
  <1>9. CASE AlarmThrows
    <2>1. /\ UNCHANGED <<now, config, fires, poll>> /\ handler.pc # "idle"
          /\ (disturbed => disturbed')
          /\ \/ disturbed'
             \/ retries' = retries + 1 /\ alarm' = now
             \/ retries' = retries + 1 /\ alarm # NULL /\ alarm' = alarm
      BY <1>0, <1>9 DEF AlarmThrows
    <2>2. Earliest' = IF fires = NULL THEN MinDefined({poll})
                      ELSE MinDefined(LaneTimes(fires) \cup {poll})
      BY <2>1 DEF Earliest
    <2>3. CASE disturbed'
      BY <1>0, <1>9, <2>3, HandlerMoves DEF StoreInv, AlarmInv, AlarmIsEarliest
    <2>4. CASE ~ disturbed' /\ retries' = retries + 1 /\ alarm' = now
      BY <1>0, <1>9, <2>1, <2>4, HandlerMoves DEF StoreInv, AlarmInv, AlarmIsEarliest
    <2>5. CASE ~ disturbed' /\ retries' = retries + 1 /\ alarm # NULL /\ alarm' = alarm
      <3>1. alarm = Earliest \/ alarm <= now
        <4>1. handler.pc \in {"fetch", "read", "poll", "write"} \/ Working
          BY <1>0, <2>1 DEF HandlerType
        <4>2. QED
          BY <1>0, <2>1, <2>5, <4>1 DEF AlarmInv
      <3>2. Earliest' = Earliest
        BY <2>1 DEF Earliest
      <3>3. QED
        BY <1>0, <1>9, <2>1, <2>5, <3>1, <3>2, HandlerMoves
           DEF StoreInv, AlarmInv, AlarmIsEarliest
    <2>6. QED
      BY <2>1, <2>3, <2>4, <2>5
  <1>10. CASE DeleteSpace
    <2>1. UNCHANGED <<now, handler, fires, poll, alarm, disturbed>> /\ config' = NULL
      BY <1>10 DEF DeleteSpace
    <2>2. Earliest' = Earliest
      BY <2>1 DEF Earliest
    <2>3. QED
      BY <1>0, <2>1, <2>2 DEF StoreInv, AlarmInv, AlarmIsEarliest
  <1>11. CASE Tick \/ AtRest \/ UNCHANGED vars
    <2>1. /\ UNCHANGED <<handler, fires, poll, alarm, disturbed, config, retries>>
          /\ now' = now \/ now' = now + 1
      BY <1>11 DEF Tick, AtRest, vars
    <2>2. Earliest' = Earliest
      BY <2>1 DEF Earliest
    <2>3. alarm <= now => alarm <= now' \/ alarm = NULL
      BY <1>0, <2>1 DEF Times
    <2>4. QED
      BY <1>0, <2>1, <2>2, <2>3 DEF StoreInv, AlarmInv, AlarmIsEarliest
  <1>12. QED
    BY <1>1, <1>2, <1>3, <1>4, <1>5, <1>6, <1>7, <1>8, <1>9, <1>10, <1>11
       DEF Next, AlarmStep

(* A dispatched fire is left behind by the advance, by a new schedule, or   *)
(* becomes one more delivery's to dispatch.                                *)
LEMMA FireStep ==
  ASSUME IInv, [Next]_vars
  PROVE  FireInv'
  <1> USE DEF Working
  <1>0. /\ handler \in HandlerType /\ now \in Nat /\ NULL \notin Fires
        /\ fires \in Fires \cup {NULL} /\ handler.now \in Nat /\ handler.now <= now
        /\ handler.fires \in Fires /\ throws \in Nat /\ MaxTime \in Nat
        /\ dispatched \in [Lanes -> [0..MaxTime -> Nat]]
        /\ TypeOK /\ ReadInv /\ WorkInv /\ FireInv
    BY NullIsApart, BoundsAssumption DEF TypeOK, HandlerType, IInv, WorkInv
  <1>1. SUFFICES ASSUME NEW l \in Lanes, NEW t \in 0..MaxTime,
                        dispatched'[l][t] > throws'
                 PROVE  /\ dispatched'[l][t] = 1 + throws'
                        /\ t <= now'
                        /\ SpentHere(l, t)' \/ Behind(l, t)'
    BY DEF FireInv
  <1>2. /\ t \in Nat /\ dispatched[l][t] \in Nat
        /\ \A fs \in Fires : fs[l] = NULL \/ fs[l] \in Nat
        /\ dispatched[l][t] > throws =>
             /\ dispatched[l][t] = 1 + throws
             /\ t <= now
             /\ SpentHere(l, t) \/ Behind(l, t)
    BY <1>0 DEF FireInv, Fires, Times
  <1>3. ASSUME NEW p \in Patches, PatchReadPrevious(p) \/ PatchStep(p)
        PROVE  dispatched'[l][t] = 1 + throws' /\ t <= now'
               /\ (SpentHere(l, t)' \/ Behind(l, t)')
    <2>1. UNCHANGED <<now, handler, dispatched, throws>>
      BY <1>0, <1>3, PatchTypeStep
    <2>2. \/ UNCHANGED fires
          \/ fires' \in Fires /\ \A k \in Lanes : fires'[k] = NULL \/ fires'[k] > now
      BY <1>0, <1>3, PatchStorage DEF storage
    <2>3. dispatched[l][t] = 1 + throws /\ t <= now /\ (SpentHere(l, t) \/ Behind(l, t))
      BY <1>1, <1>2, <2>1
    <2>4. CASE SpentHere(l, t)
      BY <2>1, <2>3, <2>4 DEF SpentHere
    <2>5. CASE Behind(l, t)
      <3>1. fires' # NULL /\ (fires'[l] = NULL \/ fires'[l] > t)
        BY <1>0, <1>2, <2>2, <2>3, <2>5 DEF Behind
      <3>2. QED
        BY <2>1, <2>3, <2>5, <3>1 DEF Behind
    <2>6. QED
      BY <2>3, <2>4, <2>5
  <1>4. CASE AlarmDelivered \/ AlarmFetchConfig
    <2>1. /\ UNCHANGED <<now, fires, dispatched, throws>> /\ ~ Working
      BY <1>4 DEF AlarmDelivered, AlarmFetchConfig, storage, platform
    <2>2. ~ Working'
      BY <1>0, <1>4, HandlerMoves
    <2>3. QED
      BY <1>1, <1>2, <2>1, <2>2 DEF SpentHere, Behind
  <1>5. CASE AlarmReadFires
    <2>1. /\ UNCHANGED <<now, fires, dispatched, throws>> /\ ~ Working
      BY <1>5 DEF AlarmReadFires, storage, platform
    <2>2. handler'.fires = FiresOrLegacy
      BY <1>0, <1>5, HandlerMoves
    <2>3. QED
      BY <1>1, <1>2, <2>1, <2>2 DEF SpentHere, Behind, FiresOrLegacy
  <1>6. ASSUME NEW kinds, dispatched' = Attempted(kinds)
        PROVE  dispatched'[l][t] = dispatched[l][t]
               \/ /\ dispatched'[l][t] = dispatched[l][t] + 1
                  /\ l \in kinds /\ handler.fires[l] = t
    BY <1>2, <1>6 DEF Attempted
  <1>7. CASE AlarmCheckConnection
    <2>1. /\ UNCHANGED <<now, fires, throws>>
          /\ handler.pc = "dispatch" /\ handler.todo = handler.kinds
          /\ handler.kinds = DueKinds(handler.fires, handler.now)
      BY <1>0, <1>7 DEF AlarmCheckConnection, storage, platform, WorkInv
    <2>2. /\ handler'.fires = handler.fires /\ handler'.kinds = handler.kinds /\ Working'
          /\ \/ UNCHANGED dispatched
             \/ handler'.todo = {} /\ dispatched' = Attempted(handler.kinds)
      BY <1>0, <1>7, HandlerMoves
    <2>3. ~ SpentHere(l, t)
      BY <2>1 DEF SpentHere
    <2>4. CASE dispatched'[l][t] = dispatched[l][t]
      BY <1>1, <1>2, <2>1, <2>2, <2>3, <2>4 DEF Behind
    <2>5. CASE dispatched'[l][t] # dispatched[l][t]
      <3>1. /\ dispatched'[l][t] = dispatched[l][t] + 1
            /\ l \in handler.kinds /\ handler.fires[l] = t /\ handler'.todo = {}
        BY <1>6, <2>2, <2>5
      <3>2. ~ Behind(l, t)
        BY <1>2, <2>1, <3>1, NullIsApart DEF Behind
      <3>3. dispatched'[l][t] = 1 + throws
        BY <1>0, <1>1, <1>2, <2>1, <2>3, <3>1, <3>2
      <3>4. t <= now
        BY <1>0, <1>2, <2>1, <3>1 DEF DueKinds
      <3>5. QED
        BY <2>1, <2>2, <3>1, <3>3, <3>4 DEF SpentHere
    <2>6. QED
      BY <2>4, <2>5
  <1>8. ASSUME NEW k \in Lanes, AlarmStartRun(k)
        PROVE  dispatched'[l][t] = 1 + throws' /\ t <= now'
               /\ (SpentHere(l, t)' \/ Behind(l, t)')
    <2>1. /\ UNCHANGED <<now, fires, throws>>
          /\ handler.todo \subseteq handler.kinds
          /\ handler.kinds = DueKinds(handler.fires, handler.now)
      BY <1>0, <1>8, HandlerMoves DEF AlarmStartRun, storage, platform, WorkInv
    <2>2. /\ handler'.fires = handler.fires /\ handler'.kinds = handler.kinds
          /\ Working /\ Working' /\ k \in handler.todo
          /\ handler'.todo = handler.todo \ {k}
          /\ dispatched' = Attempted({k})
      BY <1>0, <1>8, HandlerMoves
    <2>3. CASE dispatched'[l][t] = dispatched[l][t]
      BY <1>1, <1>2, <2>1, <2>2, <2>3 DEF SpentHere, Behind
    <2>4. CASE dispatched'[l][t] # dispatched[l][t]
      <3>1. dispatched'[l][t] = dispatched[l][t] + 1 /\ l = k /\ handler.fires[l] = t
        BY <1>6, <2>2, <2>4
      <3>2. ~ Behind(l, t) /\ ~ SpentHere(l, t)
        BY <1>2, <2>2, <3>1, NullIsApart DEF Behind, SpentHere
      <3>3. dispatched'[l][t] = 1 + throws
        BY <1>0, <1>1, <1>2, <2>1, <3>1, <3>2
      <3>4. t <= now
        BY <1>0, <1>2, <2>1, <2>2, <3>1 DEF DueKinds
      <3>5. QED
        BY <2>1, <2>2, <3>1, <3>3, <3>4 DEF SpentHere
    <2>5. QED
      BY <2>3, <2>4
  <1>9. CASE AlarmAdvance
    <2>1. /\ UNCHANGED <<now, dispatched, throws>> /\ fires' = NextFires
          /\ handler.pc = "advance" /\ handler.config \in Config
          /\ handler.kinds = DueKinds(handler.fires, handler.now)
      BY <1>0, <1>9 DEF AlarmAdvance, platform, ReadInv, HandlerOpen, WorkInv
    <2>2. ~ Working'
      BY <1>0, <1>9, HandlerMoves
    <2>3. NextFires \in Fires
      BY <1>0, <2>1, FiresAhead DEF NextFires, Fires
    <2>4. dispatched[l][t] = 1 + throws /\ t <= now /\ (SpentHere(l, t) \/ Behind(l, t))
      BY <1>1, <1>2, <2>1
    <2>5. NextFires[l] = NULL \/ NextFires[l] > t
      <3>1. CASE l \in handler.kinds
        <4>1. t <= handler.now
          <5>1. handler.fires[l] # NULL /\ handler.fires[l] <= handler.now
            BY <2>1, <3>1 DEF DueKinds
          <5>2. handler.fires[l] \in Nat
            BY <1>0, <1>2, <5>1
          <5>3. handler.fires[l] = t \/ handler.fires[l] > t
            BY <2>1, <2>4, <5>1 DEF SpentHere, Behind
          <5>4. QED
            BY <1>0, <1>2, <5>1, <5>2, <5>3
        <4>2. NextFires[l] = ComputeFires(handler.config, handler.now)[l]
          BY <3>1 DEF NextFires
        <4>3. QED
          BY <1>0, <1>2, <2>1, <4>1, <4>2, FiresAhead
      <3>2. CASE l \notin handler.kinds
        <4>1. NextFires[l] = handler.fires[l] /\ Behind(l, t)
          BY <2>4, <3>2 DEF NextFires, SpentHere
        <4>2. QED
          BY <2>1, <4>1 DEF Behind
      <3>3. QED
        BY <3>1, <3>2
    <2>6. QED
      BY <1>0, <2>1, <2>2, <2>3, <2>4, <2>5 DEF Behind
  <1>10. CASE AlarmPolled \/ AlarmWriteNextScheduled
    <2>1. /\ UNCHANGED <<now, fires, dispatched, throws>> /\ ~ Working
      BY <1>10 DEF AlarmPolled, AlarmWriteNextScheduled, storage, platform
    <2>2. ~ Working'
      BY <1>0, <1>10, HandlerMoves
    <2>3. QED
      BY <1>1, <1>2, <2>1, <2>2 DEF SpentHere, Behind
  <1>11. CASE AlarmThrows
    <2>1. throws' = throws + 1 /\ UNCHANGED dispatched
      BY <1>11 DEF AlarmThrows
    <2>2. QED
      BY <1>0, <1>1, <1>2, <2>1
  <1>12. CASE DeleteSpace \/ Tick \/ AtRest \/ UNCHANGED vars
    <2>1. /\ UNCHANGED <<handler, fires, dispatched, throws>>
          /\ now' = now \/ now' = now + 1
      BY <1>12 DEF DeleteSpace, Tick, AtRest, vars, storage, platform
    <2>2. QED
      BY <1>0, <1>1, <1>2, <2>1 DEF SpentHere, Behind
  <1>13. QED
    BY <1>3, <1>4, <1>5, <1>7, <1>8, <1>9, <1>10, <1>11, <1>12 DEF Next, AlarmStep

(* A lane leaves the row behind only while a request is pending, and comes *)
(* back to it with the accepted set-frequency or the handler's own advance. *)
LEMMA LaneStep ==
  ASSUME IInv, [Next]_vars
  PROVE  LaneInv'
  <1> USE DEF Working, storage, platform
  <1>0. /\ handler \in HandlerType /\ now \in Nat /\ NULL \notin Fires
        /\ patch \in [Patches -> PatchType]
        /\ fires \in Fires \cup {NULL} /\ handler.now \in Nat /\ handler.now <= now
        /\ handler.fires \in Fires /\ config \in Config \cup {NULL}
        /\ TypeOK /\ ReadInv /\ WorkInv /\ StoreInv /\ LaneInv
    BY NullIsApart, BoundsAssumption DEF TypeOK, HandlerType, PatchType, IInv, WorkInv
  <1>1. SUFFICES ASSUME ~ disturbed', config' # NULL, config'.frequency # "instant",
                        ~ Pending'
                 PROVE  /\ IF fires' = NULL THEN config'.schemaFrequency = NULL
                           ELSE Follows(fires, config)'
                        /\ HandlerOpen' => handler'.config = config'
    BY DEF LaneInv
  <1> DEFINE Before == /\ ~ disturbed /\ config # NULL /\ config.frequency # "instant"
                       /\ ~ Pending
             Goal == /\ IF fires' = NULL THEN config'.schemaFrequency = NULL
                        ELSE Follows(fires, config)'
                     /\ HandlerOpen' => handler'.config = config'
  <1>2. Before => /\ IF fires = NULL THEN config.schemaFrequency = NULL
                     ELSE Follows(fires, config)
                  /\ HandlerOpen => handler.config = config
    BY <1>0 DEF LaneInv
  <1>3. Before /\ UNCHANGED <<now, fires, config, handler>> => Goal
    BY <1>2 DEF Follows, HandlerOpen
  <1>4. ASSUME NEW p \in Patches, PatchReadPrevious(p) \/ PatchStep(p)
        PROVE  Goal
    <2>1. /\ UNCHANGED <<now, handler>>
          /\ \A q \in Patches \ {p} : patch'[q] = patch[q]
          /\ patch'[p] \in PatchType
      BY <1>0, <1>4, PatchTypeStep
    <2>2. \A q \in Patches : /\ patch'[q].pc \notin {"register", "revert", "unregister", "read"}
                             /\ patch'[q].pc = "send" => patch'[q].schedule # config'
      BY <1>1 DEF Pending
    <2>3. UNCHANGED config
          /\ patch[p].pc \notin {"register", "revert", "unregister", "read"}
          /\ (patch[p].pc = "send" => patch[p].schedule # config)
            => ~ Pending
      BY <2>1, <2>2 DEF Pending
    <2>4. CASE PatchReadPrevious(p)
      <3>1. UNCHANGED <<config, fires, disturbed>> /\ patch[p].pc = "called"
        BY <2>4 DEF PatchReadPrevious
      <3>2. QED
        BY <1>1, <1>3, <2>1, <2>3, <3>1
    <2>5. CASE PatchUpsert(p)
      <3>1. config # NULL => patch'[p].pc \in {"register", "unregister", "read"}
        BY <1>0, <2>5 DEF PatchUpsert, PatchType
      <3>2. config = NULL => config' = NULL
        BY <2>5 DEF PatchUpsert
      <3>3. QED
        BY <1>1, <2>2, <3>1, <3>2
    <2>6. CASE PatchRegister(p)
      <3>1. patch'[p].pc \in {"read", "revert"}
        BY <1>0, <2>6 DEF PatchRegister, Goes, PatchType
      <3>2. QED
        BY <2>2, <3>1
    <2>7. CASE PatchRevert(p)
      BY <1>1, <2>7 DEF PatchRevert
    <2>8. CASE PatchUnregister(p)
      <3>1. patch'[p].pc = "read"
        BY <1>0, <2>8 DEF PatchUnregister, Goes, PatchType
      <3>2. QED
        BY <2>2, <3>1
    <2>9. CASE PatchReadSchedule(p)
      <3>1. config # NULL => patch'[p].pc = "send" /\ patch'[p].schedule = config
        BY <1>0, <2>9 DEF PatchReadSchedule, PatchType
      <3>2. UNCHANGED config
        BY <2>9 DEF PatchReadSchedule
      <3>3. QED
        BY <1>1, <2>2, <3>1, <3>2
    <2>10. CASE PatchSend(p)
      <3> DEFINE schedule == patch[p].schedule
      <3>1. UNCHANGED config /\ patch[p].pc = "send" /\ schedule \in Config
        BY <1>0, <2>10 DEF PatchSend, ReadInv
      <3>2. CASE /\ fires' = ComputeFires(schedule, now)
                 /\ disturbed' = \/ HandlerOpen
                                 \/ schedule # config
                                 \/ \E q \in Patches \ {p} : patch[q].pc = "write"
        <4>1. schedule = config /\ ~ HandlerOpen
          BY <1>1, <3>2
        <4>2. fires' # NULL
          BY <1>0, <3>1, <3>2, FiresAhead
        <4>3. QED
          BY <2>1, <3>1, <3>2, <4>1, <4>2 DEF Follows, HandlerOpen
      <3>3. CASE ~ ParseAccepts(schedule) /\ UNCHANGED <<fires, disturbed>>
        <4>1. schedule # config
          BY <1>1, <3>1, <3>3 DEF ParseAccepts
        <4>2. QED
          BY <1>1, <1>3, <2>1, <2>3, <3>1, <3>3, <4>1
      <3>4. CASE disturbed' = TRUE
        BY <1>1, <3>4
      <3>5. QED
        BY <2>10, <3>2, <3>3, <3>4 DEF PatchSend
    <2>11. CASE PatchWriteNextScheduled(p)
      <3>1. UNCHANGED <<config, fires>> /\ patch[p].pc = "write"
            /\ (disturbed => disturbed')
        BY <2>11 DEF PatchWriteNextScheduled
      <3>2. QED
        BY <1>1, <1>3, <2>1, <2>3, <3>1
    <2>12. QED
      BY <1>4, <2>4, <2>5, <2>6, <2>7, <2>8, <2>9, <2>10, <2>11 DEF PatchStep
  <1>5. UNCHANGED <<config, patch>> => Pending' = Pending
    BY DEF Pending
  <1>6. CASE AlarmDelivered
    <2>1. UNCHANGED <<now, config, fires, patch, disturbed>> /\ ~ HandlerOpen'
      BY <1>0, <1>6, HandlerMoves DEF AlarmDelivered, HandlerOpen
    <2>2. QED
      BY <1>1, <1>2, <1>5, <2>1 DEF Follows
  <1>7. CASE AlarmFetchConfig
    <2>1. /\ UNCHANGED <<now, config, fires, patch, disturbed>>
          /\ HandlerOpen' => handler'.config = config
      BY <1>0, <1>7, HandlerMoves DEF AlarmFetchConfig, HandlerOpen
    <2>2. QED
      BY <1>1, <1>2, <1>5, <2>1 DEF Follows
  <1>8. CASE \/ AlarmReadFires \/ AlarmCheckConnection \/ AlarmPolled
             \/ \E l \in Lanes : AlarmStartRun(l)
    <2>1. /\ UNCHANGED <<now, config, fires, patch, disturbed>>
          /\ HandlerOpen /\ handler'.config = handler.config
      BY <1>0, <1>8, HandlerMoves DEF AlarmReadFires, AlarmCheckConnection, AlarmPolled,
         AlarmStartRun, HandlerOpen
    <2>2. QED
      BY <1>1, <1>2, <1>5, <2>1 DEF Follows
  <1>9. CASE AlarmAdvance
    <2>1. /\ UNCHANGED <<now, config, patch, disturbed>> /\ fires' = NextFires
          /\ HandlerOpen /\ handler'.config = handler.config
          /\ handler.pc = "advance"
          /\ handler.kinds = DueKinds(handler.fires, handler.now)
      BY <1>0, <1>9, HandlerMoves DEF AlarmAdvance, HandlerOpen, WorkInv
    <2>2. Before
      BY <1>1, <1>5, <2>1
    <2>3. handler.config = config /\ config \in Config
      BY <1>0, <1>2, <2>1, <2>2
    <2>4. NextFires \in Fires
      BY <1>0, <2>3, FiresAhead DEF NextFires, Fires
    <2>5. ASSUME NEW l \in Lanes
          PROVE  \/ NextFires[l] = ComputeFires(config, now)[l]
                 \/ NextFires[l] # NULL /\ NextFires[l] <= now
      <3>1. CASE l \in handler.kinds
        <4>1. NextFires[l] = ComputeFires(config, handler.now)[l]
          BY <2>3, <3>1 DEF NextFires
        <4>2. QED
          BY <1>0, <2>3, <2>4, <4>1, FollowsStays
      <3>2. CASE l \notin handler.kinds
        <4>1. NextFires[l] = handler.fires[l]
          BY <3>2 DEF NextFires
        <4>2. CASE fires # NULL
          BY <1>0, <1>2, <2>1, <2>2, <4>1, <4>2 DEF Follows, StoreInv
        <4>3. CASE fires = NULL
          <5>1. /\ handler.fires = LegacyFires(config, handler.now)
                /\ config.schemaFrequency = NULL
            BY <1>0, <1>2, <2>1, <2>2, <2>3, <4>3 DEF WorkInv
          <5>2. handler.fires["schema"] = NULL /\ ComputeFires(config, now)["schema"] = NULL
            BY <5>1, NullIsApart DEF LegacyFires, NoFires, Lanes, ComputeFires, FireFor
          <5>3. l = "full" => handler.fires["full"] = NULL
            BY <1>0, <2>1, <3>2, <5>1 DEF DueKinds, LegacyFires, NoFires, Lanes
          <5>4. l = "full" => config.scope # "schema_and_data"
            BY <1>0, <2>2, <5>1, <5>3, NullIsApart DEF LegacyFires, NoFires, Lanes
          <5>5. QED
            BY <4>1, <5>2, <5>3, <5>4 DEF Lanes, ComputeFires
        <4>4. QED
          BY <4>2, <4>3
      <3>3. QED
        BY <3>1, <3>2
    <2>6. QED
      BY <1>0, <2>1, <2>3, <2>4, <2>5 DEF Follows
  <1>10. CASE AlarmWriteNextScheduled
    <2>1. /\ UNCHANGED <<now, config, fires, patch>> /\ (disturbed => disturbed')
          /\ ~ HandlerOpen'
      BY <1>0, <1>10, HandlerMoves DEF AlarmWriteNextScheduled, HandlerOpen
    <2>2. QED
      BY <1>1, <1>2, <1>5, <2>1 DEF Follows
  <1>11. CASE AlarmThrows
    <2>1. UNCHANGED <<now, config, fires, patch>> /\ ~ HandlerOpen'
      BY <1>0, <1>11, HandlerMoves DEF AlarmThrows, HandlerOpen
    <2>2. disturbed => disturbed'
      BY <1>11 DEF AlarmThrows
    <2>3. QED
      BY <1>1, <1>2, <1>5, <2>1, <2>2 DEF Follows
  <1>12. CASE DeleteSpace
    BY <1>1, <1>12 DEF DeleteSpace
  <1>13. CASE Tick \/ AtRest \/ UNCHANGED vars
    <2>1. /\ UNCHANGED <<config, fires, patch, disturbed, handler>>
          /\ now' = now \/ now' = now + 1
      BY <1>13 DEF Tick, AtRest, vars
    <2>2. Before
      BY <1>1, <1>5, <2>1
    <2>3. fires # NULL => Follows(fires, config)'
      BY <1>0, <1>2, <2>1, <2>2, FollowsStays DEF Follows
    <2>4. QED
      BY <1>2, <2>1, <2>2, <2>3 DEF HandlerOpen
  <1>14. QED
    BY <1>4, <1>6, <1>7, <1>8, <1>9, <1>10, <1>11, <1>12, <1>13 DEF Next, AlarmStep

(* next_scheduled_at is what is stored, unless somebody has yet to write   *)
(* what he stored.                                                         *)
LEMMA RowStep ==
  ASSUME IInv, [Next]_vars
  PROVE  RowInv'
  <1> USE DEF Finishing, storage, platform
  <1>0. /\ handler \in HandlerType /\ patch \in [Patches -> PatchType]
        /\ NULL \notin Fires /\ retries \in Nat /\ config \in Config \cup {NULL}
        /\ TypeOK /\ ReadInv /\ WorkInv /\ StoreInv /\ RowInv
    BY NullIsApart DEF TypeOK, HandlerType, PatchType, IInv
  <1>1. SUFFICES ASSUME ~ disturbed', config' # NULL, fires' # NULL, ~ Finishing',
                        retries' = 0
                 PROVE  /\ nextScheduled' = fires'
                           \/ \E p \in Patches : patch'[p].pc = "write"
                        /\ \A p \in Patches :
                             patch'[p].pc = "write" => patch'[p].fires = fires'
    BY DEF RowInv
  <1> DEFINE Before == ~ disturbed /\ config # NULL /\ fires # NULL /\ ~ Finishing
                       /\ retries = 0
             Goal == /\ nextScheduled' = fires'
                        \/ \E p \in Patches : patch'[p].pc = "write"
                     /\ \A p \in Patches :
                          patch'[p].pc = "write" => patch'[p].fires = fires'
  <1>2. Before => /\ nextScheduled = fires \/ \E p \in Patches : patch[p].pc = "write"
                  /\ \A p \in Patches : patch[p].pc = "write" => patch[p].fires = fires
    BY <1>0 DEF RowInv
  <1>3. ASSUME NEW p \in Patches, PatchReadPrevious(p) \/ PatchStep(p)
        PROVE  Goal
    <2>1. /\ UNCHANGED <<handler, retries>> /\ (config = NULL => config' = NULL)
          /\ \A q \in Patches \ {p} : patch'[q] = patch[q]
          /\ patch'[p] \in PatchType
      BY <1>0, <1>3, PatchTypeStep
    <2>2. ASSUME UNCHANGED <<nextScheduled, fires>>, disturbed => disturbed',
                 patch[p].pc # "write", patch'[p].pc # "write"
          PROVE  Goal
      <3>1. Before
        BY <1>1, <2>1, <2>2
      <3>2. \A q \in Patches : (patch'[q].pc = "write" <=> patch[q].pc = "write")
                               /\ (patch[q].pc = "write" => patch'[q] = patch[q])
        BY <2>1, <2>2
      <3>3. QED
        BY <1>2, <2>2, <3>1, <3>2
    <2>3. CASE PatchReadPrevious(p)
      <3>1. patch'[p].pc = "upsert"
        BY <1>0, <2>3 DEF PatchReadPrevious, PatchType
      <3>2. QED
        BY <2>2, <2>3, <3>1 DEF PatchReadPrevious
    <2>4. CASE PatchUpsert(p)
      <3>1. config # NULL => patch'[p].pc # "write"
        BY <1>0, <2>4 DEF PatchUpsert, PatchType
      <3>2. QED
        BY <1>1, <2>1, <2>2, <2>4, <3>1 DEF PatchUpsert
    <2>5. CASE PatchRegister(p)
      <3>1. patch'[p].pc \in {"read", "revert"}
        BY <1>0, <2>5 DEF PatchRegister, Goes, PatchType
      <3>2. UNCHANGED <<nextScheduled, fires>> /\ patch[p].pc = "register"
        BY <2>5 DEF PatchRegister
      <3>3. disturbed => disturbed'
        BY <2>5, Zenon DEF PatchRegister
      <3>4. QED
        BY <2>2, <3>1, <3>2, <3>3
    <2>6. CASE PatchRevert(p)
      BY <1>1, <2>1, <2>6 DEF PatchRevert
    <2>7. CASE PatchUnregister(p)
      <3>1. patch'[p].pc = "read"
        BY <1>0, <2>7 DEF PatchUnregister, Goes, PatchType
      <3>2. UNCHANGED <<nextScheduled, fires>> /\ patch[p].pc = "unregister"
        BY <2>7 DEF PatchUnregister
      <3>3. disturbed => disturbed'
        BY <2>7, Zenon DEF PatchUnregister
      <3>4. QED
        BY <2>2, <3>1, <3>2, <3>3
    <2>8. CASE PatchReadSchedule(p)
      <3>1. config # NULL => patch'[p].pc = "send"
        BY <1>0, <2>8 DEF PatchReadSchedule, PatchType
      <3>2. QED
        BY <1>1, <2>1, <2>2, <2>8, <3>1 DEF PatchReadSchedule
    <2>9. CASE PatchSend(p)
      <3> DEFINE fs == ComputeFires(patch[p].schedule, now)
      <3>1. patch[p].pc = "send" /\ UNCHANGED nextScheduled
        BY <2>9 DEF PatchSend
      <3>2. CASE /\ fires' = fs
                 /\ patch' = [patch EXCEPT ![p].pc = "write", ![p].fires = fs,
                                           ![p].schedule = NULL]
                 /\ disturbed' = \/ HandlerOpen
                                 \/ patch[p].schedule # config
                                 \/ \E q \in Patches \ {p} : patch[q].pc = "write"
        <4>1. patch'[p].pc = "write" /\ patch'[p].fires = fires'
          BY <1>0, <3>2 DEF PatchType
        <4>2. \A q \in Patches \ {p} : patch'[q].pc # "write"
          BY <1>1, <2>1, <3>2
        <4>3. QED
          BY <4>1, <4>2
      <3>3. CASE Ends(p) /\ UNCHANGED <<fires, disturbed>>
        <4>1. patch'[p].pc = "done"
          BY <1>0, <3>3, IdleType DEF Ends
        <4>2. QED
          BY <2>2, <3>1, <3>3, <4>1
      <3>4. CASE disturbed' = TRUE
        BY <1>1, <3>4
      <3>5. QED
        BY <2>9, <3>2, <3>3, <3>4 DEF PatchSend
    <2>10. CASE PatchWriteNextScheduled(p)
      <3>1. /\ UNCHANGED <<config, fires>> /\ patch[p].pc = "write"
            /\ nextScheduled' = patch[p].fires /\ ~ disturbed
        BY <1>1, <2>10 DEF PatchWriteNextScheduled
      <3>2. patch'[p].pc = "done"
        BY <1>0, <2>10, IdleType DEF PatchWriteNextScheduled, Ends
      <3>3. Before
        BY <1>1, <2>1, <3>1
      <3>4. QED
        BY <1>2, <2>1, <3>1, <3>2, <3>3
    <2>11. QED
      BY <1>3, <2>3, <2>4, <2>5, <2>6, <2>7, <2>8, <2>9, <2>10 DEF PatchStep
  <1>4. ASSUME UNCHANGED <<nextScheduled, fires, patch>>, Before
        PROVE  Goal
    BY <1>2, <1>4
  <1>5. CASE \/ AlarmDelivered \/ AlarmReadFires \/ AlarmCheckConnection
             \/ \E l \in Lanes : AlarmStartRun(l)
    <2>1. /\ UNCHANGED <<nextScheduled, fires, patch, disturbed, config, retries>>
          /\ ~ Finishing
      BY <1>5 DEF AlarmDelivered, AlarmReadFires, AlarmCheckConnection, AlarmStartRun
    <2>2. QED
      BY <1>1, <1>4, <2>1
  <1>6. CASE AlarmFetchConfig
    <2>1. /\ UNCHANGED <<nextScheduled, fires, patch, disturbed, config>> /\ ~ Finishing
          /\ config # NULL => UNCHANGED retries
      BY <1>6 DEF AlarmFetchConfig
    <2>2. QED
      BY <1>1, <1>4, <2>1
  <1>7. CASE AlarmAdvance \/ AlarmPolled
    BY <1>0, <1>1, <1>7, HandlerMoves
  <1>8. CASE AlarmWriteNextScheduled
    <2>1. /\ UNCHANGED <<fires, patch, config>> /\ nextScheduled' = handler.fires
          /\ handler.pc = "write" /\ ~ disturbed
          /\ \A p \in Patches : patch[p].pc # "write"
      BY <1>1, <1>8 DEF AlarmWriteNextScheduled
    <2>2. QED
      BY <1>0, <2>1 DEF StoreInv
  <1>9. CASE AlarmThrows
    BY <1>0, <1>1, <1>9 DEF AlarmThrows
  <1>10. CASE DeleteSpace
    BY <1>1, <1>10 DEF DeleteSpace
  <1>11. CASE Tick \/ AtRest \/ UNCHANGED vars
    <2>1. UNCHANGED <<nextScheduled, fires, patch, disturbed, config, retries, handler>>
      BY <1>11 DEF Tick, AtRest, vars
    <2>2. QED
      BY <1>1, <1>4, <2>1
  <1>12. QED
    BY <1>3, <1>5, <1>6, <1>7, <1>8, <1>9, <1>10, <1>11 DEF Next, AlarmStep

(* The layers are inductive together.                                      *)
THEOREM StepInv == IInv /\ [Next]_vars => IInv'
  <1> SUFFICES ASSUME IInv, [Next]_vars
               PROVE  IInv'
    OBVIOUS
  <1>1. TypeOK' /\ ReadInv' /\ WorkInv'
    BY TypeStep, WorkStep DEF IInv
  <1>2. QED
    BY <1>1, AlarmInvStep, FireStep, LaneStep, RowStep DEF IInv

(* Every reachable state of the scheduler satisfies every layer.           *)
THEOREM Invariance == Spec => []IInv
  BY InitInv, StepInv, PTL DEF Spec

-----------------------------------------------------------------------------
(* The properties.                                                         *)

(* The scheduler's storage, rows and handlers keep to their types; MinDefined *)
(* never arms the alarm with anything but a time or nothing.               *)
THEOREM TypeCorrect == Spec => []TypeOK
  <1>1. IInv => TypeOK
    BY DEF IInv
  <1>2. QED
    BY Invariance, <1>1, PTL

(* The single alarm is the earliest of the three lanes whenever the object *)
(* is idle and no schedule change met its handler, or a redelivery that is *)
(* due now.                                                                *)
THEOREM AlarmCorrect == Spec => []AlarmIsEarliest
  <1>1. IInv => AlarmIsEarliest
    BY DEF IInv
  <1>2. QED
    BY Invariance, <1>1, PTL

(* A fire of a lane is dispatched at most once per failed delivery plus    *)
(* once, whatever the schedule changes do meanwhile.                       *)
THEOREM FireCorrect == Spec => []FireOncePerDelivery
  <1>1. IInv => FireOncePerDelivery
    <2>1. ASSUME IInv, NEW l \in Lanes, NEW t \in 0..MaxTime
          PROVE  dispatched[l][t] <= 1 + throws
      <3>1. dispatched[l][t] \in Nat /\ throws \in Nat
        BY <2>1, BoundsAssumption DEF IInv, TypeOK
      <3>2. QED
        BY <2>1, <3>1 DEF IInv, FireInv
    <2>2. QED
      BY <2>1 DEF FireOncePerDelivery
  <1>2. QED
    BY Invariance, <1>1, PTL

(* With nothing under way, the lanes are those of the row and the pages    *)
(* show them, however changes, deliveries and time interleaved.            *)
THEOREM LaneCorrect == Spec => []LanesFollowConfig
  <1>1. IInv => LanesFollowConfig
    <2>1. Quiet => ~ Pending /\ \A p \in Patches : patch[p].pc # "write"
      BY DEF Quiet, Pending
    <2>2. QED
      BY <2>1 DEF IInv, LaneInv, RowInv, LanesFollowConfig, Follows, Finishing, Quiet
  <1>2. QED
    BY Invariance, <1>1, PTL
=============================================================================
