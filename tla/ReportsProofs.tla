---------------------------- MODULE ReportsProofs ----------------------------
(***************************************************************************)
(* The safety properties of Reports, for any set of backups, any cadences  *)
(* and periods, and any number of hours, runs, attempts, edits and faults. *)
(***************************************************************************)
EXTENDS Reports, FiniteSetTheorems, SequenceTheorems, WellFoundedInduction, TLAPS

-----------------------------------------------------------------------------
(* The layers of the inductive invariant.                                  *)

\* Clocks: what has started or ended is past, and a call that computed a
\* window writes its document in the hour the window ends.
TimeInv ==
  /\ \A b \in Backups : /\ backup[b].started # NULL => backup[b].started <= now
                        /\ backup[b].done => backup[b].started # NULL
  /\ \A r \in DOMAIN runs : ~ runs[r].adHoc => runs[r].end <= now
  /\ \A g \in Callers :
       /\ gen[g].pc = "read" => gen[g].start <= gen[g].end
       /\ gen[g].pc = "read" /\ ~ gen[g].adHoc => gen[g].end = now
       /\ gen[g].pc = "inserted" /\ ~ runs[gen[g].run].adHoc => runs[gen[g].run].end = now

\* A run belongs to one call until its task is queued; it has its document
\* before it has a task, and its document before it has been generated.
HasDocument(r) == r \in DOMAIN runs /\ runs[r].doc # NULL
Holds(g) == gen[g].pc \in {"inserted", "persisted"}

DocInv ==
  /\ \A r \in DOMAIN runs :
       /\ runs[r].state = "generated" => runs[r].once
       /\ runs[r].once => runs[r].doc # NULL /\ runs[r].state # "running"
       /\ runs[r].doc # NULL /\ ~ runs[r].adHoc =>
            InWindow(r) \subseteq runs[r].doc \cup runs[r].unfinished
  /\ \A g \in Callers :
       /\ gen[g].pc = "inserted" => runs[gen[g].run].doc = NULL
       /\ gen[g].pc = "persisted" => runs[gen[g].run].doc # NULL
       /\ \A h \in Callers : Holds(g) /\ Holds(h) /\ gen[g].run = gen[h].run => g = h
  /\ \A r \in RunIds : task[r] # "none" => HasDocument(r)
  /\ \A p \in posts : HasDocument(p[1])

\* The chain leaves no gap: the backups that started before a window are in
\* the documents of runs that were generated, whatever became of them since.
CoveredOnce(b) ==
  \E r \in DOMAIN runs : /\ runs[r].once /\ ~ runs[r].adHoc
                         /\ b \in runs[r].doc \cup runs[r].unfinished
Accounted(t) ==
  \A b \in Backups : (backup[b].started # NULL /\ backup[b].started < t) => CoveredOnce(b)

CoverInv ==
  /\ \A r \in DOMAIN runs : ~ runs[r].adHoc => Accounted(runs[r].start)
  /\ \A g \in Callers : gen[g].pc = "read" /\ ~ gen[g].adHoc => Accounted(gen[g].start)

\* No more rows say sent than mails went out.
Sent(r) == {a \in Attempts : delivery[<<r, a>>] = "sent"}
SentInv == \A r \in RunIds : Cardinality(Sent(r)) <= mails[r]

\* While nothing fails, a run has one task, one callback and one delivery.
CallsCalm ==
  \A g \in Callers : gen[g].pc # "failing" /\ (Holds(g) => task[gen[g].run] = "none")
JobsCalm ==
  /\ \A r \in RunIds : /\ attempt[r] = 1
                       /\ task[r] \in {"none", "queued"} => delivery[<<r, 1>>] = "none"
  /\ \A p \in posts : /\ p[2] = 1
                      /\ task[p[1]] = "posted" /\ delivery[<<p[1], 1>>] = "none"
                      /\ \A q \in posts : q[1] = p[1] => q = p
MailsCalm ==
  /\ \A r \in RunIds : mails[r] = IF delivery[<<r, 1>>] = "sent" THEN 1 ELSE 0
  /\ \A d \in RunIds \X Attempts : d[2] # 1 => delivery[d] = "none"
  /\ \A d \in resend : delivery[d] = "failed"
CalmInv == faults = 0 => CallsCalm /\ JobsCalm /\ MailsCalm

IInv == TypeOK /\ TimeInv /\ DocInv /\ CoverInv /\ SentInv /\ CalmInv

-----------------------------------------------------------------------------
(* Operators.                                                              *)

LEMMA NullIsApart ==
  /\ NULL \notin Nat
  /\ \A docs : docs \in SUBSET Backups => docs # NULL
  BY NullAssumption

\* A nonempty set of hours has a least and a greatest element.
LEMMA LeastExists ==
  ASSUME NEW T \in SUBSET Nat, T # {}
  PROVE  \E t \in T : \A u \in T : t <= u
  <1>1. \E R : /\ IsWellFoundedOn(R, Nat)
               /\ \A u \in Nat, v \in Nat : u < v => <<u, v>> \in R
    <2>1. \A u \in Nat, v \in Nat : u < v => <<u, v>> \in OpToRel(<, Nat)
      BY DEF OpToRel
    <2>2. QED
      BY <2>1, NatLessThanWellFounded, Zenon
  <1>2. PICK R : /\ IsWellFoundedOn(R, Nat)
                 /\ \A u \in Nat, v \in Nat : u < v => <<u, v>> \in R
    BY <1>1
  <1>3. PICK t \in T : \A u \in T : ~ (<<u, t>> \in R)
    <2>1. IsWellFoundedOn(R, Nat) /\ T \subseteq Nat
      BY <1>2
    <2>2. QED
      BY <2>1, WFMin, Zenon
  <1>4. \A u \in T : ~ (u < t)
    BY <1>2, <1>3
  <1>5. QED
    BY <1>4

LEMMA MinIs ==
  ASSUME NEW T \in SUBSET Nat, T # {}
  PROVE  Min(T) \in T /\ \A t \in T : Min(T) <= t
  BY LeastExists DEF Min

LEMMA MaxIs ==
  ASSUME NEW n \in Nat, NEW T \in SUBSET (0..n), T # {}
  PROVE  Max(T) \in T /\ \A t \in T : t <= Max(T)
  <1> DEFINE U == {n - t : t \in T}
  <1>1. U \in SUBSET Nat /\ U # {}
    <2>1. PICK t \in T : TRUE
      OBVIOUS
    <2>2. n - t \in U
      BY <2>1
    <2>3. \A m \in T : n - m \in Nat
      OBVIOUS
    <2>4. QED
      BY <2>2, <2>3
  <1>2. PICK u \in U : \A v \in U : u <= v
    BY <1>1, LeastExists
  <1>3. PICK m \in T : u = n - m
    OBVIOUS
  <1>4. \A t \in T : m >= t
    BY <1>2, <1>3
  <1>5. QED
    BY <1>4 DEF Max

\* computeNextRunAt gives an hour, or null.
LEMMA NextIsHour ==
  ASSUME NEW c \in Cadences \cup {NULL}, NEW t \in Nat
  PROVE  ComputeNextRunAt(c, t) \in {NULL} \cup Nat
  <1>1. CASE c \in Periodic
    <2> DEFINE P == Period[c]
    <2>1. P \in Nat \ {0}
      BY <1>1, CadenceAssumption DEF Periodic
    <2>2. t \div P + 1 \in Nat
      BY <2>1
    <2>3. (t \div P + 1) * P \in Nat
      BY <2>1, <2>2
    <2>4. QED
      BY <1>1, <2>3 DEF ComputeNextRunAt
  <1>2. CASE c \notin Periodic
    BY <1>2 DEF ComputeNextRunAt
  <1>3. QED
    BY <1>1, <1>2

\* computeWindow: since_last starts at the end of a run of the chain, else no
\* later than any backup has started.
LEMMA WindowIs ==
  ASSUME TypeOK, TimeInv
  PROVE  /\ WindowStart(now) \in 0..now
         /\ \/ WindowStart(now) \in AnchorEnds
            \/ \A b \in Backups : backup[b].started # NULL =>
                                    WindowStart(now) <= backup[b].started
  <1>1. now \in Nat /\ AnchorEnds \in SUBSET (0..now)
    <2>1. now \in Nat /\ runs \in Seq(RunRow)
      BY DEF TypeOK
    <2>2. \A r \in ChainRuns : runs[r] \in RunRow /\ runs[r].end <= now
      BY <2>1 DEF ChainRuns, TimeInv
    <2>3. QED
      BY <2>1, <2>2 DEF AnchorEnds, RunRow
  <1>2. FirstBackupStart \in SUBSET (0..now)
    BY DEF TypeOK, TimeInv, FirstBackupStart
  <1>3. CASE AnchorEnds # {}
    <2>1. Max(AnchorEnds) \in AnchorEnds /\ Max(AnchorEnds) \in 0..now
      BY <1>1, <1>3, MaxIs
    <2>2. WindowStart(now) = IF Max(AnchorEnds) > now THEN now ELSE Max(AnchorEnds)
      BY <1>3, Zenon DEF WindowStart
    <2>3. WindowStart(now) = Max(AnchorEnds)
      BY <1>1, <2>1, <2>2
    <2>4. QED
      BY <2>1, <2>3
  <1>4. CASE AnchorEnds = {} /\ FirstBackupStart # {}
    <2>1. /\ Min(FirstBackupStart) \in FirstBackupStart
          /\ \A t \in FirstBackupStart : Min(FirstBackupStart) <= t
      BY <1>1, <1>2, <1>4, MinIs
    <2>2. WindowStart(now) = IF Min(FirstBackupStart) > now THEN now
                             ELSE Min(FirstBackupStart)
      BY <1>4, Zenon DEF WindowStart
    <2>3. Min(FirstBackupStart) \in 0..now
      BY <1>2, <2>1
    <2> DEFINE m == Min(FirstBackupStart)
    <2>5. WindowStart(now) = m /\ WindowStart(now) \in 0..now
      <3> HIDE DEF m
      <3>1. m \in 0..now /\ WindowStart(now) = IF m > now THEN now ELSE m
        BY <2>2, <2>3 DEF m
      <3>2. QED
        BY <1>1, <3>1
    <2>4. QED
      BY <2>1, <2>5 DEF FirstBackupStart
  <1>5. CASE AnchorEnds = {} /\ FirstBackupStart = {}
    <2>1. WindowStart(now) = IF now > now THEN now ELSE now
      BY <1>5, Zenon DEF WindowStart
    <2>2. \A b \in Backups : backup[b].started = NULL
      BY <1>5 DEF FirstBackupStart
    <2>3. QED
      BY <1>1, <2>1, <2>2
  <1>6. QED
    BY <1>3, <1>4, <1>5

-----------------------------------------------------------------------------
(* What a step does to the calls and the runs.                             *)

Closes(g) == gen' = [gen EXCEPT ![g] = Idle] /\ UNCHANGED <<runs, backup, now>>
Opens(g) ==
  /\ \/ gen' = [gen EXCEPT ![g] = Reading(WindowStart(now), FALSE, now)]
     \/ gen' = [gen EXCEPT ![g] = Reading(0, TRUE, MaxTime)]
  /\ UNCHANGED <<runs, backup, now>>
Inserts(g) ==
  /\ gen[g].pc = "read" /\ Len(runs) # MaxRuns
  /\ runs' = Append(runs, [state |-> "running", start |-> gen[g].start,
                           end |-> gen[g].end, adHoc |-> gen[g].adHoc,
                           doc |-> NULL, unfinished |-> {}, once |-> FALSE])
  /\ gen' = [gen EXCEPT ![g].pc = "inserted", ![g].run = Len(runs) + 1]
  /\ UNCHANGED <<backup, now>>
Fails(g) ==
  /\ gen[g].pc \in {"inserted", "persisted"}
  /\ gen' = [gen EXCEPT ![g].pc = "failing"]
  /\ UNCHANGED <<runs, backup, now>>

LEMMA ChainMoves ==
  ASSUME [Next]_vars
  PROVE  \/ UNCHANGED <<runs, gen, backup, now>>
         \/ \E g \in Callers : \/ Closes(g) \/ Opens(g) \/ Inserts(g) \/ Fails(g)
                               \/ PersistDocument(g) \/ MarkFailed(g)
         \/ \E p \in posts : Rendered(p)
         \/ \E b \in Backups : StartBackup(b) \/ FinishBackup(b)
         \/ Tick
  <1>1. ASSUME NEW g \in Callers, InsertRunningRun(g)
        PROVE  Closes(g) \/ Inserts(g)
    BY <1>1 DEF InsertRunningRun, Closes, Inserts
  <1>2. ASSUME NEW g \in Callers, EnqueueRender(g) \/ GenerateDies(g)
        PROVE  Closes(g)
    BY <1>2 DEF EnqueueRender, GenerateDies, Closes
  <1>3. ASSUME NEW g \in Callers, GenerateThrows(g)
        PROVE  Closes(g) \/ Fails(g)
    BY <1>3 DEF GenerateThrows, Closes, Fails
  <1>4. ASSUME SweepList PROVE Opens("sweep") /\ "sweep" \in Callers
    BY <1>4 DEF SweepList, Opens, Callers
  <1>5. ASSUME GenerateNow PROVE Opens("manual") /\ "manual" \in Callers
    BY <1>5 DEF GenerateNow, Opens, Callers
  <1>6. ASSUME NEW b \in Backups, FireEventReport(b)
        PROVE  (Closes(b) \/ Opens(b)) /\ b \in Callers
    BY <1>6 DEF FireEventReport, Opens, Closes, Callers
  <1>7. ASSUME \/ SetNextRunAt \/ SweepDies \/ UpdateDefinition \/ DeleteDefinition
               \/ UNCHANGED vars
        PROVE  UNCHANGED <<runs, gen, backup, now>>
    BY <1>7 DEF SetNextRunAt, SweepDies, UpdateDefinition, DeleteDefinition, vars
  <1>8. ASSUME NEW r, PostRendered(r) \/ TaskKilled(r) \/ ListFailedDeliveries(r)
        PROVE  UNCHANGED <<runs, gen, backup, now>>
    BY <1>8 DEF PostRendered, TaskKilled, ListFailedDeliveries
  <1>9. ASSUME NEW p, PostLost(p)
        PROVE  UNCHANGED <<runs, gen, backup, now>>
    BY <1>9 DEF PostLost
  <1>10. ASSUME NEW r, NEW a, MailStep(r, a) \/ DeliveryDies(r, a)
         PROVE  UNCHANGED <<runs, gen, backup, now>>
    BY <1>10 DEF MailStep, InsertDeliveries, SendEmail, ResendEmail, DeliveryDies
  <1>11. QED
    BY <1>1, <1>2, <1>3, <1>4, <1>5, <1>6, <1>7, <1>8, <1>9, <1>10
       DEF Next, GenerateStep, SweepStep, JobStep

\* A call moves, the others stay.
LEMMA CallMoves ==
  ASSUME TypeOK, TimeInv, NEW g \in Callers,
         Closes(g) \/ Opens(g) \/ Inserts(g) \/ Fails(g) \/ PersistDocument(g) \/ MarkFailed(g)
  PROVE  /\ gen' \in [Callers -> CallType]
         /\ \A h \in Callers \ {g} : gen'[h] = gen[h]
         /\ Closes(g) \/ MarkFailed(g) => gen'[g] = Idle
         /\ Opens(g) => \/ gen'[g] = Reading(WindowStart(now), FALSE, now)
                        \/ gen'[g] = Reading(0, TRUE, MaxTime)
         /\ Inserts(g) => gen'[g].pc = "inserted" /\ gen'[g].run = Len(runs) + 1
         /\ Fails(g) => gen'[g].pc = "failing" /\ gen'[g].run = gen[g].run
         /\ PersistDocument(g) => gen'[g].pc = "persisted" /\ gen'[g].run = gen[g].run
  <1>1. /\ gen \in [Callers -> CallType] /\ gen[g] \in CallType
        /\ now \in 0..MaxTime /\ MaxTime \in Nat /\ MaxRuns \in Nat /\ Len(runs) \in 0..MaxRuns
    BY BoundsAssumption DEF TypeOK
  <1>2. Idle \in CallType
    BY <1>1 DEF Idle, CallType
  <1>3. Reading(0, TRUE, MaxTime) \in CallType
    BY <1>1 DEF Reading, CallType
  <1>4. Reading(WindowStart(now), FALSE, now) \in CallType
    <2> DEFINE t == WindowStart(now)
    <2>1. t \in 0..MaxTime
      BY <1>1, WindowIs
    <2> HIDE DEF t
    <2>2. Reading(t, FALSE, now) \in CallType
      BY <1>1, <2>1 DEF Reading, CallType
    <2>3. QED
      BY <2>2 DEF t
  <1> HIDE DEF TypeOK
  <1> DEFINE Kept == /\ gen' \in [Callers -> CallType]
                     /\ \A h \in Callers \ {g} : gen'[h] = gen[h]
  <1>5. ASSUME NEW c \in CallType, gen' = [gen EXCEPT ![g] = c]
        PROVE  Kept /\ gen'[g] = c
    BY <1>1, <1>5
  <1>6. ASSUME Closes(g) \/ MarkFailed(g)
        PROVE  Kept /\ gen'[g] = Idle
    <2>1. gen' = [gen EXCEPT ![g] = Idle]
      BY <1>6 DEF Closes, MarkFailed
    <2>2. QED
      BY <1>2, <1>5, <2>1
  <1>7. ASSUME Opens(g)
        PROVE  Kept /\ \/ gen'[g] = Reading(WindowStart(now), FALSE, now)
                       \/ gen'[g] = Reading(0, TRUE, MaxTime)
    BY <1>3, <1>4, <1>5, <1>7, Zenon DEF Opens
  <1>8. ASSUME Inserts(g)
        PROVE  Kept /\ gen'[g].pc = "inserted" /\ gen'[g].run = Len(runs) + 1
    <2> DEFINE c == [gen[g] EXCEPT !.pc = "inserted", !.run = Len(runs) + 1]
    <2>1. Len(runs) + 1 \in 0..MaxRuns
      BY <1>1, <1>8 DEF Inserts
    <2>2. c \in CallType /\ c.pc = "inserted" /\ c.run = Len(runs) + 1
      BY <1>1, <2>1 DEF CallType
    <2>3. gen' = [gen EXCEPT ![g] = c]
      BY <1>8 DEF Inserts
    <2> HIDE DEF c
    <2>4. QED
      BY <1>5, <2>2, <2>3
  <1>9. ASSUME NEW pc \in {"persisted", "failing"}, gen' = [gen EXCEPT ![g].pc = pc]
        PROVE  Kept /\ gen'[g].pc = pc /\ gen'[g].run = gen[g].run
    <2> DEFINE c == [gen[g] EXCEPT !.pc = pc]
    <2>1. c \in CallType /\ c.pc = pc /\ c.run = gen[g].run
      BY <1>1 DEF CallType
    <2>2. gen' = [gen EXCEPT ![g] = c]
      BY <1>9
    <2> HIDE DEF c
    <2>3. QED
      BY <1>5, <2>1, <2>2
  <1>10. ASSUME Fails(g)
         PROVE  Kept /\ gen'[g].pc = "failing" /\ gen'[g].run = gen[g].run
    BY <1>9, <1>10 DEF Fails
  <1>11. ASSUME PersistDocument(g)
         PROVE  Kept /\ gen'[g].pc = "persisted" /\ gen'[g].run = gen[g].run
    BY <1>9, <1>11 DEF PersistDocument
  <1> HIDE DEF Kept
  <1>12. Kept
    BY <1>6, <1>7, <1>8, <1>10, <1>11
  <1>13. QED
    BY <1>6, <1>7, <1>8, <1>10, <1>11, <1>12, Zenon DEF Kept

\* One row is updated.
RowsKept(r) ==
  /\ runs' \in Seq(RunRow) /\ Len(runs') = Len(runs) /\ DOMAIN runs' = DOMAIN runs
  /\ \A q \in DOMAIN runs \ {r} : runs'[q] = runs[q]
WindowKept(r) == /\ runs'[r].start = runs[r].start /\ runs'[r].end = runs[r].end
                 /\ runs'[r].adHoc = runs[r].adHoc

LEMMA RowAt ==
  ASSUME TypeOK, NEW r \in DOMAIN runs, NEW row \in RunRow, runs' = [runs EXCEPT ![r] = row]
  PROVE  RowsKept(r) /\ runs'[r] = row
  <1>1. runs \in Seq(RunRow)
    BY DEF TypeOK
  <1>2. /\ runs \in [1..Len(runs) -> RunRow] /\ Len(runs) \in Nat
        /\ DOMAIN runs = 1..Len(runs)
    BY <1>1
  <1>3. runs' \in [1..Len(runs) -> RunRow]
    BY <1>2
  <1>4. runs' \in Seq(RunRow) /\ Len(runs') = Len(runs)
    BY <1>2, <1>3
  <1>5. QED
    BY <1>2, <1>3, <1>4 DEF RowsKept

LEMMA RowIs ==
  ASSUME TypeOK, NEW r \in DOMAIN runs
  PROVE  runs[r] \in RunRow
  BY DEF TypeOK

\* PersistDocument splits the backups of the window.
LEMMA PersistIs ==
  ASSUME TypeOK, NEW g \in Callers, PersistDocument(g), NEW r, r = gen[g].run
  PROVE  /\ r \in DOMAIN runs /\ RowsKept(r) /\ WindowKept(r)
         /\ runs'[r].state = runs[r].state /\ runs'[r].once = runs[r].once
         /\ runs'[r].doc = {b \in InWindow(r) : backup[b].done}
         /\ runs'[r].unfinished = InWindow(r) \ runs'[r].doc
         /\ UNCHANGED <<backup, now>>
  <1> DEFINE W == InWindow(r)
             seen == {b \in W : backup[b].done}
             row == [runs[r] EXCEPT !.doc = seen, !.unfinished = W \ seen]
  <1>1. r \in DOMAIN runs /\ runs[r] \in RunRow
    BY RowIs DEF PersistDocument, TypeOK
  <1>2. W \in SUBSET Backups /\ seen \in SUBSET Backups /\ W \ seen \in SUBSET Backups
    BY DEF InWindow
  <1>3. runs' = [runs EXCEPT ![r] = row] /\ UNCHANGED <<backup, now>>
    BY <1>1 DEF PersistDocument
  <1> HIDE DEF seen, W
  <1>4. /\ row \in RunRow
        /\ row.start = runs[r].start /\ row.end = runs[r].end /\ row.adHoc = runs[r].adHoc
        /\ row.state = runs[r].state /\ row.once = runs[r].once
        /\ row.doc = seen /\ row.unfinished = W \ seen
    BY <1>1, <1>2 DEF RunRow
  <1> HIDE DEF row
  <1>5. RowsKept(r) /\ runs'[r] = row
    BY <1>1, <1>3, <1>4, RowAt
  <1>6. QED
    BY <1>1, <1>3, <1>4, <1>5 DEF WindowKept, seen, W

\* markFailed, and the callback: the state, and once when generated.
Ends(r) ==
  /\ r \in DOMAIN runs /\ RowsKept(r) /\ WindowKept(r)
  /\ runs'[r].doc = runs[r].doc /\ runs'[r].unfinished = runs[r].unfinished
  /\ \/ runs'[r].state = "failed" /\ runs'[r].once = runs[r].once
     \/ runs'[r].state = "generated" /\ runs'[r].once = TRUE

LEMMA EndIs ==
  ASSUME TypeOK, NEW r \in DOMAIN runs,
         \/ runs' = [runs EXCEPT ![r].state = StateAfterError(@)]
         \/ runs' = [runs EXCEPT ![r].state = "generated", ![r].once = TRUE]
  PROVE  Ends(r)
  <1>1. runs[r] \in RunRow
    BY RowIs
  <1>2. CASE runs' = [runs EXCEPT ![r].state = StateAfterError(@)]
    <2> DEFINE row == [runs[r] EXCEPT !.state = "failed"]
    <2>1. runs' = [runs EXCEPT ![r] = row]
      BY <1>2 DEF StateAfterError
    <2>2. /\ row \in RunRow
          /\ row.start = runs[r].start /\ row.end = runs[r].end /\ row.adHoc = runs[r].adHoc
          /\ row.doc = runs[r].doc /\ row.unfinished = runs[r].unfinished
          /\ row.state = "failed" /\ row.once = runs[r].once
      BY <1>1 DEF RunRow
    <2> HIDE DEF row
    <2>3. RowsKept(r) /\ runs'[r] = row
      BY <2>1, <2>2, RowAt
    <2>4. QED
      BY <2>2, <2>3 DEF Ends, WindowKept
  <1>3. CASE runs' = [runs EXCEPT ![r].state = "generated", ![r].once = TRUE]
    <2> DEFINE row == [runs[r] EXCEPT !.state = "generated", !.once = TRUE]
    <2>1. runs' = [runs EXCEPT ![r] = row]
      BY <1>3
    <2>2. /\ row \in RunRow
          /\ row.start = runs[r].start /\ row.end = runs[r].end /\ row.adHoc = runs[r].adHoc
          /\ row.doc = runs[r].doc /\ row.unfinished = runs[r].unfinished
          /\ row.state = "generated" /\ row.once = TRUE
      BY <1>1 DEF RunRow
    <2> HIDE DEF row
    <2>3. RowsKept(r) /\ runs'[r] = row
      BY <2>1, <2>2, RowAt
    <2>4. QED
      BY <2>2, <2>3 DEF Ends, WindowKept
  <1>4. QED
    BY <1>2, <1>3

\* Only a run with a document is rendered.
LEMMA RenderedIs ==
  ASSUME TypeOK, DocInv, NEW p \in posts, Rendered(p)
  PROVE  /\ UNCHANGED <<gen, backup, now>>
         /\ UNCHANGED runs \/ (Ends(p[1]) /\ runs[p[1]].doc # NULL)
  <1>1. p[1] \in DOMAIN runs /\ runs[p[1]].doc # NULL
    BY DEF DocInv, HasDocument
  <1> DEFINE r == p[1]
  <1>2. \/ UNCHANGED runs
        \/ runs' = [runs EXCEPT ![r].state = StateAfterError(@)]
        \/ runs' = [runs EXCEPT ![r].state = "generated", ![r].once = TRUE]
    BY DEF Rendered
  <1>3. UNCHANGED <<gen, backup, now>>
    BY DEF Rendered
  <1> HIDE DEF r
  <1>4. UNCHANGED runs \/ Ends(r)
    BY <1>1, <1>2, EndIs DEF r
  <1>5. QED
    BY <1>1, <1>3, <1>4 DEF r

\* A call marks its run failed, unless the definition is gone.
LEMMA MarkFailedIs ==
  ASSUME TypeOK, NEW g \in Callers, MarkFailed(g)
  PROVE  /\ UNCHANGED <<backup, now>>
         /\ \/ UNCHANGED runs
            \/ Ends(gen[g].run) /\ runs'[gen[g].run].state = "failed"
                                /\ runs'[gen[g].run].once = runs[gen[g].run].once
  <1> DEFINE r == gen[g].run
  <1>1. r \in DOMAIN runs
    BY DEF MarkFailed, TypeOK
  <1>2. UNCHANGED runs \/ runs' = [runs EXCEPT ![r].state = StateAfterError(@)]
    BY DEF MarkFailed
  <1>3. UNCHANGED <<backup, now>>
    BY DEF MarkFailed
  <1> HIDE DEF r
  <1>4. CASE runs' = [runs EXCEPT ![r].state = StateAfterError(@)]
    <2>1. Ends(r)
      BY <1>1, <1>4, EndIs
    <2>2. runs'[r].state = "failed" /\ runs'[r].once = runs[r].once
      <3>1. runs \in [DOMAIN runs -> RunRow]
        BY DEF TypeOK
      <3>2. QED
        BY <1>1, <1>4, <3>1 DEF StateAfterError, RunRow
    <2>3. QED
      BY <1>3, <2>1, <2>2 DEF r
  <1>5. QED
    BY <1>2, <1>3, <1>4

\* insertRunningRun adds the row at the end.
LEMMA InsertIs ==
  ASSUME TypeOK, NEW g \in Callers, Inserts(g), NEW n, n = Len(runs) + 1, TimeInv
  PROVE  /\ n \notin DOMAIN runs /\ DOMAIN runs' = DOMAIN runs \cup {n} /\ n \in RunIds
         /\ runs' \in Seq(RunRow) /\ Len(runs') = n
         /\ \A q \in DOMAIN runs : runs'[q] = runs[q]
         /\ runs'[n].state = "running" /\ runs'[n].once = FALSE /\ runs'[n].doc = NULL
         /\ runs'[n].unfinished = {}
         /\ runs'[n].start = gen[g].start /\ runs'[n].end = gen[g].end
         /\ runs'[n].adHoc = gen[g].adHoc
         /\ UNCHANGED <<backup, now>>
  <1> DEFINE row == [state |-> "running", start |-> gen[g].start, end |-> gen[g].end,
                     adHoc |-> gen[g].adHoc, doc |-> NULL, unfinished |-> {}, once |-> FALSE]
  <1>1. /\ runs \in Seq(RunRow) /\ Len(runs) <= MaxRuns /\ MaxRuns \in Nat
        /\ Len(runs) # MaxRuns /\ DOMAIN runs = 1..Len(runs) /\ Len(runs) \in Nat
    BY BoundsAssumption DEF TypeOK, Inserts
  <1>2. gen[g] \in CallType
    BY DEF TypeOK
  <1>3. row \in RunRow
    BY <1>2 DEF CallType, RunRow
  <1>4. runs' = Append(runs, row) /\ UNCHANGED <<backup, now>>
    BY DEF Inserts
  <1>5. /\ row.state = "running" /\ row.once = FALSE /\ row.doc = NULL
        /\ row.unfinished = {}
        /\ row.start = gen[g].start /\ row.end = gen[g].end /\ row.adHoc = gen[g].adHoc
    OBVIOUS
  <1> HIDE DEF row
  <1>6. /\ runs' \in Seq(RunRow) /\ Len(runs') = Len(runs) + 1
        /\ \A q \in 1..Len(runs) : runs'[q] = runs[q]
        /\ runs'[Len(runs) + 1] = row
    BY <1>1, <1>3, <1>4, AppendProperties, Zenon
  <1>7. DOMAIN runs' = 1..(Len(runs) + 1)
    BY <1>6
  <1>8. \A k \in Nat : 1..(k + 1) = (1..k) \cup {k + 1} /\ k + 1 \notin 1..k
    OBVIOUS
  <1>9. Len(runs) + 1 \in 1..MaxRuns
    <2>1. \A k, m \in Nat : k <= m /\ k # m => k + 1 \in 1..m
      OBVIOUS
    <2>2. QED
      BY <1>1, <2>1, Zenon
  <1>10. QED
    BY <1>1, <1>4, <1>5, <1>6, <1>7, <1>8, <1>9, Zenon DEF RunIds

\* Time passes, rows stay, and what a generated run says stays.
LEMMA RunsGrow ==
  ASSUME TypeOK, TimeInv, DocInv, [Next]_vars
  PROVE  /\ DOMAIN runs \subseteq DOMAIN runs'
         /\ \A r \in DOMAIN runs' \ DOMAIN runs :
              \E g \in Callers : Inserts(g) /\ r = Len(runs) + 1
         /\ \A r \in DOMAIN runs :
              /\ WindowKept(r)
              /\ runs[r].once => /\ runs'[r].once = TRUE /\ runs'[r].doc = runs[r].doc
                                 /\ runs'[r].unfinished = runs[r].unfinished
              /\ runs[r].doc # NULL => runs'[r].doc # NULL
  <1> DEFINE Goal == /\ DOMAIN runs \subseteq DOMAIN runs'
                     /\ \A r \in DOMAIN runs' \ DOMAIN runs :
                          \E g \in Callers : Inserts(g) /\ r = Len(runs) + 1
                     /\ \A r \in DOMAIN runs :
                          /\ WindowKept(r)
                          /\ runs[r].once => /\ runs'[r].once = TRUE
                                             /\ runs'[r].doc = runs[r].doc
                                             /\ runs'[r].unfinished = runs[r].unfinished
                          /\ runs[r].doc # NULL => runs'[r].doc # NULL
  <1>0. \A r \in DOMAIN runs : runs[r].once \in BOOLEAN
    BY RowIs DEF RunRow
  <1>1. ASSUME UNCHANGED runs
        PROVE  Goal
    BY <1>0, <1>1 DEF WindowKept
  <1>2. ASSUME NEW r, Ends(r)
        PROVE  Goal
    BY <1>0, <1>2, Zenon DEF Ends, RowsKept, WindowKept
  <1>3. ASSUME NEW g \in Callers, Inserts(g)
        PROVE  Goal
    BY <1>0, <1>3, InsertIs, Zenon DEF WindowKept
  <1>4. ASSUME NEW g \in Callers, PersistDocument(g)
        PROVE  Goal
    <2> DEFINE r == gen[g].run
    <2>1. /\ r \in DOMAIN runs /\ RowsKept(r) /\ WindowKept(r)
          /\ runs'[r].doc = {b \in InWindow(r) : backup[b].done}
      BY <1>4, PersistIs
    <2>2. runs[r].doc = NULL /\ ~ runs[r].once
      BY <1>4, <2>1 DEF DocInv, PersistDocument
    <2> HIDE DEF r
    <2>3. \A q \in DOMAIN runs \ {r} : runs'[q] = runs[q]
      BY <2>1 DEF RowsKept
    <2>4. QED
      BY <1>0, <2>1, <2>2, <2>3, Zenon DEF WindowKept, RowsKept
  <1>5. ASSUME NEW g \in Callers, Closes(g) \/ Opens(g) \/ Fails(g)
        PROVE  Goal
    BY <1>1, <1>5 DEF Closes, Opens, Fails
  <1>6. ASSUME NEW g \in Callers, MarkFailed(g)
        PROVE  Goal
    BY <1>1, <1>2, <1>6, MarkFailedIs
  <1>7. ASSUME NEW p \in posts, Rendered(p)
        PROVE  Goal
    BY <1>1, <1>2, <1>7, RenderedIs
  <1>8. ASSUME NEW b, StartBackup(b) \/ FinishBackup(b) \/ Tick
        PROVE  Goal
    BY <1>1, <1>8 DEF StartBackup, FinishBackup, Tick
  <1> HIDE DEF Goal
  <1>9. Goal
    BY <1>1, <1>3, <1>4, <1>5, <1>6, <1>7, <1>8, ChainMoves, Zenon
  <1>10. QED
    BY <1>9 DEF Goal

\* A backup starts now and is done once it has started.
LEMMA BackupMoves ==
  ASSUME TypeOK, TimeInv, DocInv, [Next]_vars
  PROVE  /\ now' \in 0..MaxTime /\ now <= now'
         /\ backup' \in [Backups -> [started: {NULL} \cup 0..MaxTime, done: BOOLEAN]]
         /\ \A b \in Backups :
              /\ \/ backup'[b].started = backup[b].started
                 \/ backup[b].started = NULL /\ backup'[b].started = now
              /\ backup'[b].done => backup[b].done \/ backup[b].started # NULL
  <1> DEFINE Row == [started: {NULL} \cup 0..MaxTime, done: BOOLEAN]
             Same(b) == /\ backup'[b].started = backup[b].started
                        /\ backup'[b].done = backup[b].done
  <1>0. /\ now \in 0..MaxTime /\ MaxTime \in Nat
        /\ backup \in [Backups -> Row]
    BY BoundsAssumption DEF TypeOK
  <1>1. ASSUME now' = now \/ Tick
        PROVE  now' \in 0..MaxTime /\ now <= now'
    BY <1>0, <1>1 DEF Tick
  <1>2. ASSUME NEW b \in Backups, StartBackup(b)
        PROVE  /\ now' = now /\ backup' \in [Backups -> Row]
               /\ backup[b].started = NULL /\ backup'[b].started = now
               /\ backup'[b].done = backup[b].done
               /\ \A c \in Backups \ {b} : backup'[c] = backup[c]
    BY <1>0, <1>2 DEF StartBackup
  <1>3. ASSUME NEW b \in Backups, FinishBackup(b)
        PROVE  /\ now' = now /\ backup' \in [Backups -> Row]
               /\ backup[b].started # NULL /\ backup'[b].started = backup[b].started
               /\ \A c \in Backups \ {b} : backup'[c] = backup[c]
    BY <1>0, <1>3 DEF FinishBackup
  <1>4. ASSUME Tick
        PROVE  backup' = backup
    BY <1>4 DEF Tick
  <1>5. ASSUME NEW g \in Callers,
               Closes(g) \/ Opens(g) \/ Inserts(g) \/ Fails(g) \/ PersistDocument(g)
               \/ MarkFailed(g)
        PROVE  now' = now /\ backup' = backup
    BY <1>5 DEF Closes, Opens, Inserts, Fails, PersistDocument, MarkFailed
  <1>6. ASSUME NEW p \in posts, Rendered(p)
        PROVE  now' = now /\ backup' = backup
    BY <1>6 DEF Rendered
  <1> HIDE DEF Row
  <1>7. now' = now \/ Tick
    BY <1>2, <1>3, <1>5, <1>6, ChainMoves, Zenon
  <1>8. \/ backup' = backup
        \/ \E b \in Backups : StartBackup(b) \/ FinishBackup(b)
    BY <1>4, <1>5, <1>6, ChainMoves, Zenon
  <1>9. backup' \in [Backups -> Row]
    BY <1>0, <1>2, <1>3, <1>8, Zenon
  <1>10. \A b \in Backups :
              /\ \/ backup'[b].started = backup[b].started
                 \/ backup[b].started = NULL /\ backup'[b].started = now
              /\ backup'[b].done => backup[b].done \/ backup[b].started # NULL
    BY <1>2, <1>3, <1>8, Zenon
  <1>11. QED
    BY <1>1, <1>7, <1>9, <1>10, Zenon DEF Row

\* What becomes of each call.
CallGoes(g) ==
  \/ gen'[g] = gen[g]
  \/ gen'[g].pc \in {"idle", "due"}
  \/ gen'[g].pc = "failing" /\ Holds(g) /\ gen'[g].run = gen[g].run
  \/ /\ gen'[g].pc = "read" /\ UNCHANGED <<runs, backup, now>>
     /\ \/ gen'[g].adHoc = TRUE /\ gen'[g].start <= gen'[g].end
        \/ /\ gen'[g].adHoc = FALSE /\ gen'[g].start = WindowStart(now)
           /\ gen'[g].end = now
  \/ Inserts(g) /\ gen'[g].pc = "inserted" /\ gen'[g].run = Len(runs) + 1
  \/ PersistDocument(g) /\ gen'[g].pc = "persisted" /\ gen'[g].run = gen[g].run

LEMMA CallsNext ==
  ASSUME TypeOK, TimeInv, DocInv, [Next]_vars
  PROVE  /\ gen' \in [Callers -> CallType]
         /\ \A g \in Callers : CallGoes(g)
         /\ \A g, h \in Callers : g # h => gen'[g] = gen[g] \/ gen'[h] = gen[h]
         /\ now' # now => \A g \in Callers : gen'[g].pc = "idle"
  <1> DEFINE Goal(g) == /\ gen' \in [Callers -> CallType] /\ CallGoes(g)
                        /\ \A h \in Callers \ {g} : gen'[h] = gen[h]
  <1>0. gen \in [Callers -> CallType] /\ MaxTime \in Nat /\ now \in 0..MaxTime
    BY BoundsAssumption DEF TypeOK
  <1>1. ASSUME NEW g \in Callers, Closes(g) \/ MarkFailed(g)
        PROVE  Goal(g)
    <2>1. gen'[g] = Idle
      BY <1>1, CallMoves
    <2>2. gen'[g].pc = "idle"
      BY <2>1 DEF Idle
    <2>3. QED
      BY <1>1, <2>2, CallMoves, Zenon DEF CallGoes
  <1>2. ASSUME NEW g \in Callers, Opens(g)
        PROVE  Goal(g)
    <2>1. UNCHANGED <<runs, backup, now>>
      BY <1>2 DEF Opens
    <2>2. CASE gen'[g] = Reading(WindowStart(now), FALSE, now)
      <3>1. /\ gen'[g].pc = "read" /\ gen'[g].adHoc = FALSE
            /\ gen'[g].start = WindowStart(now) /\ gen'[g].end = now
        BY <2>2 DEF Reading
      <3>2. QED
        BY <1>2, <2>1, <3>1, CallMoves, Zenon DEF CallGoes
    <2>3. CASE gen'[g] = Reading(0, TRUE, MaxTime)
      <3>1. /\ gen'[g].pc = "read" /\ gen'[g].adHoc = TRUE
            /\ gen'[g].start <= gen'[g].end
        BY <1>0, <2>3 DEF Reading
      <3>2. QED
        BY <1>2, <2>1, <3>1, CallMoves, Zenon DEF CallGoes
    <2>4. QED
      BY <1>2, <2>2, <2>3, CallMoves, Zenon
  <1>3. ASSUME NEW g \in Callers, Inserts(g)
        PROVE  Goal(g)
    BY <1>3, CallMoves, Zenon DEF CallGoes
  <1>4. ASSUME NEW g \in Callers, Fails(g)
        PROVE  Goal(g)
    <2>1. Holds(g)
      BY <1>4 DEF Fails, Holds
    <2>2. QED
      BY <1>4, <2>1, CallMoves, Zenon DEF CallGoes
  <1>5. ASSUME NEW g \in Callers, PersistDocument(g)
        PROVE  Goal(g)
    BY <1>5, CallMoves, Zenon DEF CallGoes
  <1>6. ASSUME NEW b \in Backups, FinishBackup(b)
        PROVE  Goal(b) /\ b \in Callers
    <2>1. b \in Callers /\ gen' = [gen EXCEPT ![b].pc = "due"]
      BY <1>6 DEF FinishBackup, Callers
    <2>2. /\ gen' \in [Callers -> CallType] /\ gen'[b].pc = "due"
          /\ \A h \in Callers \ {b} : gen'[h] = gen[h]
      BY <1>0, <2>1 DEF CallType
    <2>3. QED
      BY <2>1, <2>2, Zenon DEF CallGoes
  <1>7. ASSUME \/ UNCHANGED gen
               \/ \E b \in Backups : StartBackup(b)
               \/ \E p \in posts : Rendered(p)
               \/ Tick
        PROVE  gen' = gen
    BY <1>7 DEF StartBackup, Rendered, Tick
  <1>8. gen' = gen \/ \E g \in Callers : Goal(g)
    <2> HIDE DEF Goal
    <2>1. QED
      BY <1>1, <1>2, <1>3, <1>4, <1>5, <1>6, <1>7, ChainMoves, Zenon
  <1>9. ASSUME now' # now
        PROVE  \A g \in Callers : gen'[g].pc = "idle"
    <2>1. ASSUME NEW g \in Callers, \/ Closes(g) \/ Opens(g) \/ Inserts(g) \/ Fails(g)
                                    \/ PersistDocument(g) \/ MarkFailed(g)
          PROVE  FALSE
      BY <1>9, <2>1 DEF Closes, Opens, Inserts, Fails, PersistDocument, MarkFailed
    <2>2. ASSUME NEW p \in posts, Rendered(p)
          PROVE  FALSE
      BY <1>9, <2>2 DEF Rendered
    <2>3. ASSUME NEW b \in Backups, StartBackup(b) \/ FinishBackup(b)
          PROVE  FALSE
      BY <1>9, <2>3 DEF StartBackup, FinishBackup
    <2>4. Tick
      BY <1>9, <2>1, <2>2, <2>3, ChainMoves, Zenon
    <2>5. QED
      BY <2>4 DEF Tick
  <1>10. CASE gen' = gen
    BY <1>0, <1>9, <1>10, Zenon DEF CallGoes
  <1>11. CASE \E g \in Callers : Goal(g)
    <2>1. PICK g \in Callers : Goal(g)
      BY <1>11
    <2>2. \A h \in Callers : CallGoes(h)
      BY <2>1, Zenon DEF CallGoes
    <2>3. QED
      BY <1>9, <2>1, <2>2, Zenon
  <1>12. QED
    BY <1>8, <1>10, <1>11, Zenon

-----------------------------------------------------------------------------
(* Clocks.                                                                 *)

LEMMA TimeStep ==
  ASSUME TypeOK, TimeInv, DocInv, [Next]_vars
  PROVE  TimeInv'
  <1>0. /\ now \in Nat /\ now' \in Nat /\ now <= now'
        /\ \A r \in DOMAIN runs : runs[r].end \in Nat /\ runs[r].adHoc \in BOOLEAN
    <2>1. \A r \in DOMAIN runs : runs[r].end \in Nat /\ runs[r].adHoc \in BOOLEAN
      BY RowIs DEF RunRow
    <2>2. now \in Nat /\ now' \in Nat /\ now <= now'
      BY BoundsAssumption, BackupMoves DEF TypeOK
    <2>3. QED
      BY <2>1, <2>2
  <1>1. \A b \in Backups : /\ backup'[b].started # NULL => backup'[b].started <= now'
                           /\ backup'[b].done => backup'[b].started # NULL
    <2> SUFFICES ASSUME NEW b \in Backups
                 PROVE  /\ backup'[b].started # NULL => backup'[b].started <= now'
                        /\ backup'[b].done => backup'[b].started # NULL
      OBVIOUS
    <2>1. /\ backup[b].started \in {NULL} \cup Nat
          /\ backup[b].started # NULL => backup[b].started <= now
          /\ backup[b].done => backup[b].started # NULL
      BY BoundsAssumption DEF TypeOK, TimeInv
    <2>2. /\ \/ backup'[b].started = backup[b].started
             \/ backup[b].started = NULL /\ backup'[b].started = now
          /\ backup'[b].done => backup[b].done \/ backup[b].started # NULL
      BY BackupMoves
    <2>3. backup'[b].started # NULL => backup'[b].started <= now'
      BY <1>0, <2>1, <2>2
    <2>4. now # NULL
      BY <1>0, NullIsApart
    <2>5. backup'[b].done => backup'[b].started # NULL
      BY <2>1, <2>2, <2>4, Zenon
    <2>6. QED
      BY <2>3, <2>5
  <1>2. \A r \in DOMAIN runs' : ~ runs'[r].adHoc => runs'[r].end <= now'
    <2>1. ASSUME NEW r \in DOMAIN runs
          PROVE  ~ runs'[r].adHoc => runs'[r].end <= now'
      <3>1. WindowKept(r)
        BY RunsGrow
      <3>2. ~ runs[r].adHoc => runs[r].end <= now
        BY DEF TimeInv
      <3>3. QED
        BY <1>0, <3>1, <3>2 DEF WindowKept
    <2>2. ASSUME NEW g \in Callers, Inserts(g), NEW r, r = Len(runs) + 1
          PROVE  ~ runs'[r].adHoc => runs'[r].end <= now'
      <3>1. runs'[r].adHoc = gen[g].adHoc /\ runs'[r].end = gen[g].end
        BY <2>2, InsertIs
      <3>2. ~ gen[g].adHoc => gen[g].end = now
        BY <2>2 DEF Inserts, TimeInv
      <3>3. QED
        BY <1>0, <3>1, <3>2
    <2>3. QED
      BY <2>1, <2>2, RunsGrow, Zenon
  <1>3. \A g \in Callers :
       /\ gen'[g].pc = "read" => gen'[g].start <= gen'[g].end
       /\ gen'[g].pc = "read" /\ ~ gen'[g].adHoc => gen'[g].end = now'
       /\ gen'[g].pc = "inserted" /\ ~ runs'[gen'[g].run].adHoc =>
            runs'[gen'[g].run].end = now'
    <2> SUFFICES ASSUME NEW g \in Callers
                 PROVE  /\ gen'[g].pc = "read" => gen'[g].start <= gen'[g].end
                        /\ gen'[g].pc = "read" /\ ~ gen'[g].adHoc => gen'[g].end = now'
                        /\ gen'[g].pc = "inserted" /\ ~ runs'[gen'[g].run].adHoc =>
                             runs'[gen'[g].run].end = now'
      OBVIOUS
    <2>1. CASE now' # now
      BY <2>1, CallsNext
    <2>2. CASE now' = now /\ gen'[g] = gen[g]
      <3>1. gen[g].pc = "inserted" => gen[g].run \in DOMAIN runs
        BY DEF TypeOK
      <3>2. gen[g].pc = "inserted" => WindowKept(gen[g].run)
        BY <3>1, RunsGrow
      <3>3. QED
        BY <2>2, <3>2, Zenon DEF TimeInv, WindowKept
    <2>3. CASE gen'[g].pc \in {"idle", "due", "failing", "persisted"}
      BY <2>3
    <2>4. CASE gen'[g].pc = "read" /\ gen'[g].adHoc = TRUE /\ gen'[g].start <= gen'[g].end
      BY <2>4
    <2>5. CASE /\ gen'[g].pc = "read" /\ gen'[g].adHoc = FALSE
               /\ gen'[g].start = WindowStart(now) /\ gen'[g].end = now /\ now' = now
      <3>1. gen'[g].start <= gen'[g].end
        BY <1>0, <2>5, WindowIs
      <3>2. QED
        BY <2>5, <3>1
    <2>6. CASE Inserts(g) /\ gen'[g].pc = "inserted" /\ gen'[g].run = Len(runs) + 1
      <3> DEFINE r == Len(runs) + 1
      <3>1. /\ runs'[r].adHoc = gen[g].adHoc /\ runs'[r].end = gen[g].end /\ now' = now
        BY <2>6, InsertIs
      <3>2. ~ gen[g].adHoc => gen[g].end = now
        BY <2>6 DEF Inserts, TimeInv
      <3> HIDE DEF r
      <3>3. gen'[g].run = r
        BY <2>6 DEF r
      <3>4. QED
        BY <2>6, <3>1, <3>2, <3>3, Zenon
    <2>7. CallGoes(g)
      BY CallsNext
    <2>8. QED
      BY <2>1, <2>2, <2>3, <2>4, <2>5, <2>6, <2>7 DEF CallGoes
  <1>4. QED
    BY <1>1, <1>2, <1>3, Zenon DEF TimeInv

-----------------------------------------------------------------------------
(* Documents.                                                              *)

\* Only the call that holds a run writes its document.
LEMMA DocsMove ==
  ASSUME TypeOK, TimeInv, DocInv, [Next]_vars, NEW r \in DOMAIN runs
  PROVE  \/ runs'[r].doc = runs[r].doc /\ runs'[r].unfinished = runs[r].unfinished
         \/ \E g \in Callers : PersistDocument(g) /\ gen[g].run = r
  <1> DEFINE Same == runs'[r].doc = runs[r].doc /\ runs'[r].unfinished = runs[r].unfinished
  <1>1. ASSUME UNCHANGED runs
        PROVE  Same
    BY <1>1
  <1>2. ASSUME NEW q, Ends(q)
        PROVE  Same
    BY <1>2, Zenon DEF Ends, RowsKept
  <1>3. ASSUME NEW g \in Callers, Inserts(g)
        PROVE  Same
    BY <1>3, InsertIs, Zenon
  <1>4. ASSUME NEW g \in Callers, PersistDocument(g), gen[g].run # r
        PROVE  Same
    <2>1. \A q \in DOMAIN runs \ {gen[g].run} : runs'[q] = runs[q]
      BY <1>4, PersistIs, Zenon DEF RowsKept
    <2>2. QED
      BY <1>4, <2>1
  <1>5. ASSUME NEW g \in Callers, Closes(g) \/ Opens(g) \/ Fails(g)
        PROVE  Same
    BY <1>5 DEF Closes, Opens, Fails
  <1>6. ASSUME NEW g \in Callers, MarkFailed(g)
        PROVE  Same
    BY <1>1, <1>2, <1>6, MarkFailedIs, Zenon
  <1>7. ASSUME NEW p \in posts, Rendered(p)
        PROVE  Same
    BY <1>1, <1>2, <1>7, RenderedIs, Zenon
  <1>8. ASSUME NEW b, StartBackup(b) \/ FinishBackup(b) \/ Tick
        PROVE  Same
    BY <1>8 DEF StartBackup, FinishBackup, Tick
  <1>9. QED
    BY <1>1, <1>3, <1>4, <1>5, <1>6, <1>7, <1>8, ChainMoves, Zenon

\* A run is generated with its document, and failed otherwise.
LEMMA StatesMove ==
  ASSUME TypeOK, TimeInv, DocInv, [Next]_vars, NEW r \in DOMAIN runs
  PROVE  \/ runs'[r].state = runs[r].state /\ runs'[r].once = runs[r].once
         \/ runs'[r].state = "failed" /\ runs'[r].once = runs[r].once
         \/ /\ runs'[r].state = "generated" /\ runs'[r].once = TRUE
            /\ runs[r].doc # NULL
  <1> DEFINE Goal == \/ runs'[r].state = runs[r].state /\ runs'[r].once = runs[r].once
                     \/ runs'[r].state = "failed" /\ runs'[r].once = runs[r].once
                     \/ /\ runs'[r].state = "generated" /\ runs'[r].once = TRUE
                        /\ runs[r].doc # NULL
  <1>1. ASSUME UNCHANGED runs
        PROVE  Goal
    BY <1>1
  <1>2. ASSUME NEW q \in DOMAIN runs, q # r, RowsKept(q)
        PROVE  Goal
    BY <1>2, Zenon DEF RowsKept
  <1>3. ASSUME NEW g \in Callers, Inserts(g)
        PROVE  Goal
    BY <1>3, InsertIs, Zenon
  <1>4. ASSUME NEW g \in Callers, PersistDocument(g)
        PROVE  Goal
    BY <1>2, <1>4, PersistIs, Zenon
  <1>5. ASSUME NEW g \in Callers, Closes(g) \/ Opens(g) \/ Fails(g)
        PROVE  Goal
    BY <1>5 DEF Closes, Opens, Fails
  <1>6. ASSUME NEW g \in Callers, MarkFailed(g)
        PROVE  Goal
    <2> DEFINE q == gen[g].run
    <2>1. \/ UNCHANGED runs
          \/ /\ q \in DOMAIN runs /\ RowsKept(q)
             /\ runs'[q].state = "failed" /\ runs'[q].once = runs[q].once
      BY <1>6, MarkFailedIs, Zenon DEF Ends
    <2> HIDE DEF q
    <2>2. CASE q = r
      BY <1>1, <2>1, <2>2, Zenon
    <2>3. CASE q # r
      BY <1>1, <1>2, <2>1, <2>3
    <2>4. QED
      BY <2>2, <2>3
  <1>7. ASSUME NEW p \in posts, Rendered(p)
        PROVE  Goal
    BY <1>1, <1>2, <1>7, RenderedIs, Zenon DEF Ends
  <1>8. ASSUME NEW b, StartBackup(b) \/ FinishBackup(b) \/ Tick
        PROVE  Goal
    BY <1>8 DEF StartBackup, FinishBackup, Tick
  <1> HIDE DEF Goal
  <1>9. Goal
    BY <1>1, <1>3, <1>4, <1>5, <1>6, <1>7, <1>8, ChainMoves, Zenon
  <1>10. QED
    BY <1>9 DEF Goal

\* No backup starts in a window that is over.
LEMMA WindowStays ==
  ASSUME TypeOK, TimeInv, DocInv, [Next]_vars, NEW r \in DOMAIN runs, ~ runs[r].adHoc
  PROVE  InWindow(r)' \subseteq InWindow(r)
  <1>1. /\ runs[r].start \in Nat /\ runs[r].end \in Nat /\ runs[r].end <= now /\ now \in Nat
    BY BoundsAssumption, RowIs DEF RunRow, TypeOK, TimeInv
  <1>2. runs'[r].start = runs[r].start /\ runs'[r].end = runs[r].end
    BY RunsGrow DEF WindowKept
  <1>3. SUFFICES ASSUME NEW b \in Backups, backup'[b].started # NULL,
                        runs[r].start <= backup'[b].started, backup'[b].started < runs[r].end
                 PROVE  /\ backup[b].started # NULL
                        /\ backup[b].started = backup'[b].started
    BY <1>2 DEF InWindow
  <1>4. backup'[b].started # now
    BY <1>1, <1>3
  <1>5. QED
    BY <1>3, <1>4, BackupMoves

\* The actions that touch the tasks and their callbacks.
LEMMA JobMoves ==
  ASSUME [Next]_vars
  PROVE  \/ UNCHANGED jobVars
         \/ \E g \in Callers : EnqueueRender(g) \/ GenerateThrows(g)
         \/ \E r \in RunIds : PostRendered(r) \/ TaskKilled(r)
         \/ \E p \in posts : PostLost(p) \/ Rendered(p)
  <1> DEFINE Quiet == UNCHANGED jobVars
  <1>1. ASSUME NEW g, \/ InsertRunningRun(g) \/ PersistDocument(g) \/ MarkFailed(g)
                      \/ GenerateDies(g) \/ FireEventReport(g) \/ StartBackup(g)
                      \/ FinishBackup(g)
        PROVE  Quiet
    BY <1>1 DEF InsertRunningRun, PersistDocument, MarkFailed, GenerateDies,
                FireEventReport, StartBackup, FinishBackup, jobVars
  <1>2. ASSUME \/ SweepList \/ SetNextRunAt \/ SweepDies \/ GenerateNow
               \/ UpdateDefinition \/ DeleteDefinition \/ Tick \/ UNCHANGED vars
        PROVE  Quiet
    BY <1>2 DEF SweepList, SetNextRunAt, SweepDies, GenerateNow, UpdateDefinition,
                DeleteDefinition, Tick, jobVars, vars
  <1>3. ASSUME NEW r, ListFailedDeliveries(r)
        PROVE  Quiet
    BY <1>3 DEF ListFailedDeliveries, jobVars
  <1>4. ASSUME NEW r, NEW a, MailStep(r, a) \/ DeliveryDies(r, a)
        PROVE  Quiet
    BY <1>4 DEF MailStep, InsertDeliveries, SendEmail, ResendEmail, DeliveryDies, jobVars
  <1> HIDE DEF Quiet
  <1>5. \/ Quiet
        \/ \E g \in Callers : EnqueueRender(g) \/ GenerateThrows(g)
        \/ \E r \in RunIds : PostRendered(r) \/ TaskKilled(r)
        \/ \E p \in posts : PostLost(p) \/ Rendered(p)
    BY <1>1, <1>2, <1>3, <1>4, Zenon DEF Next, GenerateStep, SweepStep, JobStep
  <1>6. QED
    BY <1>5 DEF Quiet

\* A task comes from a call that has persisted its document, a callback from
\* a task that runs.
LEMMA JobsNext ==
  ASSUME TypeOK, [Next]_vars
  PROVE  /\ task' \in [RunIds -> {"none", "queued", "posted", "dead"}]
         /\ attempt' \in [RunIds -> Attempts]
         /\ posts' \in SUBSET (RunIds \X Attempts \X {"rendered", "error"})
         /\ \A r \in RunIds : task'[r] # "none" =>
              \/ task[r] # "none"
              \/ \E g \in Callers : gen[g].pc = "persisted" /\ gen[g].run = r
         /\ \A p \in posts' : p \in posts \/ (p[1] \in RunIds /\ task[p[1]] = "queued")
  <1>0. /\ task \in [RunIds -> {"none", "queued", "posted", "dead"}]
        /\ attempt \in [RunIds -> Attempts]
        /\ posts \in SUBSET (RunIds \X Attempts \X {"rendered", "error"})
    BY DEF TypeOK
  <1>1. CASE UNCHANGED jobVars
    BY <1>0, <1>1 DEF jobVars
  <1>2. ASSUME NEW g \in Callers, EnqueueRender(g) \/ GenerateThrows(g)
        PROVE  /\ UNCHANGED <<attempt, posts>>
               /\ \/ UNCHANGED task
                  \/ /\ gen[g].pc = "persisted"
                     /\ task' = [task EXCEPT ![gen[g].run] = "queued"]
    BY <1>2 DEF EnqueueRender, GenerateThrows
  <1>3. CASE \E g \in Callers : EnqueueRender(g) \/ GenerateThrows(g)
    BY <1>0, <1>2, <1>3
  <1>4. ASSUME NEW r \in RunIds, PostRendered(r)
        PROVE  /\ task[r] = "queued" /\ task' = [task EXCEPT ![r] = "posted"]
               /\ UNCHANGED attempt
               /\ \E result \in {"rendered", "error"} :
                    posts' = posts \cup {<<r, attempt[r], result>>}
    BY <1>4 DEF PostRendered
  <1>5. CASE \E r \in RunIds : PostRendered(r)
    <2>1. PICK r \in RunIds : PostRendered(r)
      BY <1>5
    <2>2. PICK result \in {"rendered", "error"} :
            posts' = posts \cup {<<r, attempt[r], result>>}
      BY <1>4, <2>1
    <2>3. <<r, attempt[r], result>> \in RunIds \X Attempts \X {"rendered", "error"}
      BY <1>0
    <2>4. QED
      BY <1>0, <1>4, <2>1, <2>2, <2>3
  <1>6. ASSUME NEW r \in RunIds, TaskKilled(r)
        PROVE  /\ task[r] # "none" /\ UNCHANGED posts
               /\ attempt' \in [RunIds -> Attempts]
               /\ \/ task' = [task EXCEPT ![r] = "queued"]
                  \/ task' = [task EXCEPT ![r] = "dead"]
    <2>1. attempt[r] \in Attempts /\ attempt[r] < MaxAttempts => attempt[r] + 1 \in Attempts
      BY BoundsAssumption DEF Attempts
    <2>2. \/ UNCHANGED attempt
          \/ attempt[r] < MaxAttempts /\ attempt' = [attempt EXCEPT ![r] = attempt[r] + 1]
      BY <1>6 DEF TaskKilled
    <2>3. attempt' \in [RunIds -> Attempts]
      BY <1>0, <2>1, <2>2
    <2>4. QED
      BY <1>6, <2>3 DEF TaskKilled
  <1>7. CASE \E r \in RunIds : TaskKilled(r)
    <2>1. PICK r \in RunIds : TaskKilled(r)
      BY <1>7
    <2>2. QED
      BY <1>0, <1>6, <2>1
  <1>8. CASE \E p \in posts : PostLost(p) \/ Rendered(p)
    <2>1. PICK p \in posts : UNCHANGED <<task, attempt>> /\ posts' = posts \ {p}
      BY <1>8 DEF PostLost, Rendered
    <2>2. QED
      BY <1>0, <2>1
  <1>9. QED
    BY <1>1, <1>3, <1>5, <1>7, <1>8, JobMoves

LEMMA DocStep ==
  ASSUME TypeOK, TimeInv, DocInv, [Next]_vars
  PROVE  DocInv'
  <1>0. /\ \A r \in DOMAIN runs : runs[r].once \in BOOLEAN /\ runs[r].adHoc \in BOOLEAN
        /\ DOMAIN runs \subseteq DOMAIN runs' /\ NULL \notin SUBSET Backups
    BY RowIs, RunsGrow, NullIsApart DEF RunRow
  <1>1. ASSUME NEW r \in DOMAIN runs'
        PROVE  /\ runs'[r].state = "generated" => runs'[r].once
               /\ runs'[r].once => runs'[r].doc # NULL /\ runs'[r].state # "running"
               /\ runs'[r].doc # NULL /\ ~ runs'[r].adHoc =>
                    InWindow(r)' \subseteq runs'[r].doc \cup runs'[r].unfinished
    <2> DEFINE Goal == /\ runs'[r].state = "generated" => runs'[r].once
                       /\ runs'[r].once => runs'[r].doc # NULL /\ runs'[r].state # "running"
                       /\ runs'[r].doc # NULL /\ ~ runs'[r].adHoc =>
                            InWindow(r)' \subseteq runs'[r].doc \cup runs'[r].unfinished
    <2>1. ASSUME NEW g \in Callers, Inserts(g), r = Len(runs) + 1
          PROVE  Goal
      <3>1. /\ runs'[r].state = "running" /\ runs'[r].once = FALSE /\ runs'[r].doc = NULL
        BY <2>1, InsertIs
      <3>2. QED
        BY <3>1, Zenon
    <2>2. ASSUME r \in DOMAIN runs
          PROVE  Goal
      <3>1. /\ runs[r].state = "generated" => runs[r].once
            /\ runs[r].once => runs[r].doc # NULL /\ runs[r].state # "running"
            /\ runs[r].doc # NULL /\ ~ runs[r].adHoc =>
                 InWindow(r) \subseteq runs[r].doc \cup runs[r].unfinished
        BY <2>2 DEF DocInv
      <3>2. /\ runs'[r].adHoc = runs[r].adHoc
            /\ runs[r].doc # NULL => runs'[r].doc # NULL
        BY <2>2, RunsGrow DEF WindowKept
      <3>3. /\ runs'[r].state = "generated" => runs'[r].once
            /\ runs'[r].once => runs'[r].doc # NULL /\ runs'[r].state # "running"
        BY <2>2, <3>1, <3>2, StatesMove, Zenon
      <3>4. ~ runs[r].adHoc => InWindow(r)' \subseteq InWindow(r)
        BY <2>2, WindowStays
      <3>5. CASE runs'[r].doc = runs[r].doc /\ runs'[r].unfinished = runs[r].unfinished
        BY <3>1, <3>2, <3>3, <3>4, <3>5, Zenon
      <3>6. CASE \E g \in Callers : PersistDocument(g) /\ gen[g].run = r
        <4>1. PICK g \in Callers : PersistDocument(g) /\ gen[g].run = r
          BY <3>6
        <4>2. /\ runs'[r].doc = {b \in InWindow(r) : backup[b].done}
              /\ runs'[r].unfinished = InWindow(r) \ runs'[r].doc
          BY <4>1, PersistIs
        <4>3. InWindow(r) \subseteq runs'[r].doc \cup runs'[r].unfinished
          BY <4>2
        <4>4. QED
          BY <3>2, <3>3, <3>4, <4>3, Zenon
      <3>7. QED
        BY <2>2, <3>5, <3>6, DocsMove
    <2> HIDE DEF Goal
    <2>3. Goal
      BY <2>1, <2>2, RunsGrow
    <2>4. QED
      BY <2>3, Zenon DEF Goal
  <1>2. ASSUME NEW g \in Callers
        PROVE  /\ gen'[g].pc = "inserted" => runs'[gen'[g].run].doc = NULL
               /\ gen'[g].pc = "persisted" => runs'[gen'[g].run].doc # NULL
    <2>1. CASE gen'[g] = gen[g]
      <3> DEFINE r == gen[g].run
      <3>1. Holds(g) => r \in DOMAIN runs
        BY DEF Holds, TypeOK
      <3>2. gen[g].pc = "persisted" => runs'[r].doc # NULL
        BY <3>1, RunsGrow DEF DocInv, Holds
      <3>3. ASSUME gen[g].pc = "inserted"
            PROVE  runs'[r].doc = NULL
        <4>1. runs[r].doc = NULL /\ r \in DOMAIN runs
          BY <3>1, <3>3 DEF DocInv, Holds
        <4>2. ASSUME NEW h \in Callers, PersistDocument(h), gen[h].run = r
              PROVE  FALSE
          <5>1. Holds(g) /\ Holds(h)
            BY <3>3, <4>2 DEF Holds, PersistDocument
          <5>2. g = h
            BY <4>2, <5>1 DEF DocInv
          <5>3. gen'[h].pc = "persisted"
            BY <4>2, CallMoves
          <5>4. QED
            BY <2>1, <3>3, <5>2, <5>3
        <4> HIDE DEF r
        <4>3. QED
          BY <4>1, <4>2, DocsMove
      <3>4. QED
        BY <2>1, <3>2, <3>3, Zenon
    <2>2. CASE gen'[g].pc \in {"idle", "due", "failing", "read"}
      BY <2>2
    <2>3. CASE Inserts(g) /\ gen'[g].pc = "inserted" /\ gen'[g].run = Len(runs) + 1
      <3>1. runs'[gen'[g].run].doc = NULL
        BY <2>3, InsertIs
      <3>2. QED
        BY <2>3, <3>1
    <2>4. CASE PersistDocument(g) /\ gen'[g].pc = "persisted" /\ gen'[g].run = gen[g].run
      <3> DEFINE r == gen[g].run
      <3>1. runs'[r].doc = {b \in InWindow(r) : backup[b].done}
        BY <2>4, PersistIs
      <3>2. runs'[r].doc \in SUBSET Backups
        BY <3>1 DEF InWindow
      <3>3. runs'[r].doc # NULL
        BY <3>2, NullIsApart
      <3> HIDE DEF r
      <3>4. gen'[g].run = r
        BY <2>4 DEF r
      <3>5. QED
        BY <2>4, <3>3, <3>4, Zenon
    <2>5. CallGoes(g)
      BY CallsNext
    <2>6. QED
      BY <2>1, <2>2, <2>3, <2>4, <2>5, Zenon DEF CallGoes
  <1>3. ASSUME NEW g \in Callers, NEW h \in Callers, Holds(g)', Holds(h)',
               gen'[g].run = gen'[h].run, gen'[h] = gen[h], g # h
        PROVE  FALSE
    <2>1. Holds(h) /\ gen[h].run \in DOMAIN runs
      BY <1>3 DEF Holds, TypeOK
    <2>2. CASE Holds(g) /\ gen[g].run = gen'[g].run
      BY <1>3, <2>1, <2>2 DEF DocInv
    <2>3. CASE Inserts(g) /\ gen'[g].run = Len(runs) + 1
      <3>1. Len(runs) + 1 \notin DOMAIN runs
        BY <2>3, InsertIs
      <3>2. QED
        BY <1>3, <2>1, <2>3, <3>1
    <2>4. CallGoes(g)
      BY CallsNext
    <2>5. \/ Holds(g) /\ gen[g].run = gen'[g].run
          \/ Inserts(g) /\ gen'[g].run = Len(runs) + 1
      <3>1. gen'[g].pc \in {"inserted", "persisted"}
        BY <1>3 DEF Holds
      <3>2. PersistDocument(g) => Holds(g)
        BY DEF PersistDocument, Holds
      <3>3. gen'[g] = gen[g] => Holds(g)
        BY <3>1 DEF Holds
      <3>4. QED
        BY <2>4, <3>1, <3>2, <3>3 DEF CallGoes
    <2>6. QED
      BY <2>2, <2>3, <2>5
  <1>4. \A g, h \in Callers : (Holds(g) /\ Holds(h) /\ gen[g].run = gen[h].run => g = h)'
    BY <1>3, CallsNext, Zenon
  <1>5. \A r \in RunIds : task'[r] # "none" => HasDocument(r)'
    <2> SUFFICES ASSUME NEW r \in RunIds, task'[r] # "none"
                 PROVE  r \in DOMAIN runs' /\ runs'[r].doc # NULL
      BY DEF HasDocument
    <2>1. HasDocument(r)
      <3>1. CASE task[r] # "none"
        BY <3>1 DEF DocInv
      <3>2. CASE \E g \in Callers : gen[g].pc = "persisted" /\ gen[g].run = r
        BY <3>2 DEF DocInv, TypeOK, HasDocument
      <3>3. QED
        BY <3>1, <3>2, JobsNext
    <2>2. QED
      BY <1>0, <2>1, RunsGrow DEF HasDocument
  <1>6. \A p \in posts' : HasDocument(p[1])'
    <2> SUFFICES ASSUME NEW p \in posts'
                 PROVE  p[1] \in DOMAIN runs' /\ runs'[p[1]].doc # NULL
      BY DEF HasDocument
    <2>1. PICK r : r = p[1]
      OBVIOUS
    <2>2. p \in posts \/ (r \in RunIds /\ task[r] = "queued")
      BY <2>1, JobsNext
    <2>3. HasDocument(r)
      BY <2>1, <2>2 DEF DocInv
    <2>4. r \in DOMAIN runs' /\ runs'[r].doc # NULL
      BY <1>0, <2>3, RunsGrow DEF HasDocument
    <2>5. QED
      BY <2>1, <2>4
  <1>7. QED
    BY <1>1, <1>2, <1>4, <1>5, <1>6, Zenon DEF DocInv

-----------------------------------------------------------------------------
(* The chain of windows.                                                   *)

\* What is accounted for stays so.
LEMMA AccountedStays ==
  ASSUME TypeOK, TimeInv, DocInv, [Next]_vars, NEW t \in Nat, t <= now, Accounted(t)
  PROVE  Accounted(t)'
  <1>0. now \in Nat
    BY BoundsAssumption DEF TypeOK
  <1>1. ASSUME NEW b \in Backups, CoveredOnce(b)
        PROVE  CoveredOnce(b)'
    <2>1. PICK r \in DOMAIN runs : /\ runs[r].once /\ ~ runs[r].adHoc
                                   /\ b \in runs[r].doc \cup runs[r].unfinished
      BY <1>1 DEF CoveredOnce
    <2>2. /\ r \in DOMAIN runs' /\ runs'[r].once = TRUE /\ runs'[r].adHoc = runs[r].adHoc
          /\ runs'[r].doc = runs[r].doc /\ runs'[r].unfinished = runs[r].unfinished
      BY <2>1, RunsGrow, Zenon DEF WindowKept
    <2>3. QED
      BY <2>1, <2>2, Zenon DEF CoveredOnce
  <1>2. ASSUME NEW b \in Backups, backup'[b].started # NULL, backup'[b].started < t
        PROVE  backup[b].started # NULL /\ backup[b].started < t
    <2>1. backup'[b].started # now
      BY <1>0, <1>2
    <2>2. QED
      BY <1>2, <2>1, BackupMoves
  <1>3. QED
    BY <1>1, <1>2 DEF Accounted

\* A run that was generated passes on what its window, and the chain before
\* it, account for.
LEMMA GeneratedAccounts ==
  ASSUME TypeOK, DocInv, CoverInv, NEW r \in DOMAIN runs, runs[r].once, ~ runs[r].adHoc
  PROVE  Accounted(runs[r].end)
  <1> SUFFICES ASSUME NEW b \in Backups, backup[b].started # NULL,
                      backup[b].started < runs[r].end
               PROVE  CoveredOnce(b)
    BY DEF Accounted
  <1>0. runs[r].start \in Nat /\ runs[r].end \in Nat /\ backup[b].started \in Nat
    BY RowIs, BoundsAssumption DEF RunRow, TypeOK
  <1>1. CASE backup[b].started < runs[r].start
    BY <1>1 DEF CoverInv, Accounted
  <1>2. CASE runs[r].start <= backup[b].started
    <2>1. b \in InWindow(r)
      BY <1>2 DEF InWindow
    <2>2. runs[r].doc # NULL
      BY DEF DocInv
    <2>3. b \in runs[r].doc \cup runs[r].unfinished
      BY <2>1, <2>2 DEF DocInv
    <2>4. QED
      BY <2>3, Zenon DEF CoveredOnce
  <1>3. QED
    BY <1>0, <1>1, <1>2

LEMMA CoverStep ==
  ASSUME TypeOK, TimeInv, DocInv, CoverInv, [Next]_vars
  PROVE  CoverInv'
  <1>0. now \in Nat /\ \A r \in DOMAIN runs : /\ runs[r].start \in Nat /\ runs[r].end \in Nat
                                              /\ runs[r].start <= runs[r].end
                                              /\ runs[r].adHoc \in BOOLEAN
    BY RowIs, BoundsAssumption DEF RunRow, TypeOK
  <1>1. \A r \in DOMAIN runs' : ~ runs'[r].adHoc => Accounted(runs[r].start)'
    <2>1. ASSUME NEW r \in DOMAIN runs, ~ runs'[r].adHoc
          PROVE  Accounted(runs[r].start)'
      <3>1. runs'[r].start = runs[r].start /\ ~ runs[r].adHoc
        BY <2>1, RunsGrow, Zenon DEF WindowKept
      <3>2. PICK t \in Nat : t = runs[r].start
        BY <1>0, <2>1
      <3>3. Accounted(t) /\ t <= now
        BY <1>0, <3>1, <3>2 DEF CoverInv, TimeInv
      <3>4. Accounted(t)'
        BY <3>3, AccountedStays
      <3>5. QED
        BY <3>1, <3>2, <3>4
    <2>2. ASSUME NEW g \in Callers, Inserts(g), NEW r, r = Len(runs) + 1, ~ runs'[r].adHoc
          PROVE  Accounted(runs[r].start)'
      <3>1. runs'[r].adHoc = gen[g].adHoc /\ runs'[r].start = gen[g].start
        BY <2>2, InsertIs
      <3>2. gen[g].pc = "read" /\ ~ gen[g].adHoc /\ gen[g].start \in Nat /\ gen[g].end \in Nat
        BY <2>2, <3>1, BoundsAssumption DEF Inserts, TypeOK, CallType
      <3>3. PICK t \in Nat : t = gen[g].start
        BY <3>2
      <3>4. Accounted(t) /\ t <= now
        BY <1>0, <3>2, <3>3 DEF CoverInv, TimeInv
      <3>5. Accounted(t)'
        BY <3>4, AccountedStays
      <3>6. QED
        BY <3>1, <3>3, <3>5
    <2>3. QED
      BY <2>1, <2>2, RunsGrow, Zenon
  <1>2. \A g \in Callers : gen'[g].pc = "read" /\ ~ gen'[g].adHoc => Accounted(gen[g].start)'
    <2> SUFFICES ASSUME NEW g \in Callers, gen'[g].pc = "read", ~ gen'[g].adHoc
                 PROVE  Accounted(gen[g].start)'
      OBVIOUS
    <2>1. CASE gen'[g] = gen[g]
      <3>1. /\ gen[g].pc = "read" /\ ~ gen[g].adHoc
            /\ gen[g].start \in Nat /\ gen[g].end \in Nat
        BY <2>1, BoundsAssumption DEF TypeOK, CallType
      <3>2. PICK t \in Nat : t = gen[g].start
        BY <3>1
      <3>3. Accounted(t) /\ t <= now
        BY <1>0, <3>1, <3>2 DEF CoverInv, TimeInv
      <3>4. Accounted(t)'
        BY <3>3, AccountedStays
      <3>5. QED
        BY <2>1, <3>2, <3>4
    <2>2. CASE gen'[g].start = WindowStart(now)
      <3>1. PICK t \in Nat : t = WindowStart(now)
        BY <1>0, WindowIs
      <3>2. t <= now
        BY <1>0, <3>1, WindowIs
      <3>3. CASE t \in AnchorEnds
        <4>1. PICK r \in ChainRuns : t = runs[r].end
          BY <3>3 DEF AnchorEnds
        <4>2. r \in DOMAIN runs /\ ~ runs[r].adHoc /\ runs[r].once
          BY DEF ChainRuns, DocInv
        <4>3. Accounted(t)
          BY <4>1, <4>2, GeneratedAccounts
        <4>4. QED
          BY <2>2, <3>1, <3>2, <4>3, AccountedStays
      <3>4. CASE \A b \in Backups : backup[b].started # NULL => t <= backup[b].started
        <4>1. Accounted(t)
          BY <3>1, <3>4, BoundsAssumption DEF Accounted, TypeOK
        <4>2. QED
          BY <2>2, <3>1, <3>2, <4>1, AccountedStays
      <3>5. QED
        BY <3>1, <3>3, <3>4, WindowIs
    <2>3. CallGoes(g)
      BY CallsNext
    <2>4. QED
      BY <2>1, <2>2, <2>3 DEF CallGoes
  <1>3. QED
    BY <1>1, <1>2, Zenon DEF CoverInv

-----------------------------------------------------------------------------
(* Mails.                                                                  *)

\* The actions that touch the delivery rows, the mails and the resends.
LEMMA MailMoves ==
  ASSUME [Next]_vars
  PROVE  \/ UNCHANGED mailVars
         \/ \E p \in posts : Rendered(p)
         \/ \E r \in RunIds : ListFailedDeliveries(r)
         \/ \E r \in RunIds : \E a \in Attempts :
              InsertDeliveries(r, a) \/ SendEmail(r, a) \/ ResendEmail(r, a) \/ DeliveryDies(r, a)
  <1> DEFINE Quiet == UNCHANGED mailVars
  <1>1. ASSUME NEW g, \/ InsertRunningRun(g) \/ PersistDocument(g) \/ MarkFailed(g)
                      \/ EnqueueRender(g) \/ GenerateThrows(g)
                      \/ GenerateDies(g) \/ FireEventReport(g) \/ StartBackup(g)
                      \/ FinishBackup(g)
        PROVE  Quiet
    BY <1>1 DEF InsertRunningRun, PersistDocument, MarkFailed, GenerateDies, EnqueueRender,
                GenerateThrows, FireEventReport, StartBackup, FinishBackup, mailVars
  <1>2. ASSUME \/ SweepList \/ SetNextRunAt \/ SweepDies \/ GenerateNow
               \/ UpdateDefinition \/ DeleteDefinition \/ Tick \/ UNCHANGED vars
        PROVE  Quiet
    BY <1>2 DEF SweepList, SetNextRunAt, SweepDies, GenerateNow, UpdateDefinition,
                DeleteDefinition, Tick, mailVars, vars
  <1>3. ASSUME NEW r, PostRendered(r) \/ TaskKilled(r) \/ PostLost(r)
        PROVE  Quiet
    BY <1>3 DEF PostRendered, TaskKilled, PostLost, mailVars
  <1> HIDE DEF Quiet
  <1>4. \/ Quiet
        \/ \E p \in posts : Rendered(p)
        \/ \E r \in RunIds : ListFailedDeliveries(r)
        \/ \E r \in RunIds : \E a \in Attempts :
             InsertDeliveries(r, a) \/ SendEmail(r, a) \/ ResendEmail(r, a) \/ DeliveryDies(r, a)
    BY <1>1, <1>2, <1>3, Zenon DEF Next, GenerateStep, SweepStep, JobStep, MailStep
  <1>5. QED
    BY <1>4 DEF Quiet

\* One delivery row changes, and a mail goes out for each row marked sent.
Delivery == RunIds \X Attempts
States == {"none", "open", "pending", "sent", "failed", "orphan"}
RowMailed(r, a) ==
  \/ UNCHANGED <<delivery, mails>>
  \/ \E x \in States : /\ delivery' = [delivery EXCEPT ![<<r, a>>] = x]
                       /\ \/ x # "sent" /\ UNCHANGED mails
                          \/ mails' = [mails EXCEPT ![r] = mails[r] + 1]

LEMMA MailsNext ==
  ASSUME TypeOK, [Next]_vars
  PROVE  /\ resend' \in SUBSET Delivery
         /\ \/ UNCHANGED <<delivery, mails>>
            \/ \E r \in RunIds : \E a \in Attempts : RowMailed(r, a)
  <1>0. /\ delivery \in [Delivery -> States] /\ mails \in [RunIds -> Nat]
        /\ resend \in SUBSET Delivery
        /\ posts \in SUBSET (RunIds \X Attempts \X {"rendered", "error"})
    BY DEF TypeOK, Delivery, States
  <1>1. ASSUME NEW p \in posts, Rendered(p)
        PROVE  /\ resend' \in SUBSET Delivery
               /\ \E r \in RunIds : \E a \in Attempts : RowMailed(r, a)
    <2>1. p[1] \in RunIds /\ p[2] \in Attempts
      BY <1>0
    <2>2. RowMailed(p[1], p[2]) /\ resend' = resend
      BY <1>1 DEF Rendered, RowMailed, States
    <2>3. QED
      BY <1>0, <2>1, <2>2, Zenon
  <1>2. ASSUME NEW r \in RunIds, ListFailedDeliveries(r)
        PROVE  resend' \in SUBSET Delivery /\ UNCHANGED <<delivery, mails>>
    BY <1>2 DEF ListFailedDeliveries, Resendable, Delivery
  <1>3. ASSUME NEW r \in RunIds, NEW a \in Attempts,
               \/ InsertDeliveries(r, a) \/ SendEmail(r, a)
               \/ ResendEmail(r, a) \/ DeliveryDies(r, a)
        PROVE  resend' \in SUBSET Delivery /\ RowMailed(r, a)
    <2>1. CASE InsertDeliveries(r, a)
      BY <1>0, <2>1 DEF InsertDeliveries, RowMailed, States
    <2>2. CASE SendEmail(r, a)
      BY <1>0, <2>2 DEF SendEmail, Mail, RowMailed, States
    <2>3. CASE ResendEmail(r, a)
      BY <1>0, <2>3 DEF ResendEmail, Mail, RowMailed, States
    <2>4. CASE DeliveryDies(r, a)
      BY <1>0, <2>4 DEF DeliveryDies, RowMailed, States
    <2>5. QED
      BY <1>3, <2>1, <2>2, <2>3, <2>4
  <1>4. ASSUME UNCHANGED mailVars
        PROVE  resend' \in SUBSET Delivery /\ UNCHANGED <<delivery, mails>>
    BY <1>0, <1>4 DEF mailVars
  <1>5. QED
    BY <1>1, <1>2, <1>3, <1>4, MailMoves, Zenon

LEMMA MailedType ==
  ASSUME TypeOK, NEW r \in RunIds, NEW a \in Attempts, RowMailed(r, a)
  PROVE  /\ delivery' \in [Delivery -> States] /\ mails' \in [RunIds -> Nat]
         /\ \A q \in RunIds \ {r} : mails'[q] = mails[q] /\ Sent(q)' = Sent(q)
         /\ mails[r] <= mails'[r]
         /\ \/ Sent(r)' \subseteq Sent(r)
            \/ Sent(r)' \subseteq Sent(r) \cup {a} /\ mails'[r] = mails[r] + 1
  <1>0. delivery \in [Delivery -> States] /\ mails \in [RunIds -> Nat]
    BY DEF TypeOK, Delivery, States
  <1>1. CASE UNCHANGED <<delivery, mails>>
    BY <1>0, <1>1 DEF Sent
  <1>2. ASSUME NEW x \in States, delivery' = [delivery EXCEPT ![<<r, a>>] = x],
               \/ x # "sent" /\ UNCHANGED mails
               \/ mails' = [mails EXCEPT ![r] = mails[r] + 1]
        PROVE  /\ delivery' \in [Delivery -> States] /\ mails' \in [RunIds -> Nat]
               /\ \A q \in RunIds \ {r} : mails'[q] = mails[q] /\ Sent(q)' = Sent(q)
               /\ mails[r] <= mails'[r]
               /\ \/ Sent(r)' \subseteq Sent(r)
                  \/ Sent(r)' \subseteq Sent(r) \cup {a} /\ mails'[r] = mails[r] + 1
    <2>1. <<r, a>> \in Delivery /\ \A q \in RunIds, c \in Attempts : <<q, c>> \in Delivery
      BY DEF Delivery
    <2>2. /\ delivery' \in [Delivery -> States] /\ delivery'[<<r, a>>] = x
          /\ \A d \in Delivery \ {<<r, a>>} : delivery'[d] = delivery[d]
      BY <1>0, <1>2, <2>1
    <2>3. \A q \in RunIds, c \in Attempts :
            (q # r \/ c # a) => delivery'[<<q, c>>] = delivery[<<q, c>>]
      BY <2>1, <2>2
    <2>4. \A q \in RunIds \ {r} : Sent(q)' = Sent(q)
      BY <2>3 DEF Sent
    <2>5. Sent(r)' \subseteq Sent(r) \cup {a} /\ (x # "sent" => Sent(r)' \subseteq Sent(r))
      BY <2>2, <2>3 DEF Sent
    <2>6. /\ mails' \in [RunIds -> Nat] /\ mails[r] <= mails'[r]
          /\ \A q \in RunIds \ {r} : mails'[q] = mails[q]
          /\ mails'[r] = mails[r] + 1 \/ x # "sent"
      BY <1>0, <1>2
    <2>7. QED
      BY <2>2, <2>4, <2>5, <2>6, Zenon
  <1>3. QED
    BY <1>1, <1>2 DEF RowMailed

\* No row says sent without a mail of its own.
LEMMA SentStep ==
  ASSUME TypeOK, SentInv, [Next]_vars
  PROVE  SentInv'
  <1>0. mails \in [RunIds -> Nat] /\ IsFiniteSet(Attempts)
    BY FS_Interval, BoundsAssumption DEF TypeOK, Attempts
  <1>1. CASE UNCHANGED <<delivery, mails>>
    BY <1>1 DEF SentInv, Sent
  <1>2. ASSUME NEW r \in RunIds, NEW a \in Attempts, RowMailed(r, a)
        PROVE  SentInv'
    <2>1. /\ mails' \in [RunIds -> Nat]
          /\ \A q \in RunIds \ {r} : mails'[q] = mails[q] /\ Sent(q)' = Sent(q)
          /\ mails[r] <= mails'[r]
          /\ \/ Sent(r)' \subseteq Sent(r)
             \/ Sent(r)' \subseteq Sent(r) \cup {a} /\ mails'[r] = mails[r] + 1
      BY <1>2, MailedType
    <2>2. Sent(r) \in SUBSET Attempts /\ IsFiniteSet(Sent(r))
          /\ Cardinality(Sent(r)) <= mails[r] /\ Cardinality(Sent(r)) \in Nat
      <3>1. Sent(r) \in SUBSET Attempts
        BY DEF Sent
      <3>2. IsFiniteSet(Sent(r))
        BY <1>0, <3>1, FS_Subset
      <3>3. QED
        BY <3>1, <3>2, FS_CardinalityType DEF SentInv
    <2>3. CASE Sent(r)' \subseteq Sent(r)
      <3>1. Cardinality(Sent(r)') <= Cardinality(Sent(r)) /\ Cardinality(Sent(r)') \in Nat
        BY <2>2, <2>3, FS_Subset, FS_CardinalityType
      <3>2. Cardinality(Sent(r)') <= mails'[r]
        BY <1>0, <2>1, <2>2, <3>1
      <3>3. QED
        BY <2>1, <3>2 DEF SentInv
    <2>4. CASE Sent(r)' \subseteq Sent(r) \cup {a} /\ mails'[r] = mails[r] + 1
      <3> DEFINE T == Sent(r) \cup {a}
      <3> DEFINE n == Cardinality(Sent(r))
      <3>0. IsFiniteSet(T) /\ Cardinality(T) = IF a \in Sent(r) THEN n ELSE n + 1
        BY <2>2, FS_AddElement, Zenon
      <3>1. IsFiniteSet(T) /\ Cardinality(T) <= n + 1
        <4>1. n \in Nat
          BY <2>2
        <4> HIDE DEF n, T
        <4>2. QED
          BY <3>0, <4>1
      <3>2. Cardinality(T) \in Nat
        BY <3>1, FS_CardinalityType
      <3>3. Sent(r)' \in SUBSET T
        BY <2>4
      <3> HIDE DEF T
      <3>4. Cardinality(Sent(r)') <= Cardinality(T) /\ Cardinality(Sent(r)') \in Nat
        BY <3>1, <3>3, FS_Subset, FS_CardinalityType
      <3>5. Cardinality(Sent(r)') <= mails'[r]
        BY <1>0, <2>2, <2>4, <3>1, <3>2, <3>4
      <3>6. QED
        BY <2>1, <3>5 DEF SentInv
    <2>5. QED
      BY <2>1, <2>3, <2>4
  <1>3. QED
    BY <1>1, <1>2, MailsNext

\* The counters stay within their bounds.
LEMMA CountersNext ==
  ASSUME TypeOK, [Next]_vars
  PROVE  manuals' \in 0..MaxManual /\ faults' \in 0..MaxFaults /\ lost' \in SUBSET RunIds
  <1> DEFINE Goal == manuals' \in 0..MaxManual /\ faults' \in 0..MaxFaults
                     /\ lost' \in SUBSET RunIds
  <1>0. /\ manuals \in 0..MaxManual /\ faults \in 0..MaxFaults /\ lost \in SUBSET RunIds
        /\ MaxManual \in Nat /\ MaxFaults \in Nat /\ MaxRuns \in Nat
        /\ \A g \in Callers : gen[g].run \in 0..MaxRuns
        /\ \A p \in posts : p[1] \in RunIds
    BY BoundsAssumption DEF TypeOK, CallType
  <1>1. ASSUME faults' = faults \/ Fault
        PROVE  faults' \in 0..MaxFaults
    BY <1>0, <1>1 DEF Fault
  <1>2. ASSUME manuals' = manuals \/ Manual
        PROVE  manuals' \in 0..MaxManual
    BY <1>0, <1>2 DEF Manual
  <1>3. \A r \in 0..MaxRuns : {r} \ {0} \in SUBSET RunIds
    BY <1>0 DEF RunIds
  <1>4. ASSUME NEW g \in Callers, GenerateDies(g)
        PROVE  Goal
    <2>1. manuals' = manuals /\ Fault /\ lost' = lost \cup ({gen[g].run} \ {0})
      BY <1>4 DEF GenerateDies
    <2>2. QED
      BY <1>0, <1>1, <1>2, <1>3, <2>1
  <1>5. ASSUME NEW r \in RunIds, TaskKilled(r)
        PROVE  Goal
    <2>1. manuals' = manuals /\ Fault /\ (lost' = lost \/ lost' = lost \cup {r})
      BY <1>5 DEF TaskKilled
    <2>2. QED
      BY <1>0, <1>1, <1>2, <2>1
  <1>6. ASSUME NEW p \in posts, PostLost(p)
        PROVE  Goal
    <2>1. manuals' = manuals /\ Fault /\ lost' = lost \cup {p[1]}
      BY <1>6 DEF PostLost
    <2>2. QED
      BY <1>0, <1>1, <1>2, <2>1
  <1>7. ASSUME lost' = lost, manuals' = manuals \/ Manual, faults' = faults \/ Fault
        PROVE  Goal
    BY <1>0, <1>1, <1>2, <1>7
  <1>8. ASSUME NEW g, \/ InsertRunningRun(g) \/ PersistDocument(g) \/ MarkFailed(g)
                      \/ EnqueueRender(g) \/ GenerateThrows(g) \/ FireEventReport(g)
                      \/ StartBackup(g) \/ FinishBackup(g)
        PROVE  lost' = lost /\ manuals' = manuals /\ (faults' = faults \/ Fault)
    BY <1>8, Zenon
       DEF InsertRunningRun, PersistDocument, MarkFailed, EnqueueRender, counters,
           GenerateThrows, FireEventReport, StartBackup, FinishBackup
  <1>9. ASSUME \/ SweepList \/ SetNextRunAt \/ SweepDies \/ GenerateNow
               \/ UpdateDefinition \/ DeleteDefinition \/ Tick \/ UNCHANGED vars
        PROVE  /\ lost' = lost
               /\ manuals' = manuals \/ Manual
               /\ faults' = faults \/ Fault
    BY <1>9, Zenon DEF SweepList, SetNextRunAt, SweepDies, GenerateNow, UpdateDefinition,
                DeleteDefinition, Tick, counters, vars
  <1>10. ASSUME NEW r, PostRendered(r) \/ Rendered(r) \/ ListFailedDeliveries(r)
         PROVE  /\ lost' = lost
                /\ manuals' = manuals \/ Manual
                /\ faults' = faults \/ Fault
    BY <1>10, Zenon DEF PostRendered, Rendered, ListFailedDeliveries, counters
  <1>11. ASSUME NEW r, NEW a, MailStep(r, a) \/ DeliveryDies(r, a)
         PROVE  lost' = lost /\ manuals' = manuals /\ (faults' = faults \/ Fault)
    BY <1>11, Zenon DEF MailStep, InsertDeliveries, SendEmail, ResendEmail, Mail, DeliveryDies,
                 counters
  <1> HIDE DEF Goal
  <1>12. Goal
    BY <1>4, <1>5, <1>6, <1>7, <1>8, <1>9, <1>10, <1>11, Zenon
       DEF Next, GenerateStep, SweepStep, JobStep
  <1>13. QED
    BY <1>12 DEF Goal

-----------------------------------------------------------------------------
(* Types.                                                                  *)

LEMMA RunsNext ==
  ASSUME TypeOK, TimeInv, DocInv, [Next]_vars
  PROVE  runs' \in Seq(RunRow) /\ Len(runs') <= MaxRuns
  <1> DEFINE Goal == runs' \in Seq(RunRow) /\ Len(runs') <= MaxRuns
  <1>0. runs \in Seq(RunRow) /\ Len(runs) <= MaxRuns /\ MaxRuns \in Nat
    BY BoundsAssumption DEF TypeOK
  <1>1. ASSUME runs' = runs
        PROVE  Goal
    BY <1>0, <1>1
  <1>2. ASSUME NEW r, RowsKept(r)
        PROVE  Goal
    BY <1>0, <1>2 DEF RowsKept
  <1>3. ASSUME NEW g \in Callers, Inserts(g)
        PROVE  Goal
    <2>1. runs' \in Seq(RunRow) /\ Len(runs') = Len(runs) + 1 /\ Len(runs) + 1 \in RunIds
      BY <1>3, InsertIs
    <2>2. QED
      BY <1>0, <2>1 DEF RunIds
  <1>4. ASSUME NEW g \in Callers, PersistDocument(g)
        PROVE  RowsKept(gen[g].run)
    BY <1>4, PersistIs
  <1>5. ASSUME NEW g \in Callers, Closes(g) \/ Opens(g) \/ Fails(g)
        PROVE  runs' = runs
    BY <1>5 DEF Closes, Opens, Fails
  <1>6. ASSUME NEW g \in Callers, MarkFailed(g)
        PROVE  runs' = runs \/ RowsKept(gen[g].run)
    BY <1>6, MarkFailedIs DEF Ends
  <1>7. ASSUME NEW p \in posts, Rendered(p)
        PROVE  runs' = runs \/ RowsKept(p[1])
    BY <1>7, RenderedIs DEF Ends
  <1>8. ASSUME NEW b, StartBackup(b) \/ FinishBackup(b) \/ Tick
        PROVE  runs' = runs
    BY <1>8 DEF StartBackup, FinishBackup, Tick
  <1> HIDE DEF Goal
  <1>9. Goal
    BY <1>1, <1>2, <1>3, <1>4, <1>5, <1>6, <1>7, <1>8, ChainMoves, Zenon
  <1>10. QED
    BY <1>9 DEF Goal

\* The definition and what the sweep copied of it.
SweepType == [cadence: Cadences, now: 0..MaxTime]

LEMMA DefinitionIs ==
  ASSUME NEW c \in Cadences, NEW on \in BOOLEAN, NEW next \in {NULL} \cup Nat
  PROVE  [cadence |-> c, enabled |-> on, nextRunAt |-> next] \in DefinitionRow
  BY DEF DefinitionRow

LEMMA DefinitionNext ==
  ASSUME TypeOK, [Next]_vars
  PROVE  def' \in {NULL} \cup DefinitionRow /\ sweep' \in {NULL} \cup SweepType
  <1> DEFINE Goal == def' \in {NULL} \cup DefinitionRow /\ sweep' \in {NULL} \cup SweepType
  <1>0. /\ def \in {NULL} \cup DefinitionRow /\ sweep \in {NULL} \cup SweepType
        /\ now \in 0..MaxTime /\ now \in Nat /\ MaxTime \in Nat
    BY BoundsAssumption DEF TypeOK, SweepType
  <1>1. ASSUME def' = def, sweep' \in {sweep, NULL}
        PROVE  Goal
    BY <1>0, <1>1
  <1>2. ASSUME SweepList
        PROVE  Goal
    BY <1>0, <1>2 DEF SweepList, Due, DefinitionRow, SweepType
  <1>3. ASSUME SetNextRunAt
        PROVE  Goal
    <2>1. sweep \in SweepType /\ sweep' = NULL
      BY <1>0, <1>3 DEF SetNextRunAt
    <2>2. sweep.cadence \in Cadences /\ sweep.now \in Nat
      BY <1>0, <2>1 DEF SweepType
    <2>3. NextAfterSweep \in {NULL} \cup Nat
      BY <2>2, NextIsHour DEF NextAfterSweep
    <2>4. CASE def # NULL
      <3>1. def' = [def EXCEPT !.nextRunAt = NextAfterSweep]
        BY <1>3, <2>4 DEF SetNextRunAt
      <3>2. QED
        BY <1>0, <2>1, <2>3, <2>4, <3>1 DEF DefinitionRow
    <2>5. CASE def = NULL
      BY <1>3, <2>1, <2>5 DEF SetNextRunAt
    <2>6. QED
      BY <2>4, <2>5
  <1>4. ASSUME UpdateDefinition
        PROVE  Goal
    <2>1. PICK c \in Cadences, on \in BOOLEAN :
            def' = [cadence |-> c, enabled |-> on, nextRunAt |-> NextAfterEdit(c, on)]
      BY <1>4 DEF UpdateDefinition
    <2>2. def.cadence \in Cadences
      BY <1>0, <1>4 DEF UpdateDefinition, DefinitionRow
    <2>3. NextAfterEdit(c, on) \in {NULL} \cup Nat
      BY <1>0, <2>2, NextIsHour DEF NextAfterEdit
    <2>4. def' \in DefinitionRow
      BY <2>1, <2>3, DefinitionIs
    <2>5. QED
      BY <1>0, <1>4, <2>4 DEF UpdateDefinition
  <1>5. ASSUME DeleteDefinition
        PROVE  Goal
    BY <1>0, <1>5 DEF DeleteDefinition
  <1>6. ASSUME NEW g, \/ InsertRunningRun(g) \/ PersistDocument(g) \/ MarkFailed(g)
                      \/ EnqueueRender(g) \/ GenerateThrows(g) \/ FireEventReport(g)
                      \/ GenerateDies(g) \/ StartBackup(g) \/ FinishBackup(g)
        PROVE  def' = def /\ sweep' \in {sweep, NULL}
    BY <1>6 DEF InsertRunningRun, PersistDocument, MarkFailed, EnqueueRender,
                GenerateThrows, GenerateDies, FireEventReport, StartBackup, FinishBackup
  <1>7. ASSUME SweepDies \/ GenerateNow \/ Tick \/ UNCHANGED vars
        PROVE  def' = def /\ sweep' \in {sweep, NULL}
    BY <1>7 DEF SweepDies, GenerateNow, Tick, vars
  <1>8. ASSUME NEW r, \/ PostRendered(r) \/ Rendered(r) \/ ListFailedDeliveries(r)
                      \/ TaskKilled(r) \/ PostLost(r)
        PROVE  def' = def /\ sweep' \in {sweep, NULL}
    BY <1>8 DEF PostRendered, Rendered, ListFailedDeliveries, TaskKilled, PostLost
  <1>9. ASSUME NEW r, NEW a, MailStep(r, a) \/ DeliveryDies(r, a)
        PROVE  def' = def /\ sweep' \in {sweep, NULL}
    BY <1>9 DEF MailStep, InsertDeliveries, SendEmail, ResendEmail, DeliveryDies
  <1> HIDE DEF Goal
  <1>10. Goal
    BY <1>1, <1>2, <1>3, <1>4, <1>5, <1>6, <1>7, <1>8, <1>9, Zenon
       DEF Next, GenerateStep, SweepStep, JobStep
  <1>11. QED
    BY <1>10 DEF Goal

LEMMA TypeStep ==
  ASSUME TypeOK, TimeInv, DocInv, [Next]_vars
  PROVE  TypeOK'
  <1>1. \A r \in DOMAIN runs' : /\ runs'[r].start <= runs'[r].end
                                /\ runs'[r].state = "generated" => runs'[r].doc # NULL
    <2>1. ASSUME NEW r \in DOMAIN runs'
          PROVE  runs'[r].start <= runs'[r].end
      <3>1. CASE r \in DOMAIN runs
        <4>1. runs'[r].start = runs[r].start /\ runs'[r].end = runs[r].end
          BY <3>1, RunsGrow DEF WindowKept
        <4>2. QED
          BY <3>1, <4>1 DEF TypeOK
      <3>2. CASE \E g \in Callers : Inserts(g) /\ r = Len(runs) + 1
        <4>1. PICK g \in Callers : Inserts(g) /\ r = Len(runs) + 1
          BY <3>2
        <4>2. runs'[r].start = gen[g].start /\ runs'[r].end = gen[g].end
          BY <4>1, InsertIs
        <4>3. QED
          BY <4>1, <4>2 DEF TimeInv, Inserts
      <3>3. QED
        BY <3>1, <3>2, RunsGrow
    <2>2. ASSUME NEW r \in DOMAIN runs', runs'[r].state = "generated"
          PROVE  runs'[r].doc # NULL
      <3>1. DocInv'
        BY DocStep
      <3>2. QED
        BY <2>2, <3>1, Zenon DEF DocInv
    <2>3. QED
      BY <2>1, <2>2
  <1>2. ASSUME NEW g \in Callers, gen'[g].pc \in {"inserted", "persisted", "failing"}
        PROVE  gen'[g].run \in DOMAIN runs'
    <2>0. DOMAIN runs \subseteq DOMAIN runs'
      BY RunsGrow
    <2>1. CASE Inserts(g) /\ gen'[g].run = Len(runs) + 1
      BY <2>1, InsertIs
    <2>2. CASE /\ gen[g].pc \in {"inserted", "persisted", "failing"}
               /\ gen'[g].run = gen[g].run
      BY <2>0, <2>2 DEF TypeOK
    <2>3. CallGoes(g)
      BY CallsNext
    <2>4. QED
      BY <1>2, <2>1, <2>2, <2>3 DEF CallGoes, Holds, PersistDocument
  <1>3. delivery' \in [Delivery -> States] /\ mails' \in [RunIds -> Nat]
    <2>1. CASE UNCHANGED <<delivery, mails>>
      BY <2>1 DEF TypeOK, Delivery, States
    <2>2. QED
      BY <2>1, MailsNext, MailedType
  <1>4. QED
    BY <1>1, <1>2, <1>3, BackupMoves, RunsNext, DefinitionNext, CallsNext, JobsNext,
       MailsNext, CountersNext, Zenon DEF TypeOK, SweepType, Delivery, States

-----------------------------------------------------------------------------
(* While nothing fails.                                                    *)

LEMMA CalmMoves ==
  ASSUME TypeOK, TimeInv, [Next]_vars, faults' = 0
  PROVE  /\ faults = 0
         /\ \/ /\ UNCHANGED <<jobVars, mailVars>>
               /\ \A g \in Callers : gen'[g].pc = "failing" => gen[g].pc = "failing"
            \/ \E g \in Callers : EnqueueRender(g)
            \/ \E r \in RunIds : PostRendered(r) \/ ListFailedDeliveries(r)
            \/ \E p \in posts : Rendered(p)
            \/ \E r \in RunIds : \E a \in Attempts :
                 InsertDeliveries(r, a) \/ SendEmail(r, a) \/ ResendEmail(r, a)
  <1> DEFINE Quiet == /\ UNCHANGED <<jobVars, mailVars>> /\ faults' = faults
                      /\ \A g \in Callers : gen'[g].pc = "failing" => gen[g].pc = "failing"
             Known == \/ \E g \in Callers : EnqueueRender(g)
                      \/ \E r \in RunIds : PostRendered(r) \/ ListFailedDeliveries(r)
                      \/ \E p \in posts : Rendered(p)
                      \/ \E r \in RunIds : \E a \in Attempts :
                           InsertDeliveries(r, a) \/ SendEmail(r, a) \/ ResendEmail(r, a)
  <1>0. faults \in Nat /\ gen \in [Callers -> CallType]
    BY BoundsAssumption DEF TypeOK
  <1>1. ASSUME Fault
        PROVE  FALSE
    BY <1>0, <1>1 DEF Fault
  <1>2. ASSUME NEW g \in Callers, Closes(g) \/ Inserts(g) \/ Opens(g) \/ PersistDocument(g)
                                  \/ MarkFailed(g)
        PROVE  \A h \in Callers : gen'[h].pc = "failing" => gen[h].pc = "failing"
    <2>1. /\ \A h \in Callers \ {g} : gen'[h] = gen[h]
          /\ gen'[g].pc # "failing"
      BY <1>2, CallMoves DEF Idle, Reading
    <2>2. QED
      BY <2>1
  <1>3. ASSUME NEW g \in Callers, InsertRunningRun(g)
        PROVE  Quiet
    <2>1. Closes(g) \/ Inserts(g)
      BY <1>3 DEF InsertRunningRun, Closes, Inserts
    <2>2. UNCHANGED <<jobVars, mailVars>> /\ faults' = faults
      BY <1>3 DEF InsertRunningRun, counters
    <2>3. QED
      BY <1>2, <2>1, <2>2
  <1>4. ASSUME NEW g \in Callers, PersistDocument(g) \/ MarkFailed(g)
        PROVE  Quiet
    <2>1. UNCHANGED <<jobVars, mailVars>> /\ faults' = faults
      BY <1>4 DEF PersistDocument, MarkFailed, counters
    <2>2. QED
      BY <1>2, <1>4, <2>1
  <1>5. ASSUME SweepList \/ GenerateNow \/ \E b \in Backups : FireEventReport(b)
        PROVE  Quiet
    <2>1. \E g \in Callers : Opens(g) \/ Closes(g)
      BY <1>5 DEF SweepList, GenerateNow, FireEventReport, Opens, Closes, Callers
    <2>2. UNCHANGED <<jobVars, mailVars>> /\ faults' = faults
      BY <1>5 DEF SweepList, GenerateNow, FireEventReport, counters
    <2>3. QED
      BY <1>2, <2>1, <2>2
  <1>6. ASSUME \/ SetNextRunAt \/ UpdateDefinition \/ DeleteDefinition \/ Tick
               \/ UNCHANGED vars \/ \E b \in Backups : StartBackup(b)
        PROVE  Quiet
    <2>1. UNCHANGED <<gen, jobVars, mailVars>> /\ faults' = faults
      BY <1>6 DEF SetNextRunAt, UpdateDefinition, DeleteDefinition, Tick, vars, StartBackup,
                  counters
    <2>2. QED
      BY <2>1
  <1>7. ASSUME NEW b \in Backups, FinishBackup(b)
        PROVE  Quiet
    <2>1. /\ UNCHANGED <<jobVars, mailVars>> /\ faults' = faults
          /\ gen' = [gen EXCEPT ![b].pc = "due"]
      BY <1>7 DEF FinishBackup, counters
    <2>2. \A g \in Callers : gen'[g].pc = "failing" => gen[g].pc = "failing"
      BY <1>0, <2>1 DEF CallType
    <2>3. QED
      BY <2>1, <2>2
  <1>8. ASSUME NEW g, GenerateThrows(g) \/ GenerateDies(g) \/ SweepDies
                      \/ TaskKilled(g) \/ PostLost(g) \/ \E a \in Attempts : DeliveryDies(g, a)
        PROVE  FALSE
    BY <1>1, <1>8 DEF GenerateThrows, GenerateDies, SweepDies, TaskKilled, PostLost,
                      DeliveryDies
  <1>9. ASSUME Known
        PROVE  faults' = faults
    <2>1. ASSUME NEW r, NEW a,
                 \/ EnqueueRender(r) \/ PostRendered(r) \/ ListFailedDeliveries(r)
                 \/ Rendered(r) \/ InsertDeliveries(r, a) \/ SendEmail(r, a)
                 \/ ResendEmail(r, a)
          PROVE  faults' = faults
      BY <1>1, <2>1, Zenon DEF EnqueueRender, PostRendered, ListFailedDeliveries, Rendered,
                        InsertDeliveries, SendEmail, ResendEmail, Mail, counters
    <2>2. QED
      BY <1>9, <2>1, Zenon
  <1> HIDE DEF Quiet, Known
  <1>10. Quiet \/ Known
    <2>1. Known <=> \/ \E g \in Callers : EnqueueRender(g)
                    \/ \E r \in RunIds : PostRendered(r) \/ ListFailedDeliveries(r)
                    \/ \E p \in posts : Rendered(p)
                    \/ \E r \in RunIds : \E a \in Attempts :
                         InsertDeliveries(r, a) \/ SendEmail(r, a) \/ ResendEmail(r, a)
      BY DEF Known
    <2>2. QED
      BY <1>3, <1>4, <1>5, <1>6, <1>7, <1>8, <2>1, Zenon
         DEF Next, GenerateStep, SweepStep, JobStep, MailStep
  <1>11. faults' = faults
    BY <1>9, <1>10 DEF Quiet
  <1>12. QED
    BY <1>10, <1>11, Zenon DEF Quiet, Known

LEMMA CallsCalmStep ==
  ASSUME TypeOK, TimeInv, DocInv, CallsCalm, [Next]_vars, faults' = 0
  PROVE  CallsCalm'
  <1>0. /\ gen \in [Callers -> CallType]
        /\ task \in [RunIds -> {"none", "queued", "posted", "dead"}]
        /\ \A g \in Callers : Holds(g) => gen[g].run \in DOMAIN runs /\ gen[g].run \in RunIds
    <2>1. DOMAIN runs \subseteq RunIds
      BY BoundsAssumption DEF TypeOK, RunIds
    <2>2. QED
      BY <2>1 DEF TypeOK, Holds
  <1>1. ASSUME UNCHANGED <<gen, task>>
        PROVE  CallsCalm'
    BY <1>1 DEF CallsCalm, Holds
  <1>2. ASSUME UNCHANGED task, \A g \in Callers : gen'[g].pc = "failing" => gen[g].pc = "failing"
        PROVE  CallsCalm'
    <2> SUFFICES ASSUME NEW g \in Callers
                 PROVE  gen'[g].pc # "failing"
                        /\ (gen'[g].pc \in {"inserted", "persisted"} =>
                              task[gen'[g].run] = "none")
      BY <1>2 DEF CallsCalm, Holds
    <2>1. gen'[g].pc # "failing"
      BY <1>2 DEF CallsCalm
    <2>2. CASE gen'[g] = gen[g] \/ (PersistDocument(g) /\ gen'[g].run = gen[g].run)
      BY <2>1, <2>2 DEF CallsCalm, Holds, PersistDocument
    <2>3. CASE Inserts(g) /\ gen'[g].run = Len(runs) + 1
      <3>1. PICK n \in RunIds : n = Len(runs) + 1 /\ n \notin DOMAIN runs
        BY <2>3, InsertIs
      <3>2. task[n] = "none"
        BY <3>1 DEF DocInv, HasDocument
      <3>3. QED
        BY <2>1, <2>3, <3>1, <3>2
    <2>4. CallGoes(g)
      BY CallsNext
    <2>5. QED
      BY <2>1, <2>2, <2>3, <2>4 DEF CallGoes
  <1>3. ASSUME NEW h \in Callers, EnqueueRender(h)
        PROVE  CallsCalm'
    <2>1. /\ gen[h].pc = "persisted" /\ gen' = [gen EXCEPT ![h] = Idle]
          /\ task' = [task EXCEPT ![gen[h].run] = "queued"]
      BY <1>3 DEF EnqueueRender
    <2>2. /\ gen'[h].pc = "idle" /\ \A g \in Callers \ {h} : gen'[g] = gen[g]
      BY <1>0, <2>1 DEF Idle
    <2>3. \A g \in Callers \ {h} : Holds(g) => gen[g].run # gen[h].run
      BY <2>1 DEF DocInv, Holds
    <2>4. \A g \in Callers \ {h} : Holds(g) => task'[gen[g].run] = task[gen[g].run]
      BY <1>0, <2>1, <2>3
    <2>5. QED
      BY <2>2, <2>4 DEF CallsCalm, Holds
  <1>4. ASSUME NEW r \in RunIds, PostRendered(r)
        PROVE  CallsCalm'
    <2>1. gen' = gen /\ task[r] = "queued" /\ task' = [task EXCEPT ![r] = "posted"]
      BY <1>4 DEF PostRendered
    <2>2. \A g \in Callers : Holds(g) => task'[gen[g].run] = task[gen[g].run]
      BY <1>0, <2>1 DEF CallsCalm
    <2>3. QED
      BY <2>1, <2>2 DEF CallsCalm, Holds
  <1>5. ASSUME NEW r, NEW a, \/ ListFailedDeliveries(r) \/ Rendered(r)
                             \/ InsertDeliveries(r, a) \/ SendEmail(r, a) \/ ResendEmail(r, a)
        PROVE  UNCHANGED <<gen, task>>
    BY <1>5 DEF ListFailedDeliveries, Rendered, InsertDeliveries, SendEmail, ResendEmail, jobVars
  <1>6. UNCHANGED jobVars => UNCHANGED task
    BY DEF jobVars
  <1>7. QED
    BY <1>1, <1>2, <1>3, <1>4, <1>5, <1>6, CalmMoves, Zenon

\* A delivery row of the only attempt moves.
LEMMA RowMoves ==
  ASSUME TypeOK, NEW r \in RunIds, NEW a \in Attempts, NEW x \in States,
         delivery' = [delivery EXCEPT ![<<r, a>>] = x]
  PROVE  /\ delivery'[<<r, a>>] = x
         /\ \A d \in RunIds \X Attempts : d # <<r, a>> => delivery'[d] = delivery[d]
         /\ \A q \in RunIds : q # r => delivery'[<<q, 1>>] = delivery[<<q, 1>>]
  <1>1. delivery \in [RunIds \X Attempts -> States] /\ 1 \in Attempts
    BY BoundsAssumption DEF TypeOK, States, Attempts
  <1>2. \A q \in RunIds : <<q, 1>> \in RunIds \X Attempts /\ (q # r => <<q, 1>> # <<r, a>>)
    BY <1>1
  <1>3. <<r, a>> \in RunIds \X Attempts
    OBVIOUS
  <1>4. \A d \in RunIds \X Attempts : d # <<r, a>> => delivery'[d] = delivery[d]
    BY <1>1
  <1>5. QED
    BY <1>1, <1>2, <1>3, <1>4

LEMMA CalmTypes ==
  ASSUME TypeOK
  PROVE  /\ delivery \in [RunIds \X Attempts -> States] /\ mails \in [RunIds -> Nat]
         /\ task \in [RunIds -> {"none", "queued", "posted", "dead"}]
         /\ attempt \in [RunIds -> Attempts] /\ 1 \in Attempts
         /\ \A p \in posts : p[1] \in RunIds /\ p[2] \in Attempts
         /\ \A r \in RunIds : <<r, 1>> \in RunIds \X Attempts
  BY BoundsAssumption DEF TypeOK, States, Attempts

LEMMA JobsCalmStep ==
  ASSUME TypeOK, TimeInv, DocInv, CallsCalm, JobsCalm, MailsCalm, [Next]_vars, faults' = 0
  PROVE  JobsCalm'
  <1>1. ASSUME UNCHANGED <<task, attempt, posts, delivery>>
        PROVE  JobsCalm'
    BY <1>1 DEF JobsCalm
  <1>2. ASSUME NEW g \in Callers, EnqueueRender(g)
        PROVE  JobsCalm'
    <2> DEFINE q == gen[g].run
    <2>1. /\ UNCHANGED <<attempt, posts, delivery>> /\ task' = [task EXCEPT ![q] = "queued"]
          /\ gen[g].pc = "persisted"
      BY <1>2 DEF EnqueueRender, mailVars
    <2>2. task[q] = "none"
      BY <2>1 DEF CallsCalm, Holds
    <2> HIDE DEF q
    <2>3. /\ \A r \in RunIds : /\ task'[r] \in {"none", "queued"} => task[r] \in {"none", "queued"}
                               /\ task[r] = "posted" => task'[r] = "posted"
      BY <2>1, <2>2, CalmTypes
    <2>4. QED
      BY <2>1, <2>3, CalmTypes DEF JobsCalm
  <1>3. ASSUME NEW q \in RunIds, PostRendered(q)
        PROVE  JobsCalm'
    <2>1. /\ UNCHANGED <<attempt, delivery>> /\ task[q] = "queued"
          /\ task' = [task EXCEPT ![q] = "posted"]
      BY <1>3 DEF PostRendered, mailVars
    <2>2. PICK result \in {"rendered", "error"} : posts' = posts \cup {<<q, attempt[q], result>>}
      BY <1>3 DEF PostRendered
    <2>3. attempt[q] = 1 /\ delivery[<<q, 1>>] = "none"
      BY <2>1 DEF JobsCalm
    <2> DEFINE new == <<q, attempt[q], result>>
    <2>4. new[1] = q /\ new[2] = 1
      BY <2>3
    <2>5. posts' = posts \cup {new}
      BY <2>2
    <2> HIDE DEF new
    <2>6. \A p \in posts : p[1] # q
      BY <2>1 DEF JobsCalm
    <2>7. task'[q] = "posted" /\ \A r \in RunIds : r # q => task'[r] = task[r]
      BY <2>1, CalmTypes
    <2>8. \A p \in posts' : /\ p[2] = 1 /\ task'[p[1]] = "posted"
                            /\ delivery[<<p[1], 1>>] = "none"
                            /\ \A o \in posts' : o[1] = p[1] => o = p
      <3>1. \A p \in posts : /\ p[2] = 1 /\ task'[p[1]] = "posted"
                             /\ delivery[<<p[1], 1>>] = "none"
                             /\ \A o \in posts : o[1] = p[1] => o = p
        BY <2>6, <2>7, CalmTypes, Zenon DEF JobsCalm
      <3>2. new[2] = 1 /\ task'[new[1]] = "posted" /\ delivery[<<new[1], 1>>] = "none"
        BY <2>3, <2>4, <2>7, Zenon
      <3>3. \A p \in posts : p[1] # new[1]
        BY <2>4, <2>6, Zenon
      <3>4. QED
        BY <2>5, <3>1, <3>2, <3>3
    <2>9. \A r \in RunIds : /\ attempt[r] = 1
                            /\ task'[r] \in {"none", "queued"} => delivery[<<r, 1>>] = "none"
      BY <2>7 DEF JobsCalm
    <2>10. QED
      BY <2>1, <2>8, <2>9 DEF JobsCalm
  <1>4. ASSUME NEW p \in posts, Rendered(p)
        PROVE  JobsCalm'
    <2>1. UNCHANGED <<task, attempt>> /\ posts' = posts \ {p}
      BY <1>4 DEF Rendered
    <2>2. PICK r \in RunIds : r = p[1] /\ p[2] = 1 /\ task[r] = "posted"
      BY CalmTypes DEF JobsCalm
    <2>3. UNCHANGED delivery \/ delivery' = [delivery EXCEPT ![<<r, 1>>] = "open"]
      BY <1>4, <2>2 DEF Rendered
    <2>4. \A q \in RunIds : q # r => delivery'[<<q, 1>>] = delivery[<<q, 1>>]
      BY <2>3, RowMoves, CalmTypes DEF States
    <2>5. \A o \in posts' : o \in posts /\ o[1] # r
      BY <2>1, <2>2 DEF JobsCalm
    <2>6. QED
      BY <2>1, <2>2, <2>4, <2>5, CalmTypes DEF JobsCalm
  <1>5. ASSUME NEW r \in RunIds, NEW a \in Attempts,
               InsertDeliveries(r, a) \/ SendEmail(r, a) \/ ResendEmail(r, a)
        PROVE  JobsCalm'
    <2>1. UNCHANGED <<task, attempt, posts>> /\ delivery[<<r, a>>] # "none"
      <3>1. UNCHANGED <<task, attempt, posts>>
        BY <1>5 DEF InsertDeliveries, SendEmail, ResendEmail, jobVars
      <3>2. CASE InsertDeliveries(r, a)
        BY <3>1, <3>2 DEF InsertDeliveries
      <3>3. CASE SendEmail(r, a)
        BY <3>1, <3>3 DEF SendEmail
      <3>4. CASE ResendEmail(r, a)
        BY <3>1, <3>4 DEF ResendEmail, MailsCalm
      <3>5. QED
        BY <1>5, <3>2, <3>3, <3>4
    <2>2. a = 1
      <3> DEFINE d == <<r, a>>
      <3>1. d \in RunIds \X Attempts /\ d[2] = a /\ delivery[d] # "none"
        BY <2>1
      <3> HIDE DEF d
      <3>2. QED
        BY <3>1 DEF MailsCalm
    <2>3. \E x \in States : delivery' = [delivery EXCEPT ![<<r, a>>] = x]
      BY <1>5 DEF InsertDeliveries, SendEmail, ResendEmail, Mail, States
    <2>4. \A q \in RunIds : q # r => delivery'[<<q, 1>>] = delivery[<<q, 1>>]
      BY <2>3, RowMoves
    <2>5. task[r] \notin {"none", "queued"} /\ \A p \in posts : p[1] # r
      BY <2>1, <2>2 DEF JobsCalm
    <2>6. QED
      BY <2>1, <2>4, <2>5, CalmTypes DEF JobsCalm
  <1>6. ASSUME NEW r, ListFailedDeliveries(r)
        PROVE  UNCHANGED <<task, attempt, posts, delivery>>
    BY <1>6 DEF ListFailedDeliveries, jobVars
  <1>7. UNCHANGED <<jobVars, mailVars>> => UNCHANGED <<task, attempt, posts, delivery>>
    BY DEF jobVars, mailVars
  <1>8. QED
    BY <1>1, <1>2, <1>3, <1>4, <1>5, <1>6, <1>7, CalmMoves, Zenon

LEMMA MailsCalmStep ==
  ASSUME TypeOK, TimeInv, JobsCalm, MailsCalm, [Next]_vars, faults' = 0
  PROVE  MailsCalm'
  <1>0. faults \in Nat
    BY BoundsAssumption DEF TypeOK
  <1>1. ASSUME UNCHANGED <<delivery, mails, resend>>
        PROVE  MailsCalm'
    BY <1>1 DEF MailsCalm
  <1>2. ASSUME NEW r \in RunIds, NEW x \in States,
               delivery' = [delivery EXCEPT ![<<r, 1>>] = x],
               delivery[<<r, 1>>] # "sent",
               \/ x # "sent" /\ UNCHANGED mails
               \/ x = "sent" /\ mails' = [mails EXCEPT ![r] = @ + 1],
               \A d \in resend' : d \in resend /\ d # <<r, 1>>
        PROVE  MailsCalm'
    <2>0. 1 \in Attempts /\ <<r, 1>> \in RunIds \X Attempts
      BY CalmTypes
    <2>1. /\ delivery'[<<r, 1>>] = x
          /\ \A d \in RunIds \X Attempts : d # <<r, 1>> => delivery'[d] = delivery[d]
          /\ \A q \in RunIds : q # r => delivery'[<<q, 1>>] = delivery[<<q, 1>>]
      BY <1>2, <2>0, RowMoves
    <2>2. mails[r] = 0
      BY <1>2 DEF MailsCalm
    <2>3. mails'[r] = IF x = "sent" THEN 1 ELSE 0
      <3>1. mails \in [RunIds -> Nat]
        BY CalmTypes
      <3>2. CASE x # "sent"
        BY <1>2, <2>2, <3>2
      <3>3. CASE x = "sent"
        BY <1>2, <2>2, <3>1, <3>3
      <3>4. QED
        BY <3>2, <3>3
    <2>4. \A q \in RunIds \ {r} : mails'[q] = mails[q]
      BY <1>2, CalmTypes
    <2>5. \A q \in RunIds : mails'[q] = IF delivery'[<<q, 1>>] = "sent" THEN 1 ELSE 0
      <3>1. \A q \in RunIds : mails[q] = IF delivery[<<q, 1>>] = "sent" THEN 1 ELSE 0
        BY DEF MailsCalm
      <3>2. QED
        BY <2>1, <2>3, <2>4, <3>1
    <2>6. \A d \in RunIds \X Attempts : d[2] # 1 => delivery'[d] = "none"
      <3>1. \A d \in RunIds \X Attempts : d[2] # 1 => d # <<r, 1>>
        OBVIOUS
      <3>2. QED
        BY <2>1, <3>1 DEF MailsCalm
    <2>7. \A d \in resend' : delivery'[d] = "failed"
      <3>1. resend \in SUBSET (RunIds \X Attempts)
        BY DEF TypeOK
      <3>2. QED
        BY <1>2, <2>1, <3>1 DEF MailsCalm
    <2>8. QED
      BY <2>5, <2>6, <2>7 DEF MailsCalm
  <1>3. ASSUME NEW p \in posts, Rendered(p)
        PROVE  MailsCalm'
    <2>1. PICK r \in RunIds : r = p[1] /\ p[2] = 1 /\ delivery[<<r, 1>>] = "none"
      BY CalmTypes DEF JobsCalm
    <2>2. /\ UNCHANGED <<mails, resend>>
          /\ UNCHANGED delivery \/ delivery' = [delivery EXCEPT ![<<r, 1>>] = "open"]
      BY <1>3, <2>1 DEF Rendered
    <2>3. \A d \in resend : d # <<r, 1>>
      BY <2>1 DEF MailsCalm
    <2>4. CASE UNCHANGED delivery
      BY <1>1, <2>2, <2>4
    <2>5. CASE delivery' = [delivery EXCEPT ![<<r, 1>>] = "open"]
      BY <1>2, <2>1, <2>2, <2>3, <2>5 DEF States
    <2>6. QED
      BY <2>2, <2>4, <2>5
  <1>4. ASSUME NEW r \in RunIds, NEW a \in Attempts, delivery[<<r, a>>] # "none"
        PROVE  a = 1
    <2> DEFINE d == <<r, a>>
    <2>1. d \in RunIds \X Attempts /\ d[2] = a /\ delivery[d] # "none"
      BY <1>4
    <2> HIDE DEF d
    <2>2. QED
      BY <2>1 DEF MailsCalm
  <1>5. ASSUME NEW r \in RunIds, NEW a \in Attempts, Mail(r, a)
        PROVE  \E x \in States :
                 /\ delivery' = [delivery EXCEPT ![<<r, a>>] = x]
                 /\ \/ x # "sent" /\ UNCHANGED mails
                    \/ x = "sent" /\ mails' = [mails EXCEPT ![r] = @ + 1]
    <2>1. ~ Fault
      BY <1>0 DEF Fault
    <2>2. QED
      BY <1>5, <2>1 DEF Mail, States
  <1>6. ASSUME NEW r \in RunIds, NEW a \in Attempts,
               InsertDeliveries(r, a) \/ SendEmail(r, a) \/ ResendEmail(r, a)
        PROVE  MailsCalm'
    <2>1. CASE InsertDeliveries(r, a)
      <3>1. /\ delivery[<<r, a>>] = "open" /\ UNCHANGED <<mails, resend>>
            /\ \/ delivery' = [delivery EXCEPT ![<<r, a>>] = "pending"]
               \/ delivery' = [delivery EXCEPT ![<<r, a>>] = "none"]
        BY <2>1 DEF InsertDeliveries
      <3>2. a = 1 /\ \A d \in resend : d # <<r, a>>
        BY <1>4, <3>1 DEF MailsCalm
      <3>3. QED
        BY <1>2, <3>1, <3>2 DEF States
    <2>2. CASE SendEmail(r, a)
      <3>1. delivery[<<r, a>>] = "pending" /\ UNCHANGED resend /\ Mail(r, a)
        BY <2>2 DEF SendEmail
      <3>2. a = 1 /\ \A d \in resend : d # <<r, a>>
        BY <1>4, <3>1 DEF MailsCalm
      <3>3. QED
        BY <1>2, <1>5, <3>1, <3>2
    <2>3. CASE ResendEmail(r, a)
      <3>1. <<r, a>> \in resend /\ resend' = resend \ {<<r, a>>} /\ Mail(r, a)
        BY <2>3 DEF ResendEmail
      <3>2. delivery[<<r, a>>] = "failed"
        BY <3>1 DEF MailsCalm
      <3>3. a = 1
        BY <1>4, <3>2
      <3>4. QED
        BY <1>2, <1>5, <3>1, <3>2, <3>3
    <2>4. QED
      BY <1>6, <2>1, <2>2, <2>3
  <1>7. ASSUME NEW r \in RunIds, ListFailedDeliveries(r)
        PROVE  MailsCalm'
    <2>1. UNCHANGED <<delivery, mails>> /\ \A d \in resend' : delivery[d] = "failed"
      BY <1>7 DEF ListFailedDeliveries, Resendable
    <2>2. QED
      BY <2>1 DEF MailsCalm
  <1>8. ASSUME \/ UNCHANGED <<jobVars, mailVars>>
               \/ \E g \in Callers : EnqueueRender(g)
               \/ \E r \in RunIds : PostRendered(r)
        PROVE  UNCHANGED <<delivery, mails, resend>>
    BY <1>8 DEF EnqueueRender, PostRendered, mailVars
  <1>9. QED
    BY <1>1, <1>3, <1>6, <1>7, <1>8, CalmMoves

LEMMA CalmStep ==
  ASSUME TypeOK, TimeInv, DocInv, CalmInv, [Next]_vars
  PROVE  CalmInv'
  <1> SUFFICES ASSUME faults' = 0
               PROVE  CallsCalm' /\ JobsCalm' /\ MailsCalm'
    BY DEF CalmInv
  <1>1. CallsCalm /\ JobsCalm /\ MailsCalm
    BY CalmMoves DEF CalmInv
  <1>2. QED
    BY <1>1, CallsCalmStep, JobsCalmStep, MailsCalmStep

-----------------------------------------------------------------------------
(* The theorems.                                                           *)

LEMMA InitInv == Init => IInv
  <1> SUFFICES ASSUME Init
               PROVE  IInv
    OBVIOUS
  <1>0. /\ MaxTime \in Nat /\ MaxRuns \in Nat /\ MaxManual \in Nat /\ MaxFaults \in Nat
        /\ 1 \in Attempts /\ NULL \notin Nat
    BY BoundsAssumption, NullIsApart DEF Attempts
  <1>1. /\ now = 0 /\ runs = <<>> /\ sweep = NULL /\ posts = {} /\ resend = {}
        /\ manuals = 0 /\ faults = 0 /\ lost = {}
    BY DEF Init
  <1>2. runs \in Seq(RunRow) /\ Len(runs) = 0 /\ DOMAIN runs = {}
    BY <1>1
  <1>3. /\ backup \in [Backups -> [started: {NULL} \cup 0..MaxTime, done: BOOLEAN]]
        /\ \A b \in Backups : backup[b].started = NULL /\ backup[b].done = FALSE
    BY DEF Init
  <1>4. def \in {NULL} \cup DefinitionRow
    <2>1. PICK c \in Cadences : def = Definition(c, TRUE, 0)
      BY DEF Init
    <2>2. ComputeNextRunAt(c, 0) \in {NULL} \cup Nat
      BY NextIsHour
    <2>3. QED
      BY <2>1, <2>2, DefinitionIs DEF Definition
  <1>5. gen \in [Callers -> CallType] /\ \A g \in Callers : gen[g].pc = "idle"
    <2>1. Idle \in CallType /\ Idle.pc = "idle"
      BY <1>0 DEF Idle, CallType
    <2>2. QED
      BY <2>1 DEF Init
  <1>6. /\ task \in [RunIds -> {"none", "queued", "posted", "dead"}]
        /\ attempt \in [RunIds -> Attempts] /\ mails \in [RunIds -> Nat]
        /\ \A r \in RunIds : task[r] = "none" /\ attempt[r] = 1 /\ mails[r] = 0
    BY <1>0 DEF Init
  <1>7. /\ delivery \in [Delivery -> States]
        /\ \A d \in Delivery : delivery[d] = "none"
    BY DEF Init, Delivery, States
  <1>8. TypeOK
    BY <1>0, <1>1, <1>2, <1>3, <1>4, <1>5, <1>6, <1>7 DEF TypeOK, Delivery, States
  <1>9. TimeInv
    BY <1>2, <1>3, <1>5 DEF TimeInv
  <1>10. DocInv
    BY <1>1, <1>2, <1>5, <1>6 DEF DocInv, Holds
  <1>11. CoverInv
    BY <1>2, <1>5 DEF CoverInv
  <1>12. SentInv
    <2>1. \A r \in RunIds : Sent(r) = {}
      BY <1>7 DEF Sent, Delivery
    <2>2. QED
      BY <1>6, <2>1, FS_EmptySet DEF SentInv
  <1>13. CalmInv
    <2>1. \A r \in RunIds : delivery[<<r, 1>>] = "none"
      BY <1>0, <1>7 DEF Delivery
    <2>2. CallsCalm /\ JobsCalm
      BY <1>1, <1>5, <1>6, <2>1 DEF CallsCalm, Holds, JobsCalm
    <2>3. MailsCalm
      BY <1>1, <1>6, <1>7, <2>1 DEF MailsCalm, Delivery
    <2>4. QED
      BY <2>2, <2>3 DEF CalmInv
  <1>14. QED
    BY <1>8, <1>9, <1>10, <1>11, <1>12, <1>13 DEF IInv

\* Each layer is preserved given those before it.
THEOREM StepInv == IInv /\ [Next]_vars => IInv'
  <1> SUFFICES ASSUME IInv, [Next]_vars
               PROVE  IInv'
    OBVIOUS
  <1>1. TypeOK /\ TimeInv /\ DocInv /\ CoverInv /\ SentInv /\ CalmInv
    BY DEF IInv
  <1>2. QED
    BY <1>1, TypeStep, TimeStep, DocStep, CoverStep, SentStep, CalmStep DEF IInv

THEOREM Invariance == Spec => []IInv
  BY InitInv, StepInv, PTL DEF Spec

\* The variables keep their types: rows, calls, tasks, posts and deliveries
\* are those of the schema, and a generated run has its document.
THEOREM TypeCorrect == Spec => []TypeOK
  <1>1. IInv => TypeOK
    BY DEF IInv
  <1>2. QED
    BY <1>1, Invariance, PTL

\* The chain of windows has no silent gap: what some generated run of the
\* chain has passed is in a document of the chain, but for runs whose
\* documents a later attempt declared failed.
THEOREM CoverageCorrect == Spec => []NoCoverageGap
  <1>1. IInv => NoCoverageGap
    <2> SUFFICES ASSUME IInv, NEW b \in Backups, backup[b].done,
                        NEW r \in ChainRuns, backup[b].started < runs[r].end,
                        \A q \in DOMAIN runs : runs[q].once => runs[q].state # "failed"
                 PROVE  \E q \in ChainRuns : b \in runs[q].doc \cup runs[q].unfinished
      BY DEF NoCoverageGap, AnchorEnds
    <2>0. TypeOK /\ TimeInv /\ DocInv /\ CoverInv
      BY DEF IInv
    <2>1. r \in DOMAIN runs /\ ~ runs[r].adHoc /\ runs[r].once
      BY <2>0 DEF ChainRuns, DocInv
    <2>2. backup[b].started # NULL
      BY <2>0 DEF TimeInv
    <2>3. CoveredOnce(b)
      BY <2>0, <2>1, <2>2, GeneratedAccounts DEF Accounted
    <2>4. PICK q \in DOMAIN runs : /\ runs[q].once /\ ~ runs[q].adHoc
                                   /\ b \in runs[q].doc \cup runs[q].unfinished
      BY <2>3 DEF CoveredOnce
    <2>5. runs[q].state = "generated"
      <3>1. runs[q].state \in {"running", "generated", "failed"}
        BY <2>0, RowIs DEF RunRow
      <3>2. runs[q].state # "running" /\ runs[q].state # "failed"
        BY <2>0, <2>4 DEF DocInv
      <3>3. QED
        BY <3>1, <3>2
    <2>6. QED
      BY <2>4, <2>5 DEF ChainRuns
  <1>2. QED
    BY <1>1, Invariance, PTL

\* The delivery rows account for the mails, and without a fault a recipient
\* gets a run once.
THEOREM MailCorrect == Spec => []MailsAreRecorded
  <1>1. IInv => MailsAreRecorded
    <2> SUFFICES ASSUME IInv, NEW r \in RunIds
                 PROVE  /\ Cardinality(Sent(r)) <= mails[r]
                        /\ faults = 0 => mails[r] <= 1
      BY DEF MailsAreRecorded, Sent
    <2>1. Cardinality(Sent(r)) <= mails[r]
      BY DEF IInv, SentInv
    <2>2. faults = 0 => mails[r] = 0 \/ mails[r] = 1
      BY DEF IInv, CalmInv, MailsCalm
    <2>3. QED
      BY <2>1, <2>2
  <1>2. QED
    BY <1>1, Invariance, PTL

=============================================================================
