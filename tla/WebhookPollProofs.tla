-------------------------- MODULE WebhookPollProofs --------------------------
(***************************************************************************)
(* The safety properties of WebhookPoll for any number of cells, runs,     *)
(* changes and faults.                                                     *)
(***************************************************************************)
EXTENDS WebhookPoll, WellFoundedInduction, TLAPS

-----------------------------------------------------------------------------
(* The layers of the inductive invariant.                                  *)

\* The task has payloads still to read, or a reconciliation to do.
Reads(r) == task[r].pc \in {"queued", "fetch", "post"}
Works(r) == Reads(r) \/ task[r].pc = "drained"

\* A change the database should show and does not.
Behind(c) == ~ Shown(c) /\ Latest(c) \notin shadow

\* Every position is one of the log, and the database holds past changes.
LogInv ==
  /\ anchor <= Now /\ shadow \subseteq Changes
  /\ cursor \in 1..(Now + 1)
  /\ pass.polls => pass.cursor \in 1..(Now + 1)
  /\ \A r \in Runs : /\ task[r].to <= Now + 1 /\ task[r].seen <= Now
                     /\ Reads(r) => task[r].cursor \in 1..(Now + 1)
                     /\ task[r].pc \in {"post", "reset"} => task[r].to >= 1
                     /\ Works(r) /\ task[r].pc # "queued" => task[r].anchor <= anchor
  /\ \A c \in Cells : shown[c] <= Latest(c)

\* The pass holds a run from its row to its stamp, and alone until it enqueues.
PassInv ==
  /\ pass.pc \in {"idle", "fetched", "insert"} <=> pass.run = NULL
  /\ pass.pc = "enqueue" => TaskOver(pass.run)
  /\ pass.pc \in {"insert", "enqueue"} => pass.polls
  /\ pass.polls => due

\* What a read that an anchor will speak for has brought in.
ReadInv == ~ reverted => \A r \in Runs, c \in Cells :
  /\ task[r].pc = "succeeded" /\ task[r].reconcile =>
       Shown(c) \/ Latest(c) > task[r].seen \/ Latest(c) <= anchor
  /\ task[r].pc = "stamp" /\ full[r] # "running" =>
       Shown(c) \/ Latest(c) > task[r].seen \/ Latest(c) \in shadow

\* While nothing fails, nobody falls back and the cursor only advances.
CalmInv == faults = 0 =>
  /\ kept = 1 /\ ~ paused
  /\ \A r \in Runs : /\ full[r] = "none"
                     /\ task[r].pc \in {"none", "succeeded"} \/ Works(r)
                     /\ Reads(r) => task[r].cursor <= cursor
  /\ pass.polls => pass.cursor <= cursor

\* While nothing fails, a task that is not over is the one the pass is
\* starting, or the one of the in-flight map.
OneInv == faults = 0 =>
  /\ pass.pc = "enqueue" => InFlight(pass.run)
  /\ \A r \in Runs : ~ TaskOver(r) =>
       /\ InFlight(r)
       /\ IF pass.pc \in {"start", "stamp"} THEN r = pass.run
          ELSE pass.pc \in {"idle", "fetched"} /\ r = inflight

\* While nothing fails, what the database lacks is ahead of the cursor, or a
\* task that is under way will reconcile.
Suspecting == \E r \in Runs : Works(r) /\ task[r].reconcile
CursorInv == faults = 0 /\ ~ reverted => \A c \in Cells : Behind(c) =>
  /\ Latest(c) >= cursor \/ Suspecting
  /\ \A r \in Runs : task[r].pc = "post" => Latest(c) >= task[r].to \/ Suspecting

\* While nothing fails, what the database lacks will be read by a task under
\* way, or a ping, the watermark or a ping during the pass calls for another.
WillRead(r, c) ==
  /\ Works(r)
  /\ \/ task[r].reconcile
     \/ task[r].pc \in {"queued", "fetch"} /\ Latest(c) >= task[r].cursor
     \/ task[r].pc = "post" /\ task[r].more /\ Latest(c) >= task[r].to
WakeInv == faults = 0 /\ ~ reverted => \A c \in Cells : Behind(c) =>
  \/ pingDue
  \/ IF pass.pc \in {"start", "stamp"} THEN pass.pinged ELSE due
  \/ \E r \in Runs : WillRead(r, c)

IInv == /\ TypeOK /\ LogInv /\ PassInv
        /\ ReadInv /\ NoChangeLost
        /\ CalmInv /\ OneInv
        /\ CursorInv /\ WakeInv

-----------------------------------------------------------------------------
(* Operators.                                                              *)

\* A set of natural numbers has a least element.
LEMMA LeastExists ==
  ASSUME NEW T \in SUBSET Nat, T # {}
  PROVE  \E t \in T : \A u \in T : t <= u
  <1>1. \E R : /\ IsWellFoundedOn(R, Nat)
               /\ \A u \in Nat, v \in Nat : u < v => <<u, v>> \in R
    <2>1. \A u \in Nat, v \in Nat : u < v => <<u, v>> \in OpToRel(<, Nat)
      BY DEF OpToRel
    <2>2. QED
      BY <2>1, NatLessThanWellFounded, Zenon
  <1>2. PICK R : /\ IsWellFoundedOn(R, Nat)
                 /\ \A u \in Nat, v \in Nat : u < v => <<u, v>> \in R
    BY <1>1
  <1>3. PICK t \in T : \A u \in T : ~ (<<u, t>> \in R)
    <2>1. IsWellFoundedOn(R, Nat) /\ T \subseteq Nat
      BY <1>2
    <2>2. QED
      BY <2>1, WFMin, Zenon
  <1>4. \A u \in T : ~ (u < t)
    BY <1>2, <1>3
  <1>5. QED
    BY <1>4

\* The maximum of a set of positions is one of them, and no less than any.
LEMMA MaxOfInterval ==
  ASSUME NEW n \in Nat, NEW S \in SUBSET (0..n), S # {}
  PROVE  Max(S) \in S /\ \A x \in S : x <= Max(S)
  <1> DEFINE T == {n - x : x \in S}
  <1>1. T \in SUBSET Nat
    OBVIOUS
  <1>2. T # {}
    OBVIOUS
  <1>3. PICK t \in T : \A u \in T : t <= u
    BY <1>1, <1>2, LeastExists
  <1>4. PICK m \in S : t = n - m
    OBVIOUS
  <1>5. \A x \in S : m >= x
    BY <1>3, <1>4
  <1>6. QED
    BY <1>5 DEF Max

\* LastChangeOf, for any log.
LastIn(l, c, n) == Max({0} \cup {i \in 1..n : l[i].cell = c})

\* The last change of a cell is one of its changes, or 0, and none is later.
LEMMA LastInIs ==
  ASSUME NEW l, NEW c, NEW n \in Nat
  PROVE  /\ LastIn(l, c, n) \in 0..n
         /\ LastIn(l, c, n) # 0 => l[LastIn(l, c, n)].cell = c
         /\ \A i \in 1..n : l[i].cell = c => i <= LastIn(l, c, n)
  <1> DEFINE S == {0} \cup {i \in 1..n : l[i].cell = c}
  <1>1. S \in SUBSET (0..n) /\ S # {}
    OBVIOUS
  <1>2. Max(S) \in S /\ \A x \in S : x <= Max(S)
    BY <1>1, MaxOfInterval
  <1> HIDE DEF S
  <1>3. LastIn(l, c, n) = Max(S)
    BY DEF LastIn, S
  <1>4. QED
    BY <1>2, <1>3 DEF S

LEMMA LatestIs == \A c : Latest(c) = LastIn(log, c, Now)
  BY DEF Latest, LastChangeOf, LastIn

\* A new change is the last one of its cell and of no other.
LEMMA LastInAppend ==
  ASSUME NEW P, NEW l \in Seq(P), NEW e \in P, NEW c
  PROVE  LastIn(Append(l, e), c, Len(l) + 1) =
           IF e.cell = c THEN Len(l) + 1 ELSE LastIn(l, c, Len(l))
  <1> DEFINE n == Len(l)
             k == Append(l, e)
             a == LastIn(l, c, n)
             b == LastIn(k, c, n + 1)
  <1>1. n \in Nat /\ k[n + 1] = e /\ \A i \in 1..n : k[i] = l[i]
    OBVIOUS
  <1> HIDE DEF n, k
  <1>2. /\ a \in 0..n /\ (a # 0 => l[a].cell = c)
        /\ \A i \in 1..n : l[i].cell = c => i <= a
    BY <1>1, LastInIs
  <1>3. /\ b \in 0..(n + 1) /\ (b # 0 => k[b].cell = c)
        /\ \A i \in 1..(n + 1) : k[i].cell = c => i <= b
    BY <1>1, LastInIs
  <1> HIDE DEF a, b
  <1>4. CASE e.cell = c
    <2>1. n + 1 <= b
      BY <1>1, <1>3, <1>4
    <2>2. QED
      BY <1>1, <1>3, <1>4, <2>1 DEF n, k, b
  <1>5. CASE e.cell # c
    <2>1. b # n + 1
      BY <1>1, <1>3, <1>5
    <2>2. b <= a
      BY <1>1, <1>2, <1>3, <2>1
    <2>3. a <= b
      BY <1>1, <1>2, <1>3
    <2>4. QED
      BY <1>1, <1>2, <1>3, <1>5, <2>2, <2>3 DEF n, k, a, b
  <1>6. QED
    BY <1>4, <1>5

\* What a batch leaves of a cell: the last readable change of it, if any.
LEMMA ShownAfterIs ==
  ASSUME NEW c \in Cells, NEW from \in Nat, NEW to \in Nat, shown[c] \in Nat
  PROVE  LET v == ShownAfter(c, from, to) IN
         /\ v \in Nat
         /\ Readable(c, from, to) = {} => v = shown[c]
         /\ Readable(c, from, to) # {} =>
              v \in Readable(c, from, to) /\ \A i \in Readable(c, from, to) : i <= v
  <1> DEFINE S == Readable(c, from, to)
  <1>1. S \in SUBSET (0..to)
    BY DEF Readable
  <1>2. S # {} => Max(S) \in S /\ \A i \in S : i <= Max(S)
    BY <1>1, MaxOfInterval
  <1> HIDE DEF S
  <1>3. ShownAfter(c, from, to) = IF S = {} THEN shown[c] ELSE Max(S)
    BY DEF ShownAfter, S
  <1>4. QED
    BY <1>1, <1>2, <1>3 DEF S

-----------------------------------------------------------------------------
(* Types.                                                                  *)

Payload  == [cell : Cells, opaque : BOOLEAN]
PassPcs  == {"idle", "fetched", "insert", "enqueue", "start", "stamp"}
PassType == [pc : PassPcs, polls : BOOLEAN, cursor : Nat, reconcile : BOOLEAN,
             run : Runs \cup {NULL}, pinged : BOOLEAN]
RunType  == [status : {"none", "queued", "running"}, tracked : BOOLEAN]
TaskType == [pc : TaskPcs, cursor : Nat, anchor : Nat \cup {-1}, reconcile : BOOLEAN,
             to : Nat, more : BOOLEAN, seen : Nat]

\* The type invariant in terms of these.
LEMMA TypeIs == TypeOK <=>
  /\ log \in Seq(Payload)
  /\ kept \in Nat /\ pingDue \in BOOLEAN
  /\ due \in BOOLEAN /\ reconcileDue \in BOOLEAN
  /\ cursor \in Nat /\ anchor \in Nat \cup {-1}
  /\ paused \in BOOLEAN /\ inflight \in Runs \cup {NULL}
  /\ pass \in PassType /\ run \in [Runs -> RunType] /\ task \in [Runs -> TaskType]
  /\ full \in [Runs -> {"none", "running"}]
  /\ shown \in [Cells -> Nat] /\ shadow \subseteq Nat /\ reverted \in BOOLEAN
  /\ faults \in Nat
  BY Zenon DEF TypeOK, Payload, PassPcs, PassType, RunType, TaskType

\* The records a step starts from.
LEMMA FreshType ==
  /\ NoTask \in TaskType /\ Unstarted \in RunType /\ IdlePass \in PassType
  /\ \A pc \in TaskPcs : [NoTask EXCEPT !.pc = pc] \in TaskType
  BY DEF NoTask, Unstarted, IdlePass, TaskPcs, PassPcs, PassType, RunType, TaskType

\* A step of one task leaves the others alone.
LEMMA GoesType ==
  ASSUME NEW r \in Runs, NEW t \in TaskType, task \in [Runs -> TaskType], Goes(r, t)
  PROVE  /\ task' \in [Runs -> TaskType] /\ task'[r] = t
         /\ \A q \in Runs \ {r} : task'[q] = task[q]
  BY DEF Goes

\* What each step does to the task of its run.
Moved(r) == task' \in [Runs -> TaskType] /\ \A q \in Runs \ {r} : task'[q] = task[q]

LEMMA TaskMoves ==
  ASSUME TypeOK, NEW r \in Runs
  PROVE  /\ TaskFetchContext(r) =>
              /\ Moved(r) /\ task[r].pc = "queued" /\ task'[r].pc = "fetch"
              /\ task'[r].anchor = anchor /\ task'[r].cursor = task[r].cursor
              /\ task'[r].reconcile = task[r].reconcile
              /\ task'[r].to = task[r].to /\ task'[r].seen = task[r].seen
         /\ TaskFetchPage(r) =>
              /\ Moved(r) /\ task[r].pc = "fetch"
              /\ task'[r].pc \in {"post", "drained"} /\ task'[r].anchor = task[r].anchor
              /\ task'[r].cursor = task[r].cursor /\ task'[r].seen = task[r].seen
              /\ task'[r].to \in task[r].cursor..(Now + 1)
              /\ task'[r].to = task[r].cursor => task[r].cursor = Now + 1
              /\ task'[r].pc = "drained" => task[r].cursor = Now + 1
              /\ task'[r].more = (task'[r].to <= Now)
              /\ task'[r].reconcile = \/ task[r].reconcile
                                      \/ Suspect(task[r].cursor, task'[r].to)
              /\ shown' = [c \in Cells |-> ShownAfter(c, task[r].cursor, task'[r].to)]
              /\ reverted' = (reverted \/ \E c \in Cells : shown'[c] < shown[c])
         /\ TaskPostCursor(r) =>
              /\ Moved(r) /\ task[r].pc = "post"
              /\ task'[r].pc = IF task[r].more THEN "fetch" ELSE "drained"
              /\ task'[r].cursor = task[r].to /\ task'[r].to = 0
              /\ task'[r].anchor = task[r].anchor /\ task'[r].seen = task[r].seen
              /\ task'[r].reconcile = task[r].reconcile
         /\ TaskReconcile(r) =>
              /\ Moved(r) /\ task[r].pc = "drained" /\ task'[r].pc = "succeeded"
              /\ task'[r].reconcile = task[r].reconcile
              /\ task'[r].seen = Now /\ task'[r].to = 0
         /\ TaskComplete(r) \/ TaskCompletionLost(r) =>
              /\ Moved(r) /\ task[r].pc \in {"succeeded", "failed"}
              /\ task'[r] = NoTask
         /\ TaskFails(r) =>
              /\ Moved(r) /\ task'[r].pc \in {"failed", "none"}
              /\ task'[r].to = 0 /\ task'[r].seen = 0
         /\ TaskSignalsGap(r) =>
              /\ Moved(r) /\ task[r].pc = "fetch" /\ task'[r].pc = "fallback"
              /\ task'[r].to = 0 /\ task'[r].seen = 0
         /\ FallbackStartRun(r) =>
              /\ Moved(r) /\ task[r].pc = "fallback" /\ task'[r].pc = "stamp"
              /\ task'[r].seen = Now /\ task'[r].to = 0
         /\ FallbackStamp(r) =>
              /\ Moved(r) /\ task[r].pc = "stamp" /\ task'[r].pc = "latest"
              /\ task'[r].to = 0 /\ task'[r].seen = 0
         /\ FallbackReadLatest(r) =>
              /\ Moved(r) /\ task[r].pc = "latest"
              /\ \/ task'[r].pc = "reset" /\ task'[r].to = Now + 1
                 \/ task'[r].pc = "failed" /\ task'[r].to = 0
              /\ task'[r].seen = 0
         /\ FallbackReset(r) =>
              /\ Moved(r) /\ task[r].pc = "reset" /\ task'[r].pc = "failed"
              /\ task'[r].to = 0 /\ task'[r].seen = 0
         /\ FullOver(r) =>
              /\ Moved(r) /\ full[r] = "running"
              /\ \/ /\ task[r].pc = "stamp" /\ task'[r].pc = "stamp"
                    /\ task'[r].seen = Now /\ task'[r].to = task[r].to
                 \/ task[r].pc # "stamp" /\ UNCHANGED task
  <1> USE DEF Moved, TaskAt
  <1>0. Now \in Nat /\ task[r] \in TaskType /\ task[r].cursor \in Nat /\ task[r].to \in Nat
        /\ anchor \in Nat \cup {-1} /\ task \in [Runs -> TaskType] /\ NoTask \in TaskType
    BY TypeIs, FreshType DEF Now, TaskType
  <1>1. ASSUME TaskFetchContext(r)
        PROVE  /\ Moved(r) /\ task[r].pc = "queued" /\ task'[r].pc = "fetch"
               /\ task'[r].anchor = anchor /\ task'[r].cursor = task[r].cursor
               /\ task'[r].reconcile = task[r].reconcile
               /\ task'[r].to = task[r].to /\ task'[r].seen = task[r].seen
    <2> DEFINE t == [task[r] EXCEPT !.pc = "fetch", !.anchor = anchor]
    <2>1. Goes(r, t) /\ task[r].pc = "queued"
      BY <1>1 DEF TaskFetchContext
    <2>2. t \in TaskType
      BY <1>0 DEF TaskType, TaskPcs
    <2>3. task'[r] = t /\ Moved(r)
      BY <1>0, <2>1, <2>2, GoesType
    <2>4. QED
      BY <1>0, <2>1, <2>3 DEF TaskType
  <1>2. ASSUME TaskFetchPage(r)
        PROVE  /\ Moved(r) /\ task[r].pc = "fetch"
               /\ task'[r].pc \in {"post", "drained"} /\ task'[r].anchor = task[r].anchor
               /\ task'[r].cursor = task[r].cursor /\ task'[r].seen = task[r].seen
               /\ task'[r].to \in task[r].cursor..(Now + 1)
               /\ task'[r].to = task[r].cursor => task[r].cursor = Now + 1
               /\ task'[r].pc = "drained" => task[r].cursor = Now + 1
               /\ task'[r].more = (task'[r].to <= Now)
               /\ task'[r].reconcile = \/ task[r].reconcile
                                       \/ Suspect(task[r].cursor, task'[r].to)
               /\ shown' = [c \in Cells |-> ShownAfter(c, task[r].cursor, task'[r].to)]
               /\ reverted' = (reverted \/ \E c \in Cells : shown'[c] < shown[c])
    <2> DEFINE from == task[r].cursor
    <2>1. PICK to \in from..(Now + 1) :
            /\ to = from => from = Now + 1
            /\ shown' = [c \in Cells |-> ShownAfter(c, from, to)]
            /\ reverted' = (reverted \/ \E c \in Cells : shown'[c] < shown[c])
            /\ Goes(r, [task[r] EXCEPT !.pc = IF to = from THEN "drained" ELSE "post",
                                       !.to = to, !.more = to <= Now,
                                       !.reconcile = @ \/ Suspect(from, to)])
      BY <1>2, Zenon DEF TaskFetchPage
    <2> DEFINE suspect == task[r].reconcile \/ Suspect(from, to)
               t == [task[r] EXCEPT !.pc = IF to = from THEN "drained" ELSE "post",
                                    !.to = to, !.more = to <= Now, !.reconcile = suspect]
    <2>2. Goes(r, t) /\ task[r].pc = "fetch"
      BY <1>2, <2>1, Zenon DEF TaskFetchPage
    <2>3. to \in Nat /\ suspect \in BOOLEAN /\ (to <= Now) \in BOOLEAN
      BY <1>0
    <2> HIDE DEF suspect
    <2>4. t \in TaskType
      BY <1>0, <2>3 DEF TaskType, TaskPcs
    <2>5. task'[r] = t /\ Moved(r)
      BY <1>0, <2>2, <2>4, GoesType
    <2>6. /\ task'[r].pc = IF to = from THEN "drained" ELSE "post"
          /\ task'[r].to = to /\ task'[r].more = (to <= Now)
          /\ task'[r].reconcile = suspect /\ task'[r].anchor = task[r].anchor
          /\ task'[r].cursor = task[r].cursor /\ task'[r].seen = task[r].seen
      BY <1>0, <2>5 DEF TaskType
    <2>7. task'[r].reconcile = (task[r].reconcile \/ Suspect(from, task'[r].to))
      BY <2>6, Zenon DEF suspect
    <2>8. /\ shown' = [c \in Cells |-> ShownAfter(c, from, task'[r].to)]
          /\ reverted' = (reverted \/ \E c \in Cells : shown'[c] < shown[c])
      BY <2>1, <2>6, Zenon
    <2>9. QED
      BY <2>1, <2>2, <2>5, <2>6, <2>7, <2>8
  <1>3. ASSUME TaskPostCursor(r)
        PROVE  /\ Moved(r) /\ task[r].pc = "post"
               /\ task'[r].pc = IF task[r].more THEN "fetch" ELSE "drained"
               /\ task'[r].cursor = task[r].to /\ task'[r].to = 0
               /\ task'[r].anchor = task[r].anchor /\ task'[r].seen = task[r].seen
               /\ task'[r].reconcile = task[r].reconcile
    <2> DEFINE t == [task[r] EXCEPT !.pc = IF task[r].more THEN "fetch" ELSE "drained",
                                    !.cursor = task[r].to, !.to = 0, !.more = FALSE]
    <2>1. Goes(r, t) /\ task[r].pc = "post"
      BY <1>3 DEF TaskPostCursor
    <2>2. t \in TaskType
      BY <1>0 DEF TaskType, TaskPcs
    <2>3. task'[r] = t /\ Moved(r)
      BY <1>0, <2>1, <2>2, GoesType
    <2>4. QED
      BY <1>0, <2>1, <2>3 DEF TaskType
  <1>4. ASSUME TaskReconcile(r)
        PROVE  /\ Moved(r) /\ task[r].pc = "drained" /\ task'[r].pc = "succeeded"
               /\ task'[r].reconcile = task[r].reconcile
               /\ task'[r].seen = Now /\ task'[r].to = 0
    <2> DEFINE t == [NoTask EXCEPT !.pc = "succeeded", !.reconcile = task[r].reconcile,
                                   !.seen = Now]
    <2>1. Goes(r, t) /\ task[r].pc = "drained"
      BY <1>4 DEF TaskReconcile
    <2>2. t \in TaskType
      BY <1>0 DEF TaskType, TaskPcs
    <2>3. task'[r] = t /\ Moved(r)
      BY <1>0, <2>1, <2>2, GoesType
    <2>4. QED
      BY <1>0, <2>1, <2>3 DEF TaskType, NoTask
  <1>5. ASSUME TaskComplete(r) \/ TaskCompletionLost(r)
        PROVE  /\ Moved(r) /\ task[r].pc \in {"succeeded", "failed"}
               /\ task'[r] = NoTask
    BY <1>0, <1>5, GoesType DEF TaskComplete, TaskCompletionLost
  <1>6. ASSUME NEW pc \in TaskPcs, Jumps(r, pc)
        PROVE  /\ Moved(r) /\ task'[r].pc = pc
               /\ task'[r].to = 0 /\ task'[r].seen = 0
    <2>1. task'[r] = [NoTask EXCEPT !.pc = pc] /\ Moved(r)
      BY <1>0, <1>6, FreshType, GoesType DEF Jumps
    <2>2. QED
      BY <2>1 DEF NoTask
  <1>7. {"failed", "none", "fallback", "latest"} \subseteq TaskPcs
    BY DEF TaskPcs
  <1>8. ASSUME TaskFails(r)
        PROVE  /\ Moved(r) /\ task'[r].pc \in {"failed", "none"}
               /\ task'[r].to = 0 /\ task'[r].seen = 0
    <2>1. Jumps(r, "failed") \/ Jumps(r, "none")
      BY <1>8 DEF TaskFails
    <2>2. QED
      BY <1>6, <1>7, <2>1
  <1>9. ASSUME TaskSignalsGap(r)
        PROVE  /\ Moved(r) /\ task[r].pc = "fetch" /\ task'[r].pc = "fallback"
               /\ task'[r].to = 0 /\ task'[r].seen = 0
    BY <1>6, <1>7, <1>9 DEF TaskSignalsGap
  <1>10. ASSUME FallbackStartRun(r)
         PROVE  /\ Moved(r) /\ task[r].pc = "fallback" /\ task'[r].pc = "stamp"
                /\ task'[r].seen = Now /\ task'[r].to = 0
    <2> DEFINE t == [NoTask EXCEPT !.pc = "stamp", !.seen = Now]
    <2>1. Goes(r, t) /\ task[r].pc = "fallback"
      BY <1>10 DEF FallbackStartRun
    <2>2. t \in TaskType
      BY <1>0 DEF TaskType, TaskPcs
    <2>3. task'[r] = t /\ Moved(r)
      BY <1>0, <2>1, <2>2, GoesType
    <2>4. QED
      BY <1>0, <2>1, <2>3 DEF TaskType, NoTask
  <1>11. ASSUME FallbackStamp(r)
         PROVE  /\ Moved(r) /\ task[r].pc = "stamp" /\ task'[r].pc = "latest"
                /\ task'[r].to = 0 /\ task'[r].seen = 0
    BY <1>6, <1>7, <1>11 DEF FallbackStamp
  <1>12. ASSUME FallbackReadLatest(r)
         PROVE  /\ Moved(r) /\ task[r].pc = "latest"
                /\ \/ task'[r].pc = "reset" /\ task'[r].to = Now + 1
                   \/ task'[r].pc = "failed" /\ task'[r].to = 0
                /\ task'[r].seen = 0
    <2> DEFINE n == Now + 1
               t == [NoTask EXCEPT !.pc = "reset", !.to = n]
    <2>0. n \in Nat
      BY <1>0
    <2> HIDE DEF n
    <2>1. t \in TaskType
      BY <1>0, <2>0 DEF TaskType, TaskPcs
    <2>2. CASE Goes(r, t)
      <3>1. task'[r] = t /\ Moved(r)
        BY <1>0, <2>1, <2>2, GoesType
      <3>2. QED
        BY <1>0, <1>12, <3>1 DEF TaskType, NoTask, FallbackReadLatest, n
    <2>3. CASE Jumps(r, "failed")
      BY <1>6, <1>7, <1>12, <2>3 DEF FallbackReadLatest
    <2>4. QED
      BY <1>12, <2>2, <2>3 DEF FallbackReadLatest, n
  <1>13. ASSUME FallbackReset(r)
         PROVE  /\ Moved(r) /\ task[r].pc = "reset" /\ task'[r].pc = "failed"
                /\ task'[r].to = 0 /\ task'[r].seen = 0
    BY <1>6, <1>7, <1>13 DEF FallbackReset
  <1>14. ASSUME FullOver(r)
         PROVE  /\ Moved(r) /\ full[r] = "running"
                /\ \/ /\ task[r].pc = "stamp" /\ task'[r].pc = "stamp"
                      /\ task'[r].seen = Now /\ task'[r].to = task[r].to
                   \/ task[r].pc # "stamp" /\ UNCHANGED task
    <2> DEFINE t == [task[r] EXCEPT !.seen = Now]
    <2>1. t \in TaskType
      BY <1>0 DEF TaskType
    <2>2. CASE task[r].pc = "stamp" /\ Goes(r, t)
      <3>1. task'[r] = t /\ Moved(r)
        BY <1>0, <2>1, <2>2, GoesType
      <3>2. QED
        BY <1>0, <1>14, <2>2, <3>1 DEF TaskType, FullOver
    <2>3. CASE task[r].pc # "stamp" /\ UNCHANGED task
      BY <1>0, <1>14, <2>3 DEF FullOver
    <2>4. QED
      BY <1>14, <2>2, <2>3 DEF FullOver
  <1>15. QED
    BY <1>1, <1>2, <1>3, <1>4, <1>5, <1>8, <1>9, <1>10, <1>11, <1>12, <1>13, <1>14

\* What the pass enqueues.
LEMMA EnqueuedIs ==
  ASSUME TypeOK, NEW r \in Runs, Enqueued(r)
  PROVE  /\ Moved(r) /\ task'[r].pc = "queued" /\ task'[r].cursor = pass.cursor
         /\ task'[r].reconcile = pass.reconcile
         /\ task'[r].to = 0 /\ task'[r].seen = 0
  <1> DEFINE t == [NoTask EXCEPT !.pc = "queued", !.cursor = pass.cursor,
                                 !.reconcile = pass.reconcile]
  <1>1. NoTask \in TaskType /\ task \in [Runs -> TaskType] /\ pass \in PassType
    BY TypeIs, FreshType
  <1>2. pass.cursor \in Nat /\ pass.reconcile \in BOOLEAN
    BY <1>1 DEF PassType
  <1>3. t \in TaskType
    BY <1>1, <1>2 DEF TaskType, TaskPcs
  <1>4. task' = [task EXCEPT ![r] = t]
    BY DEF Enqueued
  <1>5. task'[r] = t /\ Moved(r)
    BY <1>1, <1>3, <1>4 DEF Moved
  <1>6. QED
    BY <1>1, <1>2, <1>5 DEF NoTask

\* What each step does to the pass.
LEMMA PassMoves ==
  ASSUME TypeOK
  PROVE  /\ PingRecorded =>
              /\ pass' \in PassType /\ pass'.pc = pass.pc /\ pass'.polls = pass.polls
              /\ pass'.cursor = pass.cursor /\ pass'.run = pass.run
              /\ pass.pc # "idle" => pass'.pinged
         /\ PassFetch =>
              /\ pass' \in PassType /\ pass.pc = "idle" /\ pass'.pc = "fetched"
              /\ pass'.run = NULL
              /\ pass'.polls => due /\ pass'.cursor = cursor
         /\ PassSkips \/ PassStamp \/ PassThrows \/ PassEnqueueFails =>
              /\ pass' \in PassType /\ pass' = IdlePass
              /\ pass'.pc = "idle" /\ ~ pass'.polls /\ pass'.run = NULL
         /\ PassDecide =>
              /\ pass' \in PassType /\ pass.pc = "fetched" /\ pass'.pc = "insert"
              /\ pass.polls /\ pass'.polls
              /\ pass'.cursor = pass.cursor /\ pass'.run = pass.run
         /\ PassInsertRun => \E r \in Runs :
              /\ pass' \in PassType /\ pass.pc = "insert" /\ pass'.pc = "enqueue"
              /\ FreeRun(r) /\ pass'.run = r /\ run'[r].status = "queued"
              /\ run' \in [Runs -> RunType] /\ \A q \in Runs \ {r} : run'[q] = run[q]
              /\ pass'.polls = pass.polls /\ pass'.cursor = pass.cursor
         /\ PassEnqueue =>
              /\ pass' \in PassType /\ pass.pc = "enqueue" /\ pass'.pc = "start"
              /\ pass'.run = pass.run
              /\ pass'.polls = pass.polls /\ pass'.cursor = pass.cursor
         /\ PassMarkStarted =>
              /\ pass' \in PassType /\ pass.pc = "start" /\ pass'.pc = "stamp"
              /\ pass'.run = pass.run /\ pass'.pinged = pass.pinged /\ ~ pass'.polls
  <1>0. /\ pass \in PassType /\ IdlePass \in PassType /\ cursor \in Nat
        /\ due \in BOOLEAN /\ reconcileDue \in BOOLEAN /\ pass.pinged \in BOOLEAN
        /\ run \in [Runs -> RunType] /\ pass.run \in Runs \cup {NULL}
    BY TypeIs, FreshType DEF PassType
  <1>1. ASSUME PingRecorded
        PROVE  /\ pass' \in PassType /\ pass'.pc = pass.pc /\ pass'.polls = pass.polls
               /\ pass'.cursor = pass.cursor /\ pass'.run = pass.run
               /\ pass.pc # "idle" => pass'.pinged
    <2> DEFINE b == pass.pinged \/ pass.pc # "idle"
    <2>1. pass' = [pass EXCEPT !.pinged = b]
      BY <1>1 DEF PingRecorded
    <2>2. b \in BOOLEAN /\ (pass.pc # "idle" => b)
      BY <1>0
    <2> HIDE DEF b
    <2>3. QED
      BY <1>0, <2>1, <2>2 DEF PassType
  <1>2. ASSUME PassFetch
        PROVE  /\ pass' \in PassType /\ pass.pc = "idle" /\ pass'.pc = "fetched"
               /\ pass'.run = NULL
               /\ pass'.polls => due /\ pass'.cursor = cursor
    <2> DEFINE a == [IdlePass EXCEPT !.pc = "fetched", !.polls = TRUE,
                                     !.cursor = cursor, !.reconcile = reconcileDue]
               b == [IdlePass EXCEPT !.pc = "fetched"]
    <2>1. a \in PassType /\ b \in PassType
      BY <1>0 DEF PassType, PassPcs
    <2>2. /\ a.pc = "fetched" /\ a.run = NULL /\ a.cursor = cursor
          /\ b.pc = "fetched" /\ b.run = NULL /\ ~ b.polls
      BY <1>0 DEF PassType, IdlePass
    <2>3. pass' = IF due /\ ~ paused THEN a ELSE b
      BY <1>2 DEF PassFetch
    <2> HIDE DEF a, b
    <2>4. QED
      BY <1>2, <2>1, <2>2, <2>3 DEF PassFetch
  <1>3. ASSUME PassSkips \/ PassStamp \/ PassThrows \/ PassEnqueueFails
        PROVE  /\ pass' \in PassType /\ pass' = IdlePass
               /\ pass'.pc = "idle" /\ ~ pass'.polls /\ pass'.run = NULL
    <2>1. pass' = IdlePass
      BY <1>3, Zenon DEF PassSkips, PassStamp, PassThrows, PassEnqueueFails
    <2>2. IdlePass.pc = "idle" /\ ~ IdlePass.polls /\ IdlePass.run = NULL
      BY DEF IdlePass
    <2>3. QED
      BY <1>0, <2>1, <2>2
  <1>4. ASSUME PassDecide
        PROVE  /\ pass' \in PassType /\ pass.pc = "fetched" /\ pass'.pc = "insert"
               /\ pass.polls /\ pass'.polls
               /\ pass'.cursor = pass.cursor /\ pass'.run = pass.run
    <2>1. pass' = [pass EXCEPT !.pc = "insert"] /\ pass.pc = "fetched" /\ pass.polls
      BY <1>4 DEF PassDecide, Enqueues
    <2>2. QED
      BY <1>0, <2>1 DEF PassType, PassPcs
  <1>5. ASSUME PassInsertRun
        PROVE  \E r \in Runs :
                 /\ pass' \in PassType /\ pass.pc = "insert" /\ pass'.pc = "enqueue"
                 /\ FreeRun(r) /\ pass'.run = r /\ run'[r].status = "queued"
                 /\ run' \in [Runs -> RunType] /\ \A q \in Runs \ {r} : run'[q] = run[q]
                 /\ pass'.polls = pass.polls /\ pass'.cursor = pass.cursor
    <2> DEFINE u == [status |-> "queued", tracked |-> FALSE]
    <2>1. PICK r \in Runs : /\ FreeRun(r)
                            /\ run' = [run EXCEPT ![r] = u]
                            /\ pass' = [pass EXCEPT !.pc = "enqueue", !.run = r]
      BY <1>5 DEF PassInsertRun
    <2>2. u \in RunType /\ u.status = "queued"
      BY DEF RunType
    <2> HIDE DEF u
    <2>3. /\ run' \in [Runs -> RunType] /\ run'[r].status = "queued"
          /\ \A q \in Runs \ {r} : run'[q] = run[q]
      BY <1>0, <2>1, <2>2
    <2>4. /\ pass' \in PassType /\ pass'.pc = "enqueue" /\ pass'.run = r
          /\ pass'.polls = pass.polls /\ pass'.cursor = pass.cursor
      BY <1>0, <2>1 DEF PassType, PassPcs
    <2>5. QED
      BY <1>5, <2>1, <2>3, <2>4 DEF PassInsertRun
  <1>6. ASSUME PassEnqueue
        PROVE  /\ pass' \in PassType /\ pass.pc = "enqueue" /\ pass'.pc = "start"
               /\ pass'.run = pass.run
               /\ pass'.polls = pass.polls /\ pass'.cursor = pass.cursor
    <2>1. pass' = [pass EXCEPT !.pc = "start"] /\ pass.pc = "enqueue"
      BY <1>6 DEF PassEnqueue
    <2>2. QED
      BY <1>0, <2>1 DEF PassType, PassPcs
  <1>7. ASSUME PassMarkStarted
        PROVE  /\ pass' \in PassType /\ pass.pc = "start" /\ pass'.pc = "stamp"
               /\ pass'.run = pass.run /\ pass'.pinged = pass.pinged /\ ~ pass'.polls
    <2>1. /\ pass' = [IdlePass EXCEPT !.pc = "stamp", !.pinged = pass.pinged,
                                      !.run = pass.run]
          /\ pass.pc = "start"
      BY <1>7 DEF PassMarkStarted
    <2>2. QED
      BY <1>0, <2>1 DEF PassType, PassPcs, IdlePass
  <1>8. QED
    BY <1>1, <1>2, <1>3, <1>4, <1>5, <1>6, <1>7

\* A step of a run's task, of its fallback or of its full re-read.
RunStep(r) == \/ TaskStep(r) \/ TaskFails(r) \/ TaskCompletionLost(r)
              \/ FullReads(r) \/ FullFails(r)

\* What such a step leaves alone, and which of them change the rest.
LEMMA RunFrame ==
  ASSUME NEW r \in Runs, RunStep(r)
  PROVE  /\ UNCHANGED <<log, kept, pingDue, due, paused, inflight, pass>>
         /\ \/ UNCHANGED run
            \/ TaskComplete(r) /\ run' = [run EXCEPT ![r] = Unstarted]
         /\ \/ UNCHANGED full
            \/ FallbackStartRun(r) /\ full' = [full EXCEPT ![r] = "running"]
            \/ (FullReads(r) \/ FullFails(r)) /\ full' = [full EXCEPT ![r] = "none"]
         /\ UNCHANGED faults \/ Fault
         /\ \/ UNCHANGED <<reconcileDue, anchor, shadow>>
            \/ /\ TaskComplete(r) /\ StampAnchor(task[r].seen)
               /\ task[r].pc = "succeeded" /\ task[r].reconcile
            \/ /\ FallbackStamp(r)
               /\ StampAnchor(IF full[r] = "running" THEN Now ELSE task[r].seen)
            \/ FullFails(r) /\ UNCHANGED <<reconcileDue, anchor>> /\ shadow' = Changes
         /\ \/ UNCHANGED cursor
            \/ TaskPostCursor(r) /\ cursor' = Advanced(task[r].to)
            \/ FallbackReset(r) /\ cursor' = task[r].to
         /\ \/ UNCHANGED shown
            \/ TaskFetchPage(r)
            \/ /\ TaskReconcile(r) /\ task[r].reconcile
               /\ shown' = [c \in Cells |-> IF Latest(c) > task[r].anchor
                                            THEN Latest(c) ELSE shown[c]]
            \/ FullReads(r) /\ shown' = [c \in Cells |-> Latest(c)]
         /\ UNCHANGED reverted \/ TaskFetchPage(r)
  <1> USE DEF airtable, clock, sub, history
  <1>1. CASE TaskFetchContext(r) \/ TaskSignalsGap(r) \/ FallbackReadLatest(r)
             \/ TaskFails(r) \/ TaskCompletionLost(r)
    BY <1>1, Zenon DEF TaskFetchContext, TaskSignalsGap, FallbackReadLatest, TaskFails,
       TaskCompletionLost
  <1>2. CASE TaskFetchPage(r)
    BY <1>2, Zenon DEF TaskFetchPage
  <1>3. CASE TaskPostCursor(r) \/ FallbackReset(r)
    BY <1>3, Zenon DEF TaskPostCursor, FallbackReset
  <1>4. CASE TaskReconcile(r)
    BY <1>4, Zenon DEF TaskReconcile
  <1>5. CASE TaskComplete(r)
    BY <1>5, Zenon DEF TaskComplete, StampAnchor
  <1>6. CASE FallbackStartRun(r)
    BY <1>6, Zenon DEF FallbackStartRun
  <1>7. CASE FallbackStamp(r)
    BY <1>7, Zenon DEF FallbackStamp, StampAnchor
  <1>8. CASE FullReads(r)
    BY <1>8, Zenon DEF FullReads, FullOver
  <1>9. CASE FullFails(r)
    BY <1>9, Zenon DEF FullFails, FullOver
  <1>10. QED
    BY <1>1, <1>2, <1>3, <1>4, <1>5, <1>6, <1>7, <1>8, <1>9, Zenon DEF RunStep, TaskStep

\* Everything else leaves the data alone, and only the pass starts a task.
LEMMA RestFrame ==
  ASSUME [Next]_vars
  PROVE  \/ \E r \in Runs : RunStep(r)
         \/ /\ UNCHANGED <<cursor, anchor, full, shown, shadow, reverted>>
            /\ \/ UNCHANGED task
               \/ PassEnqueue /\ Enqueued(pass.run)
               \/ PassEnqueueFails /\ Enqueued(pass.run)
            /\ UNCHANGED log \/ Change
            /\ UNCHANGED faults \/ Fault
  <1> USE DEF airtable, clock, sub, history
  <1>1. CASE Change \/ Expire \/ PingLost \/ Park \/ Day \/ Week
    BY <1>1, Zenon DEF Change, Expire, PingLost, Park, Day, Week
  <1>2. CASE PingRecorded
    BY <1>2, Zenon DEF PingRecorded
  <1>3. CASE PassStep
    BY <1>3, Zenon DEF PassStep, PassFetch, PassSkips, PassDecide, PassInsertRun,
       PassEnqueue, PassMarkStarted, PassStamp
  <1>4. CASE PassEnqueueFails \/ PassThrows
    BY <1>4, Zenon DEF PassEnqueueFails, PassThrows
  <1>5. CASE \E r \in Runs : SweepRun(r)
    BY <1>5, Zenon DEF SweepRun
  <1>6. CASE UNCHANGED vars
    BY <1>6, Zenon DEF vars
  <1>7. QED
    BY <1>1, <1>2, <1>3, <1>4, <1>5, <1>6, Zenon DEF Next, RunStep

\* Every step keeps the types.
LEMMA TypeStep ==
  ASSUME TypeOK, [Next]_vars
  PROVE  TypeOK'
  <1> USE DEF Now, airtable, clock, sub, history
  <1> DEFINE Log  == log' \in Seq(Payload) /\ kept' \in Nat /\ pingDue' \in BOOLEAN
             Sub  == /\ due' \in BOOLEAN /\ reconcileDue' \in BOOLEAN
                     /\ cursor' \in Nat /\ anchor' \in Nat \cup {-1} /\ paused' \in BOOLEAN
             Poll == inflight' \in Runs \cup {NULL} /\ pass' \in PassType
                     /\ run' \in [Runs -> RunType]
             Task == task' \in [Runs -> TaskType] /\ full' \in [Runs -> {"none", "running"}]
             Data == /\ shown' \in [Cells -> Nat] /\ shadow' \subseteq Nat
                     /\ reverted' \in BOOLEAN /\ faults' \in Nat
  <1>0. /\ log \in Seq(Payload) /\ kept \in Nat /\ pingDue \in BOOLEAN
        /\ due \in BOOLEAN /\ reconcileDue \in BOOLEAN
        /\ cursor \in Nat /\ anchor \in Nat \cup {-1} /\ paused \in BOOLEAN
        /\ inflight \in Runs \cup {NULL} /\ pass \in PassType /\ run \in [Runs -> RunType]
        /\ task \in [Runs -> TaskType] /\ full \in [Runs -> {"none", "running"}]
        /\ shown \in [Cells -> Nat] /\ shadow \subseteq Nat /\ reverted \in BOOLEAN
        /\ faults \in Nat /\ Now \in Nat /\ Unstarted \in RunType
    BY TypeIs, FreshType
  <1>1. SUFFICES Log /\ Sub /\ Poll /\ Task /\ Data
    <2> HIDE DEF Now, airtable, clock, sub, history
    <2>1. (Log /\ Sub /\ Poll /\ Task /\ Data) => TypeOK'
      BY Zenon DEF TypeOK, Payload, PassPcs, PassType, RunType, TaskType
    <2>2. QED
      BY <2>1
  <1>2. ASSUME Fault
        PROVE  faults' \in Nat
    BY <1>0, <1>2 DEF Fault
  <1>3. CASE Change
    <2>1. PICK c \in Cells, o \in BOOLEAN : log' = Append(log, [cell |-> c, opaque |-> o])
      BY <1>3 DEF Change
    <2>2. [cell |-> c, opaque |-> o] \in Payload
      BY DEF Payload
    <2>3. log' \in Seq(Payload)
      BY <1>0, <2>1, <2>2
    <2>4. QED
      BY <1>0, <1>3, <2>3 DEF Change
  <1>4. CASE Expire
    BY <1>0, <1>2, <1>4 DEF Expire
  <1>5. CASE PingRecorded
    <2>1. /\ UNCHANGED <<log, kept, reconcileDue, sub, paused, inflight, run, task,
                         full, shown, history>>
          /\ due' \in BOOLEAN /\ pingDue' \in BOOLEAN
      BY <1>0, <1>5 DEF PingRecorded
    <2>2. faults' \in Nat
      BY <1>0, <1>2, <1>5 DEF PingRecorded
    <2>3. pass' \in PassType
      BY <1>5, PassMoves
    <2>4. QED
      BY <1>0, <2>1, <2>2, <2>3
  <1>6. CASE PingLost \/ Park
    BY <1>0, <1>2, <1>6 DEF PingLost, Park
  <1>7. CASE Day \/ Week
    BY <1>0, <1>7 DEF Day, Week
  <1>8. CASE PassFetch \/ PassSkips \/ PassDecide
    <2>1. pass' \in PassType
      BY <1>8, PassMoves
    <2>2. inflight' \in Runs \cup {NULL}
      BY <1>0, <1>8 DEF PassFetch, PassSkips, PassDecide, StillInFlight
    <2>3. /\ UNCHANGED <<airtable, clock, sub, paused, run, task, full, shown,
                         history, faults>>
      BY <1>8 DEF PassFetch, PassSkips, PassDecide
    <2>4. QED
      BY <1>0, <2>1, <2>2, <2>3
  <1>9. CASE PassInsertRun
    <2>1. pass' \in PassType /\ run' \in [Runs -> RunType]
      BY <1>9, PassMoves
    <2>2. QED
      BY <1>0, <1>9, <2>1 DEF PassInsertRun
  <1>10. ASSUME Enqueued(pass.run)
         PROVE  task' \in [Runs -> TaskType]
    <2>1. CASE pass.run \in Runs
      BY <1>10, <2>1, EnqueuedIs DEF Moved
    <2>2. CASE pass.run \notin Runs
      BY <1>0, <1>10, <2>2 DEF Enqueued
    <2>3. QED
      BY <2>1, <2>2
  <1>11. CASE PassEnqueue
    <2>1. pass' \in PassType /\ task' \in [Runs -> TaskType]
      BY <1>10, <1>11, PassMoves DEF PassEnqueue
    <2>2. QED
      BY <1>0, <1>11, <2>1 DEF PassEnqueue
  <1>12. CASE PassEnqueueFails
    <2>1. pass' \in PassType /\ task' \in [Runs -> TaskType] /\ faults' \in Nat
      BY <1>0, <1>2, <1>10, <1>12, PassMoves DEF PassEnqueueFails
    <2>2. run' \in [Runs -> RunType]
      BY <1>0, <1>12 DEF PassEnqueueFails
    <2>3. QED
      BY <1>0, <1>12, <2>1, <2>2 DEF PassEnqueueFails
  <1>13. CASE PassMarkStarted
    <2> DEFINE u == [status |-> "running", tracked |-> TRUE]
    <2>1. u \in RunType /\ run' = [run EXCEPT ![pass.run] = u]
      BY <1>13 DEF PassMarkStarted, RunType
    <2> HIDE DEF u
    <2>2. run' \in [Runs -> RunType] /\ pass' \in PassType
      BY <1>0, <1>13, <2>1, PassMoves
    <2>3. QED
      BY <1>0, <1>13, <2>2 DEF PassMarkStarted
  <1>14. CASE PassStamp
    <2>1. pass.pinged \in BOOLEAN /\ pass.run \in Runs \cup {NULL} /\ pass' \in PassType
      BY <1>0, <1>14, PassMoves DEF PassType
    <2>2. QED
      BY <1>0, <1>14, <2>1 DEF PassStamp, DueOnceStamped
  <1>15. CASE PassThrows
    <2>1. pass' \in PassType /\ faults' \in Nat
      BY <1>2, <1>15, PassMoves DEF PassThrows
    <2>2. QED
      BY <1>0, <1>15, <2>1 DEF PassThrows
  <1>16. ASSUME NEW r \in Runs, RunStep(r)
         PROVE  Log /\ Sub /\ Poll /\ Task /\ Data
    <2>1. task' \in [Runs -> TaskType]
      BY <1>0, <1>16, TaskMoves DEF RunStep, TaskStep, FullReads, FullFails, Moved
    <2>2. task[r] \in TaskType /\ task[r].cursor \in Nat /\ task[r].to \in Nat
      BY <1>0 DEF TaskType
    <2>3. UNCHANGED <<log, kept, pingDue, due, paused, inflight, pass>>
      BY <1>16, RunFrame
    <2>4. run' \in [Runs -> RunType]
      BY <1>0, <1>16, RunFrame
    <2>5. full' \in [Runs -> {"none", "running"}]
      BY <1>0, <1>16, RunFrame
    <2>6. faults' \in Nat
      BY <1>0, <1>2, <1>16, RunFrame
    <2>7. reconcileDue' \in BOOLEAN /\ anchor' \in Nat \cup {-1} /\ shadow' \subseteq Nat
      <3>1. Changes \subseteq Nat
        BY <1>0 DEF Changes
      <3>2. ASSUME NEW seen, StampAnchor(seen)
            PROVE  /\ reconcileDue' \in BOOLEAN /\ anchor' \in Nat \cup {-1}
                   /\ shadow' \subseteq Nat
        BY <1>0, <3>1, <3>2 DEF StampAnchor
      <3>3. QED
        BY <1>0, <1>16, <3>1, <3>2, RunFrame
    <2>8. cursor' \in Nat
      BY <1>0, <1>16, <2>2, RunFrame DEF Advanced
    <2>9. shown' \in [Cells -> Nat]
      <3>1. \A c \in Cells : Latest(c) \in Nat
        BY <1>0, LatestIs, LastInIs
      <3>2. CASE TaskFetchPage(r)
        <4>1. /\ task'[r].to \in Nat
              /\ shown' = [c \in Cells |-> ShownAfter(c, task[r].cursor, task'[r].to)]
          BY <1>0, <2>1, <3>2, TaskMoves DEF TaskType
        <4>2. \A c \in Cells : ShownAfter(c, task[r].cursor, task'[r].to) \in Nat
          BY <1>0, <2>2, <4>1, ShownAfterIs
        <4>3. QED
          BY <4>1, <4>2
      <3>3. QED
        BY <1>0, <1>16, <3>1, <3>2, RunFrame
    <2>10. reverted' \in BOOLEAN
      <3>1. CASE TaskFetchPage(r)
        <4>1. reverted' = (reverted \/ \E c \in Cells : shown'[c] < shown[c])
          BY <3>1, TaskMoves
        <4>2. (\E c \in Cells : shown'[c] < shown[c]) \in BOOLEAN
          OBVIOUS
        <4>3. QED
          BY <1>0, <4>1, <4>2, Zenon
      <3>2. QED
        BY <1>0, <1>16, <3>1, RunFrame
    <2>11. QED
      BY <1>0, <2>1, <2>3, <2>4, <2>5, <2>6, <2>7, <2>8, <2>9, <2>10
  <1>17. ASSUME NEW r \in Runs, SweepRun(r)
         PROVE  Log /\ Sub /\ Poll /\ Task /\ Data
    BY <1>0, <1>17 DEF SweepRun
  <1>18. CASE UNCHANGED vars
    BY <1>0, <1>18 DEF vars
  <1>19. QED
    BY <1>3, <1>4, <1>5, <1>6, <1>7, <1>8, <1>9, <1>11, <1>12, <1>13, <1>14, <1>15,
       <1>16, <1>17, <1>18, Zenon DEF Next, PassStep, RunStep

-----------------------------------------------------------------------------
(* The invariant.                                                          *)

(* A fresh subscription satisfies every layer.                             *)
THEOREM InitInv == Init => IInv
  <1> SUFFICES ASSUME Init
               PROVE  IInv
    OBVIOUS
  <1>1. /\ Now = 0 /\ \A c : Latest(c) = 0
        /\ anchor = -1 /\ shadow = {} /\ cursor = 1 /\ kept = 1 /\ faults = 0
        /\ due /\ ~ paused /\ inflight = NULL
        /\ \A c \in Cells : shown[c] = 0
        /\ \A r \in Runs : full[r] = "none"
    <2>1. Now = 0
      BY DEF Init, Now
    <2>2. \A c : Latest(c) \in 0..0
      BY <2>1, LatestIs, LastInIs
    <2>3. QED
      BY <2>1, <2>2 DEF Init
  <1>2. /\ pass.pc = "idle" /\ ~ pass.polls /\ pass.run = NULL
        /\ \A r \in Runs : /\ task[r].pc = "none" /\ task[r].to = 0 /\ task[r].seen = 0
                           /\ task[r].anchor = 0
    BY DEF Init, IdlePass, NoTask
  <1>3. TypeOK
    <2>1. NoTask \in TaskType /\ Unstarted \in RunType /\ IdlePass \in PassType
      BY FreshType
    <2>2. log \in Seq(Payload)
      BY DEF Init
    <2>3. /\ run \in [Runs -> RunType] /\ task \in [Runs -> TaskType]
          /\ full \in [Runs -> {"none", "running"}] /\ shown \in [Cells -> Nat]
      BY <2>1 DEF Init
    <2>4. /\ kept \in Nat /\ pingDue \in BOOLEAN /\ due \in BOOLEAN
          /\ reconcileDue \in BOOLEAN /\ cursor \in Nat /\ anchor \in Nat \cup {-1}
          /\ paused \in BOOLEAN /\ inflight \in Runs \cup {NULL} /\ pass \in PassType
          /\ shadow \subseteq Nat /\ reverted \in BOOLEAN /\ faults \in Nat
      BY <2>1 DEF Init
    <2>5. QED
      BY <2>2, <2>3, <2>4, TypeIs, Zenon
  <1>4. LogInv
    BY <1>1, <1>2 DEF LogInv, Reads, Works
  <1>5. PassInv
    BY <1>1, <1>2 DEF PassInv
  <1>6. ReadInv /\ NoChangeLost /\ CursorInv /\ WakeInv
    <2>1. \A c \in Cells : Shown(c)
      BY <1>1 DEF Shown
    <2>2. QED
      BY <1>2, <2>1 DEF ReadInv, NoChangeLost, CursorInv, WakeInv, Behind
  <1>7. CalmInv /\ OneInv
    BY <1>1, <1>2 DEF CalmInv, OneInv, Reads, TaskOver
  <1>8. QED
    BY <1>3, <1>4, <1>5, <1>6, <1>7 DEF IInv

\* The log moves by one change, which is the last one of its cell.
LEMMA LogMoves ==
  ASSUME TypeOK
  PROVE  /\ Now \in Nat /\ \A c \in Cells : Latest(c) \in 0..Now
         /\ UNCHANGED log =>
              /\ Now' = Now /\ Changes' = Changes
              /\ \A c \in Cells : Latest(c)' = Latest(c)
         /\ Change =>
              /\ Now' = Now + 1 /\ Changes \subseteq Changes'
              /\ \A c \in Cells : Latest(c)' \in {Latest(c), Now + 1}
  <1>0. log \in Seq(Payload) /\ Now \in Nat
    BY TypeIs DEF Now
  <1>1. \A c \in Cells : Latest(c) \in 0..Now
    BY <1>0, LatestIs, LastInIs
  <1>2. ASSUME UNCHANGED log
        PROVE  /\ Now' = Now /\ Changes' = Changes
               /\ \A c \in Cells : Latest(c)' = Latest(c)
    BY <1>2 DEF Now, Changes, Latest, LastChangeOf
  <1>3. ASSUME Change
        PROVE  /\ Now' = Now + 1 /\ Changes \subseteq Changes'
               /\ \A c \in Cells : Latest(c)' \in {Latest(c), Now + 1}
    <2>1. PICK d \in Cells, o \in BOOLEAN : log' = Append(log, [cell |-> d, opaque |-> o])
      BY <1>3 DEF Change
    <2> DEFINE e == [cell |-> d, opaque |-> o]
    <2>2. e \in Payload
      BY DEF Payload
    <2>3. Now' = Now + 1
      BY <1>0, <2>1, <2>2 DEF Now
    <2>4. ASSUME NEW c \in Cells
          PROVE  Latest(c)' \in {Latest(c), Now + 1}
      <3>1. Latest(c)' = LastIn(log', c, Now')
        BY DEF Latest, LastChangeOf, LastIn, Now
      <3> HIDE DEF e
      <3>2. LastIn(log', c, Now + 1) = IF e.cell = c THEN Now + 1 ELSE LastIn(log, c, Now)
        BY <1>0, <2>1, <2>2, LastInAppend DEF Now, e
      <3>3. QED
        BY <2>3, <3>1, <3>2, LatestIs
    <2>5. QED
      BY <1>0, <2>3, <2>4 DEF Changes
  <1>4. QED
    BY <1>0, <1>1, <1>2, <1>3

\* Nothing the database holds is lost again, but for what is recorded, and
\* what the anchors vouch for and what they miss only grows.
LEMMA DataMoves ==
  ASSUME TypeOK, LogInv, [Next]_vars
  PROVE  /\ anchor <= anchor' /\ anchor' <= Now' /\ shadow \subseteq shadow'
         /\ shadow' \subseteq Changes' /\ Now <= Now'
         /\ \A c \in Cells : shown'[c] <= Latest(c)'
         /\ reverted => reverted'
         /\ ~ reverted' => \A c \in Cells : Shown(c) => Shown(c)' \/ Latest(c)' = Now + 1
         /\ ~ reverted' => \A c \in Cells : shown[c] <= shown'[c]
  <1>0. /\ anchor \in Nat \cup {-1} /\ anchor <= Now /\ shadow \subseteq Changes
        /\ shown \in [Cells -> Nat] /\ Now \in Nat /\ task \in [Runs -> TaskType]
        /\ \A c \in Cells : Latest(c) \in 0..Now /\ shown[c] <= Latest(c)
        /\ reverted \in BOOLEAN
    BY TypeIs, LogMoves DEF LogInv
  <1>1. CASE /\ UNCHANGED <<anchor, shown, shadow, reverted>>
             /\ UNCHANGED log \/ Change
    BY <1>0, <1>1, LogMoves DEF Shown
  <1>2. ASSUME NEW r \in Runs, RunStep(r)
        PROVE  /\ anchor <= anchor' /\ anchor' <= Now /\ shadow \subseteq shadow'
               /\ shadow' \subseteq Changes
    <2>1. ASSUME NEW seen, StampAnchor(seen)
          PROVE  /\ anchor <= anchor' /\ anchor' <= Now /\ shadow \subseteq shadow'
                 /\ shadow' \subseteq Changes
      BY <1>0, <2>1 DEF StampAnchor
    <2>2. QED
      BY <1>0, <1>2, <2>1, RunFrame
  <1>3. ASSUME NEW r \in Runs, RunStep(r)
        PROVE  /\ \A c \in Cells : shown'[c] \in Nat /\ shown'[c] <= Latest(c)
               /\ reverted => reverted'
               /\ ~ reverted' => \A c \in Cells : shown[c] <= shown'[c]
    <2>1. CASE TaskFetchPage(r)
      <3> DEFINE from == task[r].cursor
                 to == task'[r].to
      <3>1. /\ from \in Nat /\ from \in 1..(Now + 1) /\ to \in from..(Now + 1)
            /\ shown' = [c \in Cells |-> ShownAfter(c, from, to)]
            /\ reverted' = (reverted \/ \E c \in Cells : shown'[c] < shown[c])
        BY <1>0, <2>1, TaskMoves DEF LogInv, Reads, TaskType
      <3>2. (reverted => reverted')
            /\ (~ reverted' => \A c \in Cells : ~ (shown'[c] < shown[c]))
        BY <3>1, Zenon
      <3>3. ASSUME NEW c \in Cells
            PROVE  shown'[c] \in Nat /\ shown'[c] <= Latest(c)
        <4>1. shown'[c] = ShownAfter(c, from, to) /\ to \in Nat
          BY <1>0, <3>1
        <4>2. \A i \in Readable(c, from, to) : i \in 1..Now /\ log[i].cell = c
          BY <1>0, <3>1 DEF Readable
        <4>3. \A i \in 1..Now : log[i].cell = c => i <= Latest(c)
          BY <1>0, LatestIs, LastInIs
        <4>4. QED
          BY <1>0, <3>1, <4>1, <4>2, <4>3, ShownAfterIs
      <3>4. QED
        BY <1>0, <3>2, <3>3
    <2>2. CASE UNCHANGED shown /\ UNCHANGED reverted
      BY <1>0, <2>2
    <2>3. CASE /\ shown' = [c \in Cells |-> IF Latest(c) > task[r].anchor
                                            THEN Latest(c) ELSE shown[c]]
               /\ UNCHANGED reverted
      BY <1>0, <2>3
    <2>4. CASE shown' = [c \in Cells |-> Latest(c)] /\ UNCHANGED reverted
      BY <1>0, <2>4
    <2>5. QED
      BY <1>3, <2>1, <2>2, <2>3, <2>4, RunFrame
  <1>4. ASSUME NEW r \in Runs, RunStep(r), ~ reverted', NEW c \in Cells, Shown(c)
        PROVE  Shown(c)'
    <2>1. shown'[c] = Latest(c) /\ Latest(c)' = Latest(c)
      BY <1>0, <1>3, <1>4, RunFrame, LogMoves DEF Shown
    <2>2. QED
      BY <2>1 DEF Shown
  <1>5. CASE \E r \in Runs : RunStep(r)
    BY <1>0, <1>2, <1>3, <1>4, <1>5, RunFrame, LogMoves
  <1>6. QED
    BY <1>1, <1>5, RestFrame

\* Steps that are not of a run keep the pass to itself or are a step of it.
LEMMA PassFrame ==
  ASSUME [Next]_vars
  PROVE  \/ \E r \in Runs : RunStep(r)
         \/ UNCHANGED pass
         \/ PingRecorded \/ PassFetch \/ PassSkips \/ PassStamp \/ PassThrows
         \/ PassEnqueueFails \/ PassDecide \/ PassInsertRun \/ PassEnqueue
         \/ PassMarkStarted
  <1>1. CASE Change \/ Expire \/ PingLost \/ Park \/ Day \/ Week
    BY <1>1, Zenon DEF Change, Expire, PingLost, Park, Day, Week
  <1>2. CASE \E r \in Runs : SweepRun(r)
    BY <1>2, Zenon DEF SweepRun
  <1>3. CASE UNCHANGED vars
    BY <1>3, Zenon DEF vars
  <1>4. QED
    BY <1>1, <1>2, <1>3, Zenon DEF Next, PassStep, RunStep

\* A task is one that its own step leaves, a fresh one, or as it was.
LEMMA TaskFrame ==
  ASSUME TypeOK, PassInv, [Next]_vars
  PROVE  \/ \E r \in Runs : RunStep(r) /\ Moved(r) /\ UNCHANGED pass
         \/ UNCHANGED task
         \/ /\ Moved(pass.run) /\ pass.run \in Runs /\ pass.pc = "enqueue"
            /\ PassEnqueue \/ PassEnqueueFails
            /\ TaskOver(pass.run)
            /\ task'[pass.run].pc = "queued" /\ task'[pass.run].cursor = pass.cursor
            /\ task'[pass.run].reconcile = pass.reconcile
            /\ task'[pass.run].to = 0 /\ task'[pass.run].seen = 0
  <1>1. ASSUME NEW r \in Runs, RunStep(r)
        PROVE  Moved(r) /\ UNCHANGED pass
    BY <1>1, RunFrame, TaskMoves DEF RunStep, TaskStep, FullReads, FullFails
  <1>2. ASSUME Enqueued(pass.run), PassEnqueue \/ PassEnqueueFails
        PROVE  /\ Moved(pass.run) /\ pass.run \in Runs /\ pass.pc = "enqueue"
               /\ TaskOver(pass.run)
               /\ task'[pass.run].pc = "queued" /\ task'[pass.run].cursor = pass.cursor
               /\ task'[pass.run].reconcile = pass.reconcile
               /\ task'[pass.run].to = 0 /\ task'[pass.run].seen = 0
    <2>1. pass.pc = "enqueue"
      BY <1>2, Zenon DEF PassEnqueue, PassEnqueueFails
    <2>2. pass.run \in Runs
      BY <2>1, TypeIs DEF PassInv, PassType
    <2>3. QED
      BY <1>2, <2>1, <2>2, EnqueuedIs DEF PassInv
  <1>3. QED
    BY <1>1, <1>2, RestFrame

\* The types of the next state.
LEMMA TypesNext ==
  ASSUME TypeOK, [Next]_vars
  PROVE  /\ cursor' \in Nat /\ anchor' \in Nat \cup {-1} /\ faults' \in Nat
         /\ inflight' \in Runs \cup {NULL} /\ pass' \in PassType
         /\ run' \in [Runs -> RunType] /\ task' \in [Runs -> TaskType]
         /\ full' \in [Runs -> {"none", "running"}] /\ shown' \in [Cells -> Nat]
         /\ pass'.run \in Runs \cup {NULL} /\ pass'.pc \in PassPcs
         /\ Now' \in Nat
  <1>1. TypeOK'
    BY TypeStep
  <1>2. /\ cursor' \in Nat /\ anchor' \in Nat \cup {-1} /\ faults' \in Nat
        /\ inflight' \in Runs \cup {NULL} /\ pass' \in PassType
        /\ run' \in [Runs -> RunType] /\ task' \in [Runs -> TaskType]
        /\ full' \in [Runs -> {"none", "running"}] /\ shown' \in [Cells -> Nat]
        /\ log' \in Seq(Payload)
    BY <1>1, Zenon DEF TypeOK, PassPcs, PassType, RunType, TaskType, Payload
  <1>3. pass'.run \in Runs \cup {NULL} /\ pass'.pc \in PassPcs /\ Now' \in Nat
    BY <1>2 DEF PassType, Now
  <1>4. QED
    BY <1>2, <1>3

\* Every step keeps the positions within the log.
LEMMA LogStep ==
  ASSUME TypeOK, LogInv, PassInv, [Next]_vars
  PROVE  LogInv'
  <1>0. /\ Now \in Nat /\ Now' \in Nat /\ Now <= Now' /\ anchor <= anchor'
        /\ anchor \in Nat \cup {-1} /\ anchor' \in Nat \cup {-1}
        /\ cursor \in 1..(Now + 1) /\ pass \in PassType /\ pass' \in PassType
        /\ pass.polls => pass.cursor \in 1..(Now + 1)
        /\ task \in [Runs -> TaskType] /\ task' \in [Runs -> TaskType]
    BY TypesNext, TypeIs, LogMoves, DataMoves DEF LogInv
  <1>1. cursor' \in 1..(Now' + 1)
    <2>1. ASSUME NEW r \in Runs, TaskPostCursor(r), cursor' = Advanced(task[r].to)
          PROVE  cursor' \in 1..(Now' + 1)
      <3>1. task[r].to \in Nat /\ task[r].to <= Now + 1
        BY <1>0 DEF LogInv, TaskType
      <3>2. QED
        BY <1>0, <2>1, <3>1 DEF Advanced
    <2>2. ASSUME NEW r \in Runs, FallbackReset(r), cursor' = task[r].to
          PROVE  cursor' \in 1..(Now' + 1)
      <3>1. /\ task[r].to \in Nat /\ task[r].to <= Now + 1
            /\ task[r].pc = "reset" /\ task[r].to >= 1
        BY <1>0, <2>2 DEF LogInv, TaskType, FallbackReset, TaskAt
      <3>2. QED
        BY <1>0, <2>2, <3>1
    <2>3. QED
      BY <1>0, <2>1, <2>2, RestFrame, RunFrame
  <1>2. pass'.polls => pass'.cursor \in 1..(Now' + 1)
    <2>1. CASE pass'.polls = pass.polls /\ pass'.cursor = pass.cursor
      BY <1>0, <2>1
    <2>2. CASE pass'.polls => pass'.cursor = cursor
      BY <1>0, <2>2
    <2>3. QED
      BY <2>1, <2>2, PassFrame, PassMoves, RunFrame
  <1>3. ASSUME NEW q \in Runs
        PROVE  /\ task'[q].to <= Now' + 1 /\ task'[q].seen <= Now'
               /\ Reads(q)' => task'[q].cursor \in 1..(Now' + 1)
               /\ task'[q].pc \in {"post", "reset"} => task'[q].to >= 1
               /\ Works(q)' /\ task'[q].pc # "queued" => task'[q].anchor <= anchor'
    <2> DEFINE reads == task'[q].pc \in {"queued", "fetch", "post"}
               works == reads \/ task'[q].pc = "drained"
               Goal  == /\ task'[q].to <= Now + 1 /\ task'[q].seen <= Now
                        /\ reads => task'[q].cursor \in 1..(Now + 1)
                        /\ task'[q].pc \in {"post", "reset"} => task'[q].to >= 1
                        /\ works /\ task'[q].pc # "queued" => task'[q].anchor <= anchor'
    <2>1. SUFFICES Goal
      <3>1. task'[q] \in TaskType /\ task'[q].to \in Nat /\ task'[q].seen \in Nat
        BY <1>0 DEF TaskType
      <3>2. QED
        BY <1>0, <3>1 DEF Reads, Works
    <2>2. /\ task[q].to \in Nat /\ task[q].to <= Now + 1
          /\ task[q].seen \in Nat /\ task[q].seen <= Now
          /\ task[q].pc \in {"queued", "fetch", "post"} => task[q].cursor \in 1..(Now + 1)
          /\ task[q].pc \in {"post", "reset"} => task[q].to >= 1
          /\ task[q].pc \in {"fetch", "post", "drained"} => task[q].anchor <= anchor
          /\ task[q].anchor \in Nat \cup {-1} /\ task[q].cursor \in Nat
      BY <1>0 DEF LogInv, TaskType, Reads, Works
    <2>3. task[q].anchor <= anchor => task[q].anchor <= anchor'
      BY <1>0, <2>2
    <2> HIDE DEF LogInv, PassInv
    <2>4. CASE task'[q] = task[q]
      BY <2>2, <2>3, <2>4
    <2>5. CASE /\ q = pass.run /\ pass.pc = "enqueue"
               /\ task'[q].pc = "queued" /\ task'[q].cursor = pass.cursor
               /\ task'[q].to = 0 /\ task'[q].seen = 0
      <3>1. pass.cursor \in 1..(Now + 1)
        BY <1>0, <2>5 DEF PassInv
      <3>2. QED
        BY <1>0, <2>5, <3>1
    <2>6. CASE TaskFetchContext(q)
      <3>1. anchor' = anchor
        BY <2>6 DEF TaskFetchContext, sub
      <3>2. /\ task[q].pc = "queued" /\ task'[q].pc = "fetch"
            /\ task'[q].anchor = anchor /\ task'[q].cursor = task[q].cursor
            /\ task'[q].to = task[q].to /\ task'[q].seen = task[q].seen
        BY <2>6, TaskMoves
      <3>3. anchor <= anchor'
        BY <1>0
      <3>4. QED
        BY <2>2, <3>2, <3>3
    <2>7. CASE TaskFetchPage(q)
      <3>1. /\ task[q].pc = "fetch"
            /\ task'[q].pc \in {"post", "drained"} /\ task'[q].anchor = task[q].anchor
            /\ task'[q].cursor = task[q].cursor /\ task'[q].seen = task[q].seen
            /\ task'[q].to \in task[q].cursor..(Now + 1)
        BY <2>7, TaskMoves
      <3>2. task'[q].to <= Now + 1 /\ task'[q].to >= 1
        BY <1>0, <2>2, <3>1
      <3>3. QED
        BY <2>2, <2>3, <3>1, <3>2
    <2>8. CASE TaskPostCursor(q)
      <3>1. /\ task[q].pc = "post" /\ task'[q].pc \in {"fetch", "drained"}
            /\ task'[q].cursor = task[q].to /\ task'[q].to = 0
            /\ task'[q].anchor = task[q].anchor /\ task'[q].seen = task[q].seen
        BY <2>8, TaskMoves
      <3>2. task'[q].cursor \in 1..(Now + 1) /\ task'[q].to <= Now + 1
        BY <1>0, <2>2, <3>1
      <3>3. QED
        BY <2>2, <2>3, <3>1, <3>2
    <2>9. ASSUME /\ task'[q].to = 0 \/ task'[q].to = Now + 1
                 /\ task'[q].seen = 0 \/ task'[q].seen = Now
                 /\ ~ works /\ (task'[q].pc = "reset" => task'[q].to = Now + 1)
          PROVE  Goal
      BY <1>0, <2>9
    <2>10. CASE TaskReconcile(q) \/ FallbackStartRun(q)
      <3>1. /\ task'[q].pc \in {"succeeded", "stamp"}
            /\ task'[q].seen = Now /\ task'[q].to = 0
        BY <2>10, TaskMoves
      <3>2. QED
        BY <2>9, <3>1
    <2>11. CASE TaskComplete(q) \/ TaskCompletionLost(q)
      <3>1. task'[q] = NoTask
        BY <2>11, TaskMoves
      <3>2. QED
        BY <2>9, <3>1 DEF NoTask
    <2>12. CASE TaskFails(q) \/ TaskSignalsGap(q) \/ FallbackStamp(q)
                \/ FallbackReadLatest(q) \/ FallbackReset(q)
      <3>1. CASE FallbackReadLatest(q)
        <4>1. /\ \/ task'[q].pc = "reset" /\ task'[q].to = Now + 1
                 \/ task'[q].pc = "failed" /\ task'[q].to = 0
              /\ task'[q].seen = 0
          BY <3>1, TaskMoves
        <4>2. QED
          BY <2>9, <4>1
      <3>2. CASE TaskFails(q) \/ TaskSignalsGap(q) \/ FallbackStamp(q) \/ FallbackReset(q)
        <4>1. /\ task'[q].pc \in {"failed", "none", "fallback", "latest"}
              /\ task'[q].to = 0 /\ task'[q].seen = 0
          BY <3>2, TaskMoves
        <4>2. QED
          BY <2>9, <4>1
      <3>3. QED
        BY <2>12, <3>1, <3>2
    <2>13. CASE FullReads(q) \/ FullFails(q)
      <3>1. FullOver(q)
        BY <2>13 DEF FullReads, FullFails
      <3>2. \/ /\ task[q].pc = "stamp" /\ task'[q].pc = "stamp"
               /\ task'[q].seen = Now /\ task'[q].to = task[q].to
            \/ UNCHANGED task
        BY <3>1, TaskMoves
      <3>3. CASE /\ task[q].pc = "stamp" /\ task'[q].pc = "stamp"
                 /\ task'[q].seen = Now /\ task'[q].to = task[q].to
        BY <1>0, <2>2, <3>3
      <3>4. QED
        BY <2>4, <3>2, <3>3
    <2>14. QED
      BY <2>4, <2>5, <2>6, <2>7, <2>8, <2>10, <2>11, <2>12, <2>13, TaskFrame
      DEF RunStep, TaskStep, Moved
  <1>4. QED
    BY <1>0, <1>1, <1>2, <1>3, DataMoves DEF LogInv


\* A run's own steps start no task.
LEMMA OverStays ==
  ASSUME TypeOK, NEW r \in Runs, RunStep(r), NEW q \in Runs, TaskOver(q)
  PROVE  TaskOver(q)'
  <1>1. Moved(r)
    BY TaskMoves DEF RunStep, TaskStep, FullReads, FullFails
  <1>2. CASE q # r
    BY <1>1, <1>2 DEF Moved, TaskOver
  <1>3. CASE q = r
    <2>1. FullOver(r)
      BY <1>3, TaskMoves DEF RunStep, TaskStep, FullReads, FullFails, TaskOver, TaskFails
    <2>2. UNCHANGED task
      BY <1>3, <2>1, TaskMoves DEF TaskOver
    <2>3. QED
      BY <2>2 DEF TaskOver
  <1>4. QED
    BY <1>2, <1>3

\* Only the stamp of a pass clears the watermark.
LEMMA DueFrame ==
  ASSUME [Next]_vars
  PROVE  (due => due') \/ PassStamp
  <1> USE DEF clock
  <1>1. CASE \/ Change \/ Expire \/ PingRecorded \/ PingLost \/ Park \/ Day \/ Week
             \/ PassEnqueueFails \/ PassThrows \/ UNCHANGED vars
    BY <1>1, Zenon DEF Change, Expire, PingRecorded, PingLost, Park, Day, Week,
       PassEnqueueFails, PassThrows, vars
  <1>2. CASE PassStep
    BY <1>2, Zenon DEF PassStep, PassFetch, PassSkips, PassDecide, PassInsertRun,
       PassEnqueue, PassMarkStarted
  <1>3. CASE \E r \in Runs : RunStep(r)
    BY <1>3, RunFrame
  <1>4. ASSUME NEW r \in Runs, SweepRun(r)
        PROVE  UNCHANGED due
    BY <1>4 DEF SweepRun
  <1>5. QED
    BY <1>1, <1>2, <1>3, <1>4, Zenon DEF Next, RunStep

\* Every step keeps what the pass holds.
LEMMA PassInvStep ==
  ASSUME TypeOK, PassInv, [Next]_vars
  PROVE  PassInv'
  <1>0. pass.pc \in PassPcs /\ pass'.pc \in PassPcs
    BY TypeIs, TypesNext DEF PassType
  <1> DEFINE Goal == /\ pass'.pc \in {"idle", "fetched", "insert"} <=> pass'.run = NULL
                     /\ pass'.pc = "enqueue" => task'[pass'.run].pc = "none"
                     /\ pass'.pc \in {"insert", "enqueue"} => pass'.polls
                     /\ pass'.polls => due'
  <1>1. SUFFICES Goal
    BY DEF PassInv, TaskOver
  <1>2. CASE \E r \in Runs : RunStep(r)
    <2>1. PICK r \in Runs : RunStep(r)
      BY <1>2
    <2>2. UNCHANGED <<pass, due>>
      BY <2>1, RunFrame
    <2>3. pass.pc = "enqueue" => pass.run \in Runs
      BY TypeIs DEF PassInv, PassType
    <2>4. pass.pc = "enqueue" => task'[pass.run].pc = "none"
      BY <2>1, <2>3, OverStays DEF PassInv, TaskOver
    <2>5. QED
      BY <2>2, <2>4 DEF PassInv
  <1>3. CASE UNCHANGED <<pass, task>> /\ ~ PassStamp
    BY <1>3, DueFrame DEF PassInv, TaskOver
  <1>4. ASSUME ~ \E r \in Runs : RunStep(r), ~ PassEnqueue, ~ PassEnqueueFails
        PROVE  UNCHANGED task
    BY <1>4, RestFrame
  <1>5. CASE PingRecorded
    <2>1. /\ pass'.pc = pass.pc /\ pass'.polls = pass.polls /\ pass'.run = pass.run
          /\ UNCHANGED task /\ due'
      BY <1>5, PassMoves DEF PingRecorded
    <2>2. QED
      BY <2>1 DEF PassInv, TaskOver
  <1>6. CASE PassFetch
    <2>1. /\ pass'.pc = "fetched" /\ pass'.run = NULL /\ (pass'.polls => due)
          /\ UNCHANGED due
      BY <1>6, PassMoves DEF PassFetch, clock
    <2>2. QED
      BY <2>1
  <1>7. CASE PassSkips \/ PassStamp \/ PassThrows \/ PassEnqueueFails
    BY <1>7, PassMoves
  <1>8. CASE PassDecide
    <2>1. /\ pass.pc = "fetched" /\ pass'.pc = "insert" /\ pass.polls /\ pass'.polls
          /\ pass'.run = pass.run /\ UNCHANGED due
      BY <1>8, PassMoves DEF PassDecide, clock
    <2>2. QED
      BY <2>1 DEF PassInv
  <1>9. CASE PassInsertRun
    <2>1. PICK r \in Runs : /\ pass'.pc = "enqueue" /\ pass.pc = "insert" /\ pass'.run = r
                            /\ FreeRun(r) /\ pass'.polls = pass.polls
      BY <1>9, PassMoves
    <2>2. UNCHANGED <<due, task>>
      BY <1>9 DEF PassInsertRun, clock
    <2>3. QED
      BY <2>1, <2>2, NullAssumption DEF PassInv, FreeRun, TaskOver
  <1>10. CASE PassEnqueue \/ PassMarkStarted
    <2>1. /\ pass.pc \in {"enqueue", "start"} /\ pass'.pc \in {"start", "stamp"}
          /\ pass'.run = pass.run /\ (pass'.polls => pass.polls)
      BY <1>10, PassMoves
    <2>2. UNCHANGED due
      BY <1>10 DEF PassEnqueue, PassMarkStarted, clock
    <2>3. QED
      BY <2>1, <2>2 DEF PassInv
  <1>11. QED
    BY <1>2, <1>3, <1>4, <1>5, <1>6, <1>7, <1>8, <1>9, <1>10, PassFrame

\* Every step keeps what the anchors vouch for.
LEMMA ReadStep ==
  ASSUME TypeOK, LogInv, PassInv, ReadInv, NoChangeLost, [Next]_vars
  PROVE  ReadInv' /\ NoChangeLost'
  <1> SUFFICES ASSUME ~ reverted', NEW c \in Cells
               PROVE  /\ \A r \in Runs :
                           /\ task'[r].pc = "succeeded" /\ task'[r].reconcile =>
                                Shown(c)' \/ Latest(c)' > task'[r].seen
                                \/ Latest(c)' <= anchor'
                           /\ task'[r].pc = "stamp" /\ full'[r] # "running" =>
                                Shown(c)' \/ Latest(c)' > task'[r].seen
                                \/ Latest(c)' \in shadow'
                      /\ Shown(c)' \/ Recoverable(c)' \/ Latest(c)' \in shadow'
    BY DEF ReadInv, NoChangeLost
  <1>1. ~ reverted /\ anchor <= anchor' /\ anchor' <= Now' /\ Now <= Now'
        /\ shadow \subseteq shadow'
        /\ (Shown(c) => Shown(c)' \/ Latest(c)' = Now + 1)
    BY DataMoves
  <1>2. /\ Now \in Nat /\ Now' \in Nat /\ Latest(c) \in 0..Now
        /\ anchor \in Nat \cup {-1} /\ anchor' \in Nat \cup {-1}
        /\ task \in [Runs -> TaskType] /\ full \in [Runs -> {"none", "running"}]
        /\ shadow \subseteq Changes /\ anchor <= Now
    BY TypeIs, TypesNext, LogMoves DEF LogInv
  <1>3. \A r \in Runs : task[r].seen \in Nat /\ task[r].seen <= Now
    BY <1>2 DEF LogInv, TaskType
  <1>4. /\ \A r \in Runs :
             /\ task[r].pc = "succeeded" /\ task[r].reconcile =>
                  Shown(c) \/ Latest(c) > task[r].seen \/ Latest(c) <= anchor
             /\ task[r].pc = "stamp" /\ full[r] # "running" =>
                  Shown(c) \/ Latest(c) > task[r].seen \/ Latest(c) \in shadow
        /\ Shown(c) \/ Recoverable(c) \/ Latest(c) \in shadow
    BY <1>1 DEF ReadInv, NoChangeLost
  <1> DEFINE Safe == Shown(c)' \/ Recoverable(c)' \/ Latest(c)' \in shadow'
             Read(q) == task'[q].pc = "succeeded" /\ task'[q].reconcile =>
                          Shown(c)' \/ Latest(c)' > task'[q].seen \/ Latest(c)' <= anchor'
             Full(q) == task'[q].pc = "stamp" /\ full'[q] # "running" =>
                          Shown(c)' \/ Latest(c)' > task'[q].seen \/ Latest(c)' \in shadow'
  \* A task that stands still keeps what it has read.
  <1>5. ASSUME NEW q \in Runs, task'[q] = task[q], full'[q] = full[q],
               Latest(c)' \in {Latest(c), Now + 1}
        PROVE  Read(q) /\ Full(q)
    <2>1. CASE Latest(c)' = Now + 1
      BY <1>2, <1>3, <1>5, <2>1
    <2>2. CASE Latest(c)' = Latest(c)
      <3>1. Shown(c) => Shown(c)'
        BY <1>1, <1>2, <2>2
      <3>2. Latest(c) <= anchor => Latest(c)' <= anchor'
        BY <1>1, <1>2, <2>2
      <3>3. QED
        BY <1>1, <1>4, <1>5, <2>2, <3>1, <3>2
    <2>3. QED
      BY <1>5, <2>1, <2>2
  <1>6. CASE ~ \E r \in Runs : RunStep(r)
    <2>1. /\ UNCHANGED <<anchor, full, shown, shadow>>
          /\ UNCHANGED log \/ Change
      BY <1>6, RestFrame
    <2>2. Latest(c)' \in {Latest(c), Now + 1}
      BY <2>1, LogMoves
    <2>3. ASSUME NEW q \in Runs
          PROVE  Read(q) /\ Full(q)
      <3>1. task'[q] = task[q] \/ task'[q].pc = "queued"
        BY <1>6, TaskFrame DEF Moved
      <3>2. QED
        BY <1>5, <2>1, <2>2, <3>1
    <2>4. Safe
      <3>1. CASE Latest(c)' = Now + 1
        BY <1>2, <2>1, <3>1 DEF Recoverable
      <3>2. CASE Latest(c)' = Latest(c)
        BY <1>4, <2>1, <3>2 DEF Recoverable, Shown, FullRunning
      <3>3. QED
        BY <2>2, <3>1, <3>2
    <2>5. QED
      BY <2>3, <2>4
  <1>7. ASSUME NEW r \in Runs, RunStep(r)
        PROVE  Safe /\ \A q \in Runs : Read(q) /\ Full(q)
    <2>1. Latest(c)' = Latest(c) /\ Changes' = Changes /\ Moved(r)
      BY <1>7, RunFrame, LogMoves, TaskMoves
      DEF RunStep, TaskStep, FullReads, FullFails
    <2>2. Shown(c) => Shown(c)'
      BY <1>1, <1>2, <2>1
    <2>3. \A q \in Runs \ {r} : full'[q] = full[q]
      BY <1>2, <1>7, RunFrame
    <2>4. \A q \in Runs \ {r} : Read(q) /\ Full(q)
      BY <1>5, <2>1, <2>3 DEF Moved
    \* The full re-read is over: it has read everything, or says so.
    <2>5. ASSUME FullReads(r) \/ FullFails(r)
          PROVE  Shown(c)' \/ Latest(c)' \in shadow'
      <3>1. CASE FullReads(r)
        <4>1. shown'[c] = Latest(c)
          BY <3>1 DEF FullReads
        <4>2. QED
          BY <2>1, <4>1 DEF Shown
      <3>2. CASE FullFails(r)
        <4>1. shadow' = Changes /\ UNCHANGED shown
          BY <3>2 DEF FullFails
        <4>2. CASE Latest(c) = 0
          <5>1. shown[c] \in Nat /\ shown[c] <= 0
            BY <4>2, TypeIs DEF LogInv
          <5>2. Shown(c)
            BY <4>2, <5>1 DEF Shown
          <5>3. QED
            BY <2>2, <5>2
        <4>3. CASE Latest(c) # 0
          BY <1>2, <2>1, <4>1, <4>3 DEF Changes
        <4>4. QED
          BY <4>2, <4>3
      <3>3. QED
        BY <2>5, <3>1, <3>2
    <2>6. Read(r)
      <3>1. CASE TaskReconcile(r)
        <4>1. task'[r].reconcile = task[r].reconcile /\ task[r].pc = "drained"
          BY <3>1, TaskMoves
        <4>2. CASE ~ task[r].reconcile
          BY <4>1, <4>2
        <4>3. CASE task[r].reconcile
          <5>1. shown'[c] = IF Latest(c) > task[r].anchor THEN Latest(c) ELSE shown[c]
            BY <3>1, <4>3 DEF TaskReconcile
          <5>2. task[r].anchor <= anchor /\ task[r].anchor \in Nat \cup {-1}
            BY <1>2, <4>1 DEF LogInv, Works, TaskType
          <5>3. CASE Latest(c) > task[r].anchor
            BY <2>1, <5>1, <5>3 DEF Shown
          <5>4. CASE ~ (Latest(c) > task[r].anchor)
            BY <1>1, <1>2, <2>1, <5>2, <5>4
          <5>5. QED
            BY <5>3, <5>4
        <4>4. QED
          BY <4>2, <4>3
      <3>2. CASE FullReads(r) \/ FullFails(r)
        <4>1. FullOver(r)
          BY <3>2 DEF FullReads, FullFails
        <4>2. task'[r].pc = "succeeded" => task'[r] = task[r]
          BY <4>1, TaskMoves
        <4>3. task'[r] = task[r] => Read(r)
          BY <1>1, <1>2, <1>4, <2>1, <2>2
        <4>4. QED
          BY <4>2, <4>3
      <3>3. CASE ~ (TaskReconcile(r) \/ FullReads(r) \/ FullFails(r))
        <4>1. NoTask.pc = "none"
          BY DEF NoTask
        <4>2. task'[r].pc # "succeeded"
          BY <1>7, <3>3, <4>1, TaskMoves DEF RunStep, TaskStep
        <4>3. QED
          BY <4>2
      <3>4. QED
        BY <3>1, <3>2, <3>3
    <2>7. Full(r)
      <3>1. CASE FullReads(r) \/ FullFails(r)
        BY <2>5, <3>1
      <3>2. CASE FallbackStartRun(r)
        <4>1. full'[r] = "running"
          BY <1>2, <3>2 DEF FallbackStartRun
        <4>2. QED
          BY <4>1
      <3>3. CASE ~ (FallbackStartRun(r) \/ FullReads(r) \/ FullFails(r))
        <4>1. NoTask.pc = "none"
          BY DEF NoTask
        <4>2. task'[r].pc # "stamp"
          BY <1>7, <3>3, <4>1, TaskMoves DEF RunStep, TaskStep
        <4>3. QED
          BY <4>2
      <3>4. QED
        BY <3>1, <3>2, <3>3
    <2>8. Safe
      <3>1. CASE FullReads(r) \/ FullFails(r)
        BY <2>5, <3>1
      <3>2. CASE TaskComplete(r) /\ StampAnchor(task[r].seen)
                 /\ task[r].pc = "succeeded" /\ task[r].reconcile
        <4>1. /\ anchor' = Now /\ shadow' = shadow \cup {i \in Changes : i > task[r].seen}
              /\ UNCHANGED full
          BY <3>2 DEF StampAnchor, TaskComplete
        <4>2. Shown(c) \/ Latest(c) > task[r].seen \/ Latest(c) <= anchor
          BY <1>4, <3>2
        <4>3. CASE Latest(c) > task[r].seen
          BY <1>2, <1>3, <2>1, <4>1, <4>3 DEF Changes
        <4>4. CASE Latest(c) <= anchor
          <5>1. Shown(c) \/ FullRunning \/ Latest(c) \in shadow
            BY <1>2, <1>4, <4>4 DEF Recoverable
          <5>2. FullRunning => FullRunning'
            BY <4>1 DEF FullRunning
          <5>3. QED
            BY <1>1, <2>1, <2>2, <5>1, <5>2 DEF Recoverable
        <4>5. QED
          BY <2>2, <4>2, <4>3, <4>4
      <3>3. CASE FallbackStamp(r)
        <4>1. /\ StampAnchor(IF full[r] = "running" THEN Now ELSE task[r].seen)
              /\ task[r].pc = "stamp" /\ UNCHANGED full
          BY <3>3 DEF FallbackStamp, TaskAt
        <4>2. CASE full[r] = "running"
          BY <4>1, <4>2 DEF Recoverable, FullRunning
        <4>3. CASE full[r] # "running"
          <5>1. shadow' = shadow \cup {i \in Changes : i > task[r].seen}
            BY <4>1, <4>3 DEF StampAnchor
          <5>2. Shown(c) \/ Latest(c) > task[r].seen \/ Latest(c) \in shadow
            BY <1>4, <4>1, <4>3
          <5>3. CASE Latest(c) > task[r].seen
            BY <1>2, <1>3, <2>1, <5>1, <5>3 DEF Changes
          <5>4. QED
            BY <1>1, <2>1, <2>2, <5>2, <5>3
        <4>4. QED
          BY <4>2, <4>3
      <3>4. CASE UNCHANGED anchor /\ ~ (FullReads(r) \/ FullFails(r))
        <4>1. FullRunning => FullRunning'
          <5>1. \A q \in Runs : full[q] = "running" => full'[q] = "running"
            BY <1>2, <1>7, <2>3, <3>4, RunFrame
          <5>2. QED
            BY <5>1 DEF FullRunning
        <4>2. QED
          BY <1>1, <1>4, <2>1, <2>2, <3>4, <4>1 DEF Recoverable
      <3>5. QED
        BY <1>7, <3>1, <3>2, <3>3, <3>4, RunFrame
    <2>9. QED
      BY <2>4, <2>6, <2>7, <2>8
  <1>8. QED
    BY <1>6, <1>7

\* While nothing fails, the steps left.
CalmRunStep(r) == \/ TaskFetchContext(r) \/ TaskFetchPage(r) \/ TaskPostCursor(r)
                  \/ TaskReconcile(r) \/ TaskComplete(r)
LEMMA CalmNext ==
  ASSUME TypeOK, LogInv, CalmInv, [Next]_vars, faults' = 0
  PROVE  /\ faults = 0 /\ UNCHANGED <<kept, paused, full>> /\ cursor <= cursor'
         /\ \/ Change \/ PingRecorded \/ Day \/ Week \/ PassStep \/ UNCHANGED vars
            \/ \E r \in Runs : CalmRunStep(r) \/ SweepRun(r)
         /\ \A r \in Runs : RunStep(r) => CalmRunStep(r)
  <1>0. faults \in Nat /\ cursor \in Nat /\ task \in [Runs -> TaskType]
        /\ full \in [Runs -> {"none", "running"}]
    BY TypeIs
  <1>1. ~ Fault
    BY <1>0 DEF Fault
  <1>2. faults = 0
    BY <1>0, <1>1, RestFrame, RunFrame
  <1>3. /\ kept = 1 /\ ~ paused
        /\ \A r \in Runs : /\ full[r] = "none"
                           /\ task[r].pc \in {"none", "succeeded", "queued", "fetch",
                                              "post", "drained"}
                           /\ task[r].pc = "fetch" => task[r].cursor \in 1..(Now + 1)
    BY <1>2 DEF CalmInv, LogInv, Works, Reads
  <1>4. ASSUME NEW r \in Runs, RunStep(r)
        PROVE  CalmRunStep(r)
    <2>1. ~ (TaskFails(r) \/ TaskCompletionLost(r))
      BY <1>1 DEF TaskFails, TaskCompletionLost
    <2>2. ~ (FullReads(r) \/ FullFails(r))
      BY <1>3 DEF FullReads, FullFails, FullOver
    <2>3. ~ TaskSignalsGap(r)
      <3>1. ASSUME TaskSignalsGap(r)
            PROVE  FALSE
        <4>1. task[r].pc = "fetch" /\ (task[r].cursor < kept \/ Fault)
          BY <3>1 DEF TaskSignalsGap, TaskAt
        <4>2. Now \in Nat
          BY LogMoves
        <4>3. QED
          BY <1>1, <1>3, <4>1, <4>2
      <3>2. QED
        BY <3>1
    <2>4. ~ (FallbackStartRun(r) \/ FallbackStamp(r) \/ FallbackReadLatest(r)
             \/ FallbackReset(r))
      BY <1>3 DEF FallbackStartRun, FallbackStamp, FallbackReadLatest, FallbackReset, TaskAt
    <2>5. QED
      BY <1>4, <2>1, <2>2, <2>3, <2>4 DEF RunStep, TaskStep, CalmRunStep
  <1>5. ~ (Expire \/ PingLost \/ Park \/ PassEnqueueFails \/ PassThrows)
    BY <1>1 DEF Expire, PingLost, Park, PassEnqueueFails, PassThrows
  <1>6. \/ Change \/ PingRecorded \/ Day \/ Week \/ PassStep \/ UNCHANGED vars
        \/ \E r \in Runs : CalmRunStep(r) \/ SweepRun(r)
    BY <1>4, <1>5, Zenon DEF Next, RunStep
  <1>7. UNCHANGED <<kept, paused, full>>
    <2>1. CASE \/ Change \/ PingRecorded \/ Day \/ Week \/ UNCHANGED vars
      BY <2>1, Zenon DEF Change, PingRecorded, Day, Week, vars, airtable
    <2>2. CASE PassStep
      BY <2>2, Zenon DEF PassStep, PassFetch, PassSkips, PassDecide, PassInsertRun,
         PassEnqueue, PassMarkStarted, PassStamp, airtable
    <2>3. ASSUME NEW r \in Runs, CalmRunStep(r)
          PROVE  UNCHANGED <<kept, paused, full>>
      BY <2>3, Zenon DEF CalmRunStep, TaskFetchContext, TaskFetchPage, TaskPostCursor,
         TaskReconcile, TaskComplete, airtable
    <2>4. ASSUME NEW r \in Runs, SweepRun(r)
          PROVE  UNCHANGED <<kept, paused, full>>
      BY <2>4, Zenon DEF SweepRun, airtable
    <2>5. QED
      BY <1>6, <2>1, <2>2, <2>3, <2>4
  <1>8. cursor <= cursor'
    <2>1. ASSUME NEW r \in Runs, RunStep(r)
          PROVE  cursor <= cursor'
      <3>1. UNCHANGED cursor \/ cursor' = Advanced(task[r].to)
        BY <1>3, <2>1, RunFrame, TaskMoves
      <3>2. task[r].to \in Nat
        BY <1>0 DEF TaskType
      <3>3. QED
        BY <1>0, <3>1, <3>2 DEF Advanced
    <2>2. QED
      BY <1>0, <2>1, RestFrame
  <1>9. QED
    BY <1>2, <1>4, <1>6, <1>7, <1>8

\* While nothing fails, nobody starts to fall back.
LEMMA CalmStep ==
  ASSUME TypeOK, LogInv, PassInv, CalmInv, [Next]_vars
  PROVE  CalmInv'
  <1>1. SUFFICES ASSUME faults' = 0
                 PROVE  /\ kept' = 1 /\ ~ paused'
                        /\ \A q \in Runs :
                             /\ full'[q] = "none"
                             /\ task'[q].pc \in {"none", "succeeded"} \/ Works(q)'
                             /\ Reads(q)' => task'[q].cursor <= cursor'
                        /\ pass'.polls => pass'.cursor <= cursor'
    BY DEF CalmInv
  <1>2. /\ faults = 0 /\ UNCHANGED <<kept, paused, full>> /\ cursor <= cursor'
        /\ cursor \in Nat /\ cursor' \in Nat /\ pass \in PassType
        /\ task \in [Runs -> TaskType] /\ task' \in [Runs -> TaskType]
    BY <1>1, CalmNext, TypeIs, TypesNext
  <1>3. /\ kept = 1 /\ ~ paused /\ (pass.polls => pass.cursor <= cursor)
        /\ pass.cursor \in Nat
        /\ \A q \in Runs : /\ full[q] = "none"
                           /\ task[q].pc \in {"none", "succeeded", "queued", "fetch",
                                              "post", "drained"}
                           /\ task[q].pc \in {"queued", "fetch", "post"} =>
                                task[q].cursor <= cursor
                           /\ task[q].cursor \in Nat /\ task[q].to \in Nat
    BY <1>2 DEF CalmInv, Works, Reads, PassType, TaskType
  <1>4. ASSUME NEW q \in Runs
        PROVE  /\ task'[q].pc \in {"none", "succeeded", "queued", "fetch",
                                   "post", "drained"}
               /\ task'[q].pc \in {"queued", "fetch", "post"} => task'[q].cursor <= cursor'
    <2>1. CASE task'[q] = task[q]
      BY <1>2, <1>3, <2>1
    <2>2. CASE /\ pass.pc = "enqueue" /\ task'[q].pc = "queued"
               /\ task'[q].cursor = pass.cursor
      BY <1>2, <1>3, <2>2 DEF PassInv
    <2>3. CASE TaskFetchContext(q) \/ TaskFetchPage(q)
      <3>1. /\ task[q].pc \in {"queued", "fetch"} /\ task'[q].cursor = task[q].cursor
            /\ task'[q].pc \in {"fetch", "post", "drained"}
        BY <2>3, TaskMoves
      <3>2. QED
        BY <1>2, <1>3, <3>1
    <2>4. CASE TaskPostCursor(q)
      <3>1. task'[q].cursor = task[q].to /\ task'[q].pc \in {"fetch", "drained"}
        BY <2>4, TaskMoves
      <3>2. cursor' = Advanced(task[q].to)
        BY <2>4 DEF TaskPostCursor
      <3>3. QED
        BY <1>2, <1>3, <3>1, <3>2 DEF Advanced
    <2>5. CASE TaskReconcile(q) \/ TaskComplete(q)
      <3>1. NoTask.pc = "none"
        BY DEF NoTask
      <3>2. task'[q].pc \in {"none", "succeeded"}
        BY <2>5, <3>1, TaskMoves
      <3>3. QED
        BY <3>2
    <2>6. ASSUME NEW r \in Runs, RunStep(r), Moved(r)
          PROVE  q # r => task'[q] = task[q]
      BY <2>6 DEF Moved
    <2>7. \A r \in Runs : RunStep(r) => CalmRunStep(r)
      BY <1>1, CalmNext
    <2>8. QED
      BY <2>1, <2>2, <2>3, <2>4, <2>5, <2>6, <2>7, TaskFrame DEF CalmRunStep, Moved
  <1>5. pass'.polls => pass'.cursor <= cursor'
    <2>1. CASE pass'.polls = pass.polls /\ pass'.cursor = pass.cursor
      BY <1>2, <1>3, <2>1
    <2>2. CASE pass'.polls => pass'.cursor = cursor
      BY <1>2, <2>2
    <2>3. QED
      BY <2>1, <2>2, PassFrame, PassMoves, RunFrame
  <1>6. QED
    BY <1>2, <1>3, <1>4, <1>5 DEF Works, Reads

\* While nothing fails, the in-flight map keeps the tasks apart.
LEMMA OneStep ==
  ASSUME TypeOK, LogInv, PassInv, CalmInv, OneInv, [Next]_vars
  PROVE  OneInv'
  <1> DEFINE Flies(q) == run'[q].status \in {"queued", "running"}
             Owned(q) == IF pass'.pc \in {"start", "stamp"} THEN q = pass'.run
                         ELSE pass'.pc \in {"idle", "fetched"} /\ q = inflight'
  <1>1. SUFFICES ASSUME faults' = 0
                 PROVE  /\ pass'.pc = "enqueue" => Flies(pass'.run)
                        /\ \A q \in Runs : task'[q].pc # "none" => Flies(q) /\ Owned(q)
    BY Zenon DEF OneInv, InFlight, TaskOver
  <1>2. /\ faults = 0
        /\ \/ Change \/ PingRecorded \/ Day \/ Week \/ PassStep \/ UNCHANGED vars
           \/ \E r \in Runs : CalmRunStep(r) \/ SweepRun(r)
    BY <1>1, CalmNext
  <1>3. /\ pass.pc = "enqueue" => run[pass.run].status \in {"queued", "running"}
        /\ \A q \in Runs : task[q].pc # "none" =>
             /\ run[q].status \in {"queued", "running"}
             /\ IF pass.pc \in {"start", "stamp"} THEN q = pass.run
                ELSE pass.pc \in {"idle", "fetched"} /\ q = inflight
    BY <1>2 DEF OneInv, InFlight, TaskOver
  <1>4. /\ run \in [Runs -> RunType] /\ run' \in [Runs -> RunType]
        /\ task \in [Runs -> TaskType] /\ pass.run \in Runs \cup {NULL}
        /\ pass.pc \in PassPcs
        /\ pass.pc \in {"idle", "fetched", "insert"} <=> pass.run = NULL
    BY TypeIs, TypesNext DEF PassType, PassInv
  <1>5. CASE UNCHANGED <<task, run, inflight>> /\ pass'.pc = pass.pc /\ pass'.run = pass.run
    BY <1>3, <1>5
  <1>6. CASE Change \/ Day \/ Week \/ UNCHANGED vars
    BY <1>5, <1>6 DEF Change, Day, Week, vars
  <1>7. CASE PingRecorded
    <2>1. pass'.pc = pass.pc /\ pass'.run = pass.run
      BY <1>7, PassMoves
    <2>2. QED
      BY <1>5, <1>7, <2>1 DEF PingRecorded
  <1>8. CASE PassFetch
    <2>1. pass.pc = "idle" /\ pass'.pc = "fetched" /\ UNCHANGED <<task, run, inflight>>
      BY <1>8, PassMoves DEF PassFetch
    <2>2. QED
      BY <1>3, <2>1
  <1>9. CASE PassSkips
    <2>1. /\ pass.pc = "fetched" /\ pass'.pc = "idle" /\ UNCHANGED <<task, run>>
          /\ inflight' = StillInFlight
      BY <1>9, PassMoves DEF PassSkips
    <2>2. ASSUME NEW q \in Runs, task[q].pc # "none"
          PROVE  StillInFlight = q
      BY <1>3, <2>1, <2>2, NullAssumption DEF StillInFlight, InFlight
    <2>3. QED
      BY <1>3, <2>1, <2>2
  <1>10. CASE PassDecide
    <2>1. /\ pass.pc = "fetched" /\ pass'.pc = "insert" /\ UNCHANGED <<task, run>>
          /\ StillInFlight = NULL
      BY <1>10, PassMoves DEF PassDecide, Enqueues
    <2>2. \A q \in Runs : task[q].pc = "none"
      BY <1>3, <2>1, NullAssumption DEF StillInFlight, InFlight
    <2>3. QED
      BY <2>1, <2>2
  <1>11. CASE PassInsertRun
    <2>1. /\ pass.pc = "insert" /\ pass'.pc = "enqueue" /\ UNCHANGED task
          /\ run'[pass'.run].status = "queued"
      BY <1>11, PassMoves DEF PassInsertRun
    <2>2. QED
      BY <1>3, <2>1
  <1>12. CASE PassEnqueue
    <2>1. pass.pc = "enqueue" /\ pass'.pc = "start" /\ pass'.run = pass.run /\ UNCHANGED run
      BY <1>12, PassMoves DEF PassEnqueue
    <2>2. pass.run \in Runs
      BY <1>4, <2>1
    <2>3. \A q \in Runs \ {pass.run} : task'[q] = task[q]
      BY <1>12, <2>2, EnqueuedIs DEF PassEnqueue, Moved
    <2>4. QED
      BY <1>3, <2>1, <2>2, <2>3
  <1>13. CASE PassMarkStarted
    <2>1. /\ pass.pc = "start" /\ pass'.pc = "stamp" /\ pass'.run = pass.run
          /\ UNCHANGED task
          /\ run' = [run EXCEPT ![pass.run] = [status |-> "running", tracked |-> TRUE]]
      BY <1>13, PassMoves DEF PassMarkStarted
    <2>2. pass.run \in Runs
      BY <1>4, <2>1
    <2>3. Flies(pass.run)
      BY <1>4, <2>1, <2>2
    <2>4. QED
      BY <1>3, <2>1, <2>3
  <1>14. CASE PassStamp
    <2>1. /\ pass.pc = "stamp" /\ pass'.pc = "idle" /\ inflight' = pass.run
          /\ UNCHANGED <<task, run>>
      BY <1>14, PassMoves DEF PassStamp
    <2>2. QED
      BY <1>3, <2>1
  <1>15. ASSUME NEW r \in Runs, CalmRunStep(r)
         PROVE  /\ pass'.pc = "enqueue" => Flies(pass'.run)
                /\ \A q \in Runs : task'[q].pc # "none" => Flies(q) /\ Owned(q)
    <2>1. RunStep(r)
      BY <1>15 DEF CalmRunStep, RunStep, TaskStep
    <2>2. UNCHANGED <<pass, inflight>>
      BY <2>1, RunFrame
    <2>3. \A q \in Runs : task'[q].pc # "none" => task[q].pc # "none"
      BY <2>1, OverStays DEF TaskOver
    <2>4. CASE UNCHANGED run
      BY <1>3, <2>2, <2>3, <2>4
    <2>5. CASE TaskComplete(r) /\ run' = [run EXCEPT ![r] = Unstarted]
      <3>0. NoTask.pc = "none"
        BY DEF NoTask
      <3>1. task[r].pc # "none" /\ task'[r].pc = "none"
        BY <2>5, <3>0, TaskMoves
      <3>2. \A q \in Runs \ {r} : run'[q] = run[q]
        BY <1>4, <2>5
      <3>3. pass.pc = "enqueue" => pass.run \in Runs /\ pass.run # r
        BY <1>4, <3>1 DEF PassInv, TaskOver
      <3>4. QED
        BY <1>3, <2>2, <2>3, <3>1, <3>2, <3>3
    <2>6. QED
      BY <2>1, <2>4, <2>5, RunFrame
  <1>16. ASSUME NEW r \in Runs, SweepRun(r)
         PROVE  /\ pass'.pc = "enqueue" => Flies(pass'.run)
                /\ \A q \in Runs : task'[q].pc # "none" => Flies(q) /\ Owned(q)
    <2>1. /\ UNCHANGED <<pass, inflight, task>> /\ task[r].pc = "none" /\ pass.run # r
          /\ run' = [run EXCEPT ![r] = Unstarted]
      BY <1>16 DEF SweepRun, TaskOver
    <2>2. \A q \in Runs \ {r} : run'[q] = run[q]
      BY <1>4, <2>1
    <2>3. pass.pc = "enqueue" => pass.run \in Runs
      BY <1>4
    <2>4. QED
      BY <1>3, <2>1, <2>2, <2>3
  <1>17. QED
    BY <1>2, <1>6, <1>7, <1>8, <1>9, <1>10, <1>11, <1>12, <1>13, <1>14, <1>15, <1>16
    DEF PassStep

\* A change that a page passes is in the database or calls for a reconciliation.
LEMMA PageReads ==
  ASSUME TypeOK, LogInv, NEW r \in Runs, TaskFetchPage(r), NEW c \in Cells,
         Latest(c) >= task[r].cursor, Latest(c) < task'[r].to
  PROVE  shown'[c] = Latest(c) \/ task'[r].reconcile
  <1> DEFINE from == task[r].cursor
             to == task'[r].to
             i == Latest(c)
  <1>1. /\ from \in 1..(Now + 1) /\ to \in from..(Now + 1)
        /\ task'[r].reconcile = (task[r].reconcile \/ Suspect(from, to))
        /\ shown' = [d \in Cells |-> ShownAfter(d, from, to)]
    BY TaskMoves DEF LogInv, Reads
  <1>2. Now \in Nat /\ i \in 0..Now /\ shown[c] \in Nat
    BY LogMoves, TypeIs
  <1>3. i \in from..(to - 1) /\ i # 0 /\ to \in Nat /\ from \in Nat
    BY <1>1, <1>2
  <1>4. log[i].cell = c /\ \A j \in 1..Now : log[j].cell = c => j <= i
    BY <1>2, <1>3, LatestIs, LastInIs
  <1> HIDE DEF i
  <1>5. CASE log[i].opaque
    <2>1. Suspect(from, to)
      BY <1>3, <1>5 DEF Suspect
    <2>2. QED
      BY <1>1, <2>1, Zenon
  <1>6. CASE ~ log[i].opaque
    <2>1. i \in Readable(c, from, to)
      BY <1>3, <1>4, <1>6 DEF Readable
    <2>2. /\ ShownAfter(c, from, to) \in Readable(c, from, to)
          /\ i <= ShownAfter(c, from, to)
      BY <1>2, <1>3, <2>1, ShownAfterIs
    <2>3. ShownAfter(c, from, to) \in 1..Now /\ log[ShownAfter(c, from, to)].cell = c
      BY <1>1, <1>2, <2>2 DEF Readable
    <2>4. ShownAfter(c, from, to) = i
      BY <1>2, <1>3, <1>4, <2>2, <2>3
    <2>5. QED
      BY <1>1, <2>4 DEF i
  <1>7. QED
    BY <1>5, <1>6

\* While nothing fails, a reconciliation leaves nothing behind.
LEMMA ReconcileCatchesUp ==
  ASSUME TypeOK, LogInv, NoChangeLost, CalmInv, faults = 0, ~ reverted,
         NEW r \in Runs, TaskReconcile(r), task[r].reconcile, NEW c \in Cells
  PROVE  ~ Behind(c)'
  <1>1. /\ shown'[c] = (IF Latest(c) > task[r].anchor THEN Latest(c) ELSE shown[c])
        /\ UNCHANGED shadow /\ task[r].pc = "drained" /\ UNCHANGED log
    BY DEF TaskReconcile, TaskAt, history, airtable
  <1>2. Latest(c)' = Latest(c) /\ Now \in Nat /\ Latest(c) \in 0..Now
    BY <1>1, LogMoves
  <1>3. ~ FullRunning
    BY DEF CalmInv, FullRunning
  <1>4. /\ task[r].anchor <= anchor /\ task[r].anchor \in Nat \cup {-1}
        /\ anchor \in Nat \cup {-1}
    BY <1>1, TypeIs DEF LogInv, Works, TaskType
  <1>5. Shown(c) \/ Latest(c) > anchor \/ Latest(c) \in shadow
    BY <1>3 DEF NoChangeLost, Recoverable
  <1>6. CASE Latest(c) > task[r].anchor
    BY <1>1, <1>2, <1>6 DEF Behind, Shown
  <1>7. CASE ~ (Latest(c) > task[r].anchor)
    <2>1. Shown(c) \/ Latest(c) \in shadow
      BY <1>2, <1>4, <1>5, <1>7
    <2>2. QED
      BY <1>1, <1>2, <1>7, <2>1 DEF Behind, Shown
  <1>8. QED
    BY <1>6, <1>7

\* While nothing fails, a reconciliation that is called for is done.
LEMMA SuspectingStays ==
  ASSUME TypeOK, LogInv, PassInv, NoChangeLost, CalmInv, [Next]_vars, faults' = 0,
         ~ reverted', Suspecting, NEW c \in Cells, Behind(c)'
  PROVE  Suspecting'
  <1>1. PICK q \in Runs : Works(q) /\ task[q].reconcile
    BY DEF Suspecting
  <1>2. faults = 0 /\ ~ reverted /\ \A r \in Runs : RunStep(r) => CalmRunStep(r)
    BY CalmNext, DataMoves
  <1>3. SUFFICES /\ task'[q].pc \in {"queued", "fetch", "post", "drained"}
                 /\ task'[q].reconcile
    BY DEF Suspecting, Works, Reads
  <1>4. task[q].pc \in {"queued", "fetch", "post", "drained"}
    BY <1>1 DEF Works, Reads
  <1>5. CASE task'[q] = task[q]
    BY <1>1, <1>4, <1>5
  <1>6. CASE TaskFetchContext(q) \/ TaskFetchPage(q) \/ TaskPostCursor(q)
    <2>1. task'[q].pc \in {"fetch", "post", "drained"}
      BY <1>6, TaskMoves
    <2>2. \/ task'[q].reconcile = task[q].reconcile
          \/ task'[q].reconcile = (task[q].reconcile \/ Suspect(task[q].cursor, task'[q].to))
      BY <1>6, TaskMoves
    <2>3. task'[q].reconcile
      BY <1>1, <2>2, Zenon
    <2>4. QED
      BY <2>1, <2>3
  <1>7. ~ TaskReconcile(q)
    BY <1>1, <1>2, ReconcileCatchesUp
  <1>8. ~ TaskComplete(q)
    BY <1>4 DEF TaskComplete
  <1>9. task'[q] # task[q] => CalmRunStep(q)
    BY <1>2, <1>4, TaskFrame DEF Moved, TaskOver
  <1>10. QED
    BY <1>5, <1>6, <1>7, <1>8, <1>9 DEF CalmRunStep

\* What the database lacks it lacked before, or has just changed.
LEMMA BehindStays ==
  ASSUME TypeOK, LogInv, [Next]_vars, ~ reverted', NEW c \in Cells, Behind(c)'
  PROVE  \/ Behind(c) /\ Latest(c)' = Latest(c)
         \/ Latest(c)' = Now + 1 /\ Change
  <1>1. UNCHANGED log \/ Change
    BY RestFrame, RunFrame
  <1>2. Now \in Nat /\ Latest(c) \in 0..Now /\ Latest(c)' \in {Latest(c), Now + 1}
    BY <1>1, LogMoves
  <1>3. CASE Latest(c)' = Now + 1
    BY <1>1, <1>2, <1>3, LogMoves
  <1>4. CASE Latest(c)' = Latest(c)
    BY <1>2, <1>4, DataMoves DEF Behind
  <1>5. QED
    BY <1>2, <1>3, <1>4

\* While nothing fails, the cursor passes nothing that will not be read again.
LEMMA CursorStep ==
  ASSUME TypeOK, LogInv, PassInv, NoChangeLost, CalmInv, CursorInv, [Next]_vars
  PROVE  CursorInv'
  <1>1. SUFFICES ASSUME faults' = 0, ~ reverted', NEW c \in Cells, Behind(c)'
                 PROVE  /\ Latest(c)' >= cursor' \/ Suspecting'
                        /\ \A q \in Runs : task'[q].pc = "post" =>
                             Latest(c)' >= task'[q].to \/ Suspecting'
    BY DEF CursorInv
  <1>2. /\ faults = 0 /\ ~ reverted /\ cursor <= cursor'
        /\ \A r \in Runs : RunStep(r) => CalmRunStep(r)
    BY <1>1, CalmNext, DataMoves
  <1>3. /\ Now \in Nat /\ Latest(c) \in 0..Now /\ cursor \in 1..(Now + 1)
        /\ task \in [Runs -> TaskType] /\ task' \in [Runs -> TaskType]
        /\ \A q \in Runs : task[q].to \in Nat /\ task[q].to <= Now + 1
    BY TypeIs, TypesNext, LogMoves DEF LogInv, TaskType
  <1>4. CASE Latest(c)' = Now + 1 /\ Change
    BY <1>3, <1>4 DEF Change, sub
  <1>5. CASE Behind(c) /\ Latest(c)' = Latest(c)
    <2>1. /\ Latest(c) >= cursor \/ Suspecting
          /\ \A q \in Runs : task[q].pc = "post" => Latest(c) >= task[q].to \/ Suspecting
      BY <1>2, <1>5 DEF CursorInv
    <2>2. Suspecting => Suspecting'
      BY <1>1, SuspectingStays
    <2>3. Latest(c) >= cursor' \/ Suspecting'
      <3>1. CASE UNCHANGED cursor
        BY <2>1, <2>2, <3>1
      <3>2. ASSUME NEW r \in Runs, CalmRunStep(r), cursor' # cursor
            PROVE  Latest(c) >= cursor' \/ Suspecting'
        <4>1. RunStep(r)
          BY <3>2 DEF CalmRunStep, RunStep, TaskStep
        <4>2. TaskPostCursor(r) \/ FallbackReset(r)
          BY <3>2, <4>1, RunFrame
        <4>3. ~ FallbackReset(r)
          BY <3>2, TaskMoves DEF CalmRunStep
        <4>4. cursor' = Advanced(task[r].to) /\ task[r].pc = "post"
          BY <4>2, <4>3 DEF TaskPostCursor, TaskAt
        <4>5. QED
          BY <1>3, <2>1, <2>2, <4>4 DEF Advanced
      <3>3. QED
        BY <1>2, <3>1, <3>2, RestFrame
    <2>4. ASSUME NEW q \in Runs, task'[q].pc = "post"
          PROVE  Latest(c) >= task'[q].to \/ Suspecting'
      <3>1. CASE task'[q] = task[q]
        BY <2>1, <2>2, <2>4, <3>1
      <3>2. CASE TaskFetchPage(q)
        <4>1. CASE Latest(c) < task[q].cursor
          <5>1. task[q].pc = "fetch" /\ task[q].cursor \in Nat
            BY <1>3, <3>2, TaskMoves DEF TaskType
          <5>2. task[q].cursor <= cursor
            BY <1>2, <5>1 DEF CalmInv, Reads
          <5>3. QED
            BY <1>3, <2>1, <2>2, <4>1, <5>1, <5>2
        <4>2. CASE task'[q].reconcile
          <5>1. QED
            BY <2>4, <4>2 DEF Suspecting, Works, Reads
        <4>3. CASE Latest(c) >= task[q].cursor /\ ~ task'[q].reconcile
          <5>1. shown'[c] # Latest(c)
            BY <1>1, <1>5 DEF Behind, Shown
          <5>2. ~ (Latest(c) < task'[q].to)
            BY <3>2, <4>3, <5>1, PageReads
          <5>3. task'[q].to \in Nat
            BY <1>3 DEF TaskType
          <5>4. QED
            BY <1>3, <5>2, <5>3
        <4>4. task[q].cursor \in Nat
          BY <1>3 DEF TaskType
        <4>5. QED
          BY <1>3, <4>1, <4>2, <4>3, <4>4
      <3>3. task'[q] # task[q] => CalmRunStep(q)
        BY <1>2, <2>4, TaskFrame DEF Moved
      <3>4. ~ (TaskFetchContext(q) \/ TaskPostCursor(q) \/ TaskReconcile(q))
        BY <2>4, TaskMoves
      <3>5. ~ TaskComplete(q)
        <4>1. NoTask.pc = "none"
          BY DEF NoTask
        <4>2. QED
          BY <2>4, <4>1, TaskMoves
      <3>6. QED
        BY <3>1, <3>2, <3>3, <3>4, <3>5 DEF CalmRunStep
    <2>5. QED
      BY <1>5, <2>3, <2>4
  <1>6. QED
    BY <1>1, <1>4, <1>5, BehindStays

\* While nothing fails, what a task under way will read it reads, or will still.
LEMMA WillReadStays ==
  ASSUME TypeOK, LogInv, NoChangeLost, CalmInv, faults = 0, ~ reverted, ~ reverted',
         NEW r \in Runs, CalmRunStep(r), NEW c \in Cells, Behind(c)',
         Latest(c)' = Latest(c), NEW q \in Runs, WillRead(q, c)
  PROVE  WillRead(q, c)'
  <1> DEFINE works(s) == s \in {"queued", "fetch", "post", "drained"}
  <1>1. /\ works(task[q].pc)
        /\ \/ task[q].reconcile
           \/ task[q].pc \in {"queued", "fetch"} /\ Latest(c) >= task[q].cursor
           \/ task[q].pc = "post" /\ task[q].more /\ Latest(c) >= task[q].to
    BY DEF WillRead, Works, Reads
  <1>2. SUFFICES /\ works(task'[q].pc)
                 /\ \/ task'[q].reconcile
                    \/ task'[q].pc \in {"queued", "fetch"} /\ Latest(c) >= task'[q].cursor
                    \/ task'[q].pc = "post" /\ task'[q].more /\ Latest(c) >= task'[q].to
    BY DEF WillRead, Works, Reads
  <1>3. RunStep(r) /\ Moved(r)
    BY TaskMoves DEF CalmRunStep, RunStep, TaskStep
  <1>4. CASE q # r
    <2>1. task'[q] = task[q]
      BY <1>3, <1>4 DEF Moved
    <2>2. QED
      BY <1>1, <2>1
  <1>5. CASE TaskFetchContext(q)
    <2>1. /\ task[q].pc = "queued" /\ task'[q].pc = "fetch"
          /\ task'[q].cursor = task[q].cursor /\ task'[q].reconcile = task[q].reconcile
      BY <1>5, TaskMoves
    <2>2. QED
      BY <1>1, <2>1
  <1>6. CASE TaskFetchPage(q)
    <2>1. /\ task[q].pc = "fetch" /\ task'[q].pc \in {"post", "drained"}
          /\ task'[q].to \in task[q].cursor..(Now + 1)
          /\ task'[q].pc = "drained" => task[q].cursor = Now + 1
          /\ task'[q].more = (task'[q].to <= Now)
          /\ task'[q].reconcile = \/ task[q].reconcile
                                  \/ Suspect(task[q].cursor, task'[q].to)
      BY <1>6, TaskMoves
    <2>2. Now \in Nat /\ Latest(c) \in 0..Now /\ task[q].cursor \in Nat
      BY LogMoves, TypeIs DEF TaskType
    <2>3. CASE task[q].reconcile
      <3>1. task'[q].reconcile
        BY <2>1, <2>3, Zenon
      <3>2. QED
        BY <2>1, <3>1
    <2>4. CASE Latest(c) >= task[q].cursor
      <3>1. task'[q].reconcile \/ ~ (Latest(c) < task'[q].to)
        BY <1>6, <2>4, PageReads DEF Behind, Shown
      <3>2. CASE ~ (Latest(c) < task'[q].to)
        <4>1. task'[q].to \in Nat /\ task'[q].to <= Now /\ task'[q].pc = "post"
              /\ Latest(c) >= task'[q].to
          BY <2>1, <2>2, <2>4, <3>2
        <4>2. QED
          BY <2>1, <4>1
      <3>3. QED
        BY <2>1, <3>1, <3>2
    <2>5. QED
      BY <1>1, <2>1, <2>3, <2>4
  <1>7. CASE TaskPostCursor(q)
    <2>1. /\ task[q].pc = "post" /\ task'[q].pc = IF task[q].more THEN "fetch" ELSE "drained"
          /\ task'[q].cursor = task[q].to /\ task'[q].reconcile = task[q].reconcile
      BY <1>7, TaskMoves
    <2>2. QED
      BY <1>1, <2>1
  <1>8. ~ TaskReconcile(q)
    <2>1. TaskReconcile(q) => task[q].reconcile
      BY <1>1 DEF TaskReconcile, TaskAt
    <2>2. QED
      BY <2>1, ReconcileCatchesUp
  <1>9. ~ TaskComplete(q)
    BY <1>1 DEF TaskComplete
  <1>10. QED
    BY <1>4, <1>5, <1>6, <1>7, <1>8, <1>9 DEF CalmRunStep

\* While nothing fails, something still calls for what the database lacks.
LEMMA WakeStep ==
  ASSUME TypeOK, LogInv, PassInv, NoChangeLost, CalmInv, CursorInv, WakeInv, [Next]_vars
  PROVE  WakeInv'
  <1> DEFINE Called == IF pass'.pc \in {"start", "stamp"} THEN pass'.pinged ELSE due'
  <1>1. SUFFICES ASSUME faults' = 0, ~ reverted', NEW c \in Cells, Behind(c)'
                 PROVE  pingDue' \/ Called \/ \E r \in Runs : WillRead(r, c)'
    BY DEF WakeInv
  <1>2. /\ faults = 0 /\ ~ reverted
        /\ \/ Change \/ PingRecorded \/ Day \/ Week \/ PassStep \/ UNCHANGED vars
           \/ \E r \in Runs : CalmRunStep(r) \/ SweepRun(r)
    BY <1>1, CalmNext, DataMoves
  <1>3. CASE Change
    BY <1>3 DEF Change
  <1>4. ~ Change => Behind(c) /\ Latest(c)' = Latest(c)
    BY <1>1, BehindStays
  <1>5. ~ Change => \/ pingDue
                    \/ IF pass.pc \in {"start", "stamp"} THEN pass.pinged ELSE due
                    \/ \E r \in Runs : WillRead(r, c)
    BY <1>2, <1>4 DEF WakeInv
  <1>6. ASSUME UNCHANGED task, ~ Change, NEW r \in Runs, WillRead(r, c)
        PROVE  WillRead(r, c)'
    BY <1>4, <1>6 DEF WillRead, Works, Reads
  <1>7. CASE PingRecorded
    <2>1. /\ pass'.pc = pass.pc /\ (pass.pc # "idle" => pass'.pinged) /\ due'
      BY <1>7, PassMoves DEF PingRecorded
    <2>2. QED
      BY <2>1
  <1>8. CASE Day
    BY <1>5, <1>6, <1>8 DEF Day, Change, airtable
  <1>9. CASE Week \/ UNCHANGED vars
    <2>1. UNCHANGED <<pass, task, due, pingDue, log>>
      BY <1>9 DEF Week, vars, airtable, clock
    <2>2. ~ Change
      <3>1. ASSUME Change
            PROVE  FALSE
        <4>1. Now' = Now + 1 /\ Now' = Now /\ Now \in Nat
          BY <2>1, <3>1, LogMoves
        <4>2. QED
          BY <4>1
      <3>2. QED
        BY <3>1
    <2>3. QED
      BY <1>5, <1>6, <2>1, <2>2
  <1>10. ASSUME UNCHANGED log
         PROVE  ~ Change
    <2>1. ASSUME Change
          PROVE  FALSE
      <3>1. Now' = Now + 1 /\ Now' = Now /\ Now \in Nat
        BY <1>10, <2>1, LogMoves
      <3>2. QED
        BY <3>1
    <2>2. QED
      BY <2>1
  <1>11. CASE PassFetch \/ PassSkips \/ PassDecide \/ PassInsertRun
    <2>1. /\ UNCHANGED <<task, due, pingDue, log>>
      BY <1>11, Zenon DEF PassFetch, PassSkips, PassDecide, PassInsertRun, airtable, clock
    <2>2. /\ pass.pc \in {"idle", "fetched", "insert"}
          /\ pass'.pc \in {"fetched", "idle", "insert", "enqueue"}
      BY <1>11, PassMoves DEF PassSkips
    <2>3. QED
      BY <1>5, <1>6, <1>10, <2>1, <2>2
  <1>12. CASE PassEnqueue
    <2>1. /\ UNCHANGED log /\ pass.pc = "enqueue" /\ pass.polls
          /\ TaskOver(pass.run) /\ pass.run \in Runs
      BY <1>12, TypeIs DEF PassEnqueue, PassInv, PassType, airtable
    <2>2. /\ task'[pass.run].pc = "queued" /\ task'[pass.run].cursor = pass.cursor
          /\ \A q \in Runs \ {pass.run} : task'[q] = task[q]
      BY <1>12, <2>1, EnqueuedIs DEF PassEnqueue, Moved
    <2>3. Behind(c) /\ Latest(c)' = Latest(c)
      BY <1>4, <1>10, <2>1
    <2>4. Latest(c) >= cursor \/ Suspecting
      BY <1>2, <2>3 DEF CursorInv
    <2>5. CASE Latest(c) >= cursor
      <3>1. /\ Latest(c) \in Nat /\ cursor \in Nat /\ pass.cursor \in Nat
            /\ pass.cursor <= cursor
        BY <1>2, <2>1, TypeIs, LogMoves DEF CalmInv, PassType
      <3>2. PICK q \in Runs : q = pass.run
        BY <2>1
      <3>3. task'[q].pc = "queued" /\ Latest(c)' >= task'[q].cursor
        BY <2>2, <2>3, <2>5, <3>1, <3>2
      <3>4. WillRead(q, c)'
        BY <3>3 DEF WillRead, Works, Reads
      <3>5. QED
        BY <3>4
    <2>6. CASE Suspecting
      <3>1. PICK q \in Runs : Works(q) /\ task[q].reconcile
        BY <2>6 DEF Suspecting
      <3>2. q # pass.run
        BY <2>1, <3>1 DEF TaskOver, Works, Reads
      <3>3. WillRead(q, c)'
        BY <2>2, <3>1, <3>2 DEF WillRead, Works, Reads
      <3>4. QED
        BY <3>3
    <2>7. QED
      BY <2>4, <2>5, <2>6
  <1>13. CASE PassMarkStarted
    <2>1. /\ UNCHANGED <<task, pingDue, log>> /\ pass.pc = "start" /\ pass'.pc = "stamp"
          /\ pass'.pinged = pass.pinged
      BY <1>13, PassMoves DEF PassMarkStarted, airtable
    <2>2. QED
      BY <1>5, <1>6, <1>10, <2>1
  <1>14. CASE PassStamp
    <2>1. /\ UNCHANGED <<task, pingDue, log>> /\ pass.pc = "stamp" /\ pass'.pc = "idle"
          /\ due' = pass.pinged
      BY <1>14, PassMoves DEF PassStamp, DueOnceStamped, airtable
    <2>2. QED
      BY <1>5, <1>6, <1>10, <2>1
  <1>15. ASSUME NEW r \in Runs, CalmRunStep(r)
         PROVE  pingDue' \/ Called \/ \E q \in Runs : WillRead(q, c)'
    <2>1. RunStep(r)
      BY <1>15 DEF CalmRunStep, RunStep, TaskStep
    <2>2. UNCHANGED <<log, pingDue, due, pass>>
      BY <2>1, RunFrame
    <2>3. Latest(c)' = Latest(c)
      BY <1>4, <1>10, <2>2
    <2>4. ASSUME NEW q \in Runs, WillRead(q, c)
          PROVE  WillRead(q, c)'
      BY <1>1, <1>2, <1>15, <2>3, <2>4, WillReadStays
    <2>5. QED
      BY <1>5, <1>10, <2>2, <2>4
  <1>16. ASSUME NEW r \in Runs, SweepRun(r)
         PROVE  pingDue' \/ Called \/ \E q \in Runs : WillRead(q, c)'
    <2>1. UNCHANGED <<log, pingDue, due, pass, task>>
      BY <1>16 DEF SweepRun, airtable, clock
    <2>2. QED
      BY <1>5, <1>6, <1>10, <2>1
  <1>17. QED
    BY <1>2, <1>3, <1>7, <1>8, <1>9, <1>11, <1>12, <1>13, <1>14, <1>15, <1>16
    DEF PassStep

(* The layers are inductive together.                                      *)
THEOREM StepInv == IInv /\ [Next]_vars => IInv'
  BY TypeStep, LogStep, PassInvStep, ReadStep, CalmStep, OneStep, CursorStep, WakeStep
  DEF IInv

(* Every reachable state of the way of a change satisfies every layer.     *)
THEOREM Invariance == Spec => []IInv
  BY InitInv, StepInv, PTL DEF Spec

-----------------------------------------------------------------------------
(* The properties.                                                         *)

(* The subscription, the pass and the tasks keep to their types: no stored *)
(* cursor is ever missing or below the first payload.                      *)
THEOREM TypeCorrect == Spec => []TypeOK
  <1>1. IInv => TypeOK
    BY DEF IInv
  <1>2. QED
    BY Invariance, <1>1, PTL

(* Whatever fails, is lost or overlaps, no change falls behind the anchor  *)
(* of the next reconciliation without being in the database, but for the   *)
(* two recorded gaps: where the cursor is does not matter.                 *)
THEOREM ChangeCorrect == Spec => []NoChangeLost
  <1>1. IInv => NoChangeLost
    BY DEF IInv
  <1>2. QED
    BY Invariance, <1>1, PTL

(* While nothing fails, the in-flight map keeps the tasks of a base apart, *)
(* with any number of runs.                                                *)
THEOREM OneTaskCorrect == Spec => []OneTaskAtATime
  <1>1. IInv => OneTaskAtATime
    BY DEF IInv, OneInv, OneTaskAtATime
  <1>2. QED
    BY Invariance, <1>1, PTL

(* While nothing fails, the cursor passes a change the database lacks only *)
(* if a task under way will reconcile.                                     *)
CursorIsHonest == faults = 0 /\ ~ reverted => \A c \in Cells :
  Behind(c) => Latest(c) >= cursor \/ Suspecting
THEOREM CursorCorrect == Spec => []CursorIsHonest
  <1>1. IInv => CursorIsHonest
    BY DEF IInv, CursorInv, CursorIsHonest
  <1>2. QED
    BY Invariance, <1>1, PTL

(* While nothing fails, a base at rest is caught up, whenever its pings    *)
(* arrive.                                                                 *)
THEOREM RestCorrect == Spec => []RestIsCaughtUp
  <1>1. IInv => RestIsCaughtUp
    <2>1. ASSUME IInv, faults = 0, AtRest, ~ reverted, NEW c \in Cells
          PROVE  ~ Behind(c)
      <3>1. \A r \in Runs : ~ WillRead(r, c)
        BY <2>1 DEF AtRest, TaskOver, WillRead, Works, Reads
      <3>2. ~ pingDue /\ ~ due /\ pass.pc = "idle"
        BY <2>1 DEF AtRest
      <3>3. QED
        BY <2>1, <3>1, <3>2 DEF IInv, WakeInv
    <2>2. QED
      BY <2>1 DEF RestIsCaughtUp, Behind
  <1>2. QED
    BY Invariance, <1>1, PTL
=============================================================================
