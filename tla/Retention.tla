----------------------------- MODULE Retention ------------------------------
(***************************************************************************)
(* How snapshots of one Space are removed: the hourly cleanup pass (the    *)
(* engine decides, a task removes the files, the engine marks the rows),   *)
(* the deletion of a run by a user, and the edits of the retention policy  *)
(* that happen meanwhile.                                                  *)
(*                                                                         *)
(* A backup run is known by the day it started (its started_at); the       *)
(* files of a base are one unit, as one storage prefix holds them.  The    *)
(* storage is the local one, whose deletePrefix succeeds on a missing      *)
(* directory.  No insert of a backup run sets is_trial, so the cap of      *)
(* trial runs never applies and is left out.                               *)
(***************************************************************************)
EXTENDS Integers, FiniteSets

CONSTANTS
  NumBases,       \* the included bases of the backup configuration, numbered
  Policies,       \* the policies the Space may be given, each with its tier's cap
  CustomDefault,  \* the windows a custom policy falls back to
  WeekDays,       \* days of a weekly bucket
  MonthDays,      \* days of a monthly bucket
  MaxDay,         \* bound: the last day
  MaxRuns,        \* bound: runs started
  MaxActs,        \* bound: policy edits and runs deleted by a user
  MaxFaults       \* bound: failed prefix deletions and killed tasks

\* weeklyWindowDays NULL is 0: no age above the daily window is within it.
Windows == [daily : Nat, weekly : Nat, monthly : BOOLEAN]
PolicyType ==
  [tier : {"basic", "time_based", "two_tier", "three_tier", "custom"},
   keepLastN : Nat, windows : Windows, cap : Nat]

ASSUME RetentionBounds ==
  /\ NumBases \in Nat \ {0}
  /\ Policies \subseteq PolicyType /\ Policies # {}
  /\ CustomDefault \in Windows
  /\ {WeekDays, MonthDays} \subseteq Nat \ {0}
  /\ {MaxDay, MaxRuns, MaxActs, MaxFaults} \subseteq Nat

Days  == 0..MaxDay
None  == MaxDay + 1
Bases == 1..NumBases

VARIABLES
  now,        \* the day
  status,     \* backup_runs.status by start day; "none" no run, "gone" row deleted
  deletedAt,  \* the runs whose deleted_at is set
  files,      \* the bases whose files of the run are in storage
  policy,     \* the Space's policy row (or its tier's default) and cap
  policies,   \* every policy the Space has had
  passPc,     \* the cleanup task: "idle" or "sweeping"
  plan,       \* the planned runs not yet swept
  left,       \* the prefixes still to delete of the newest of them
  failed,     \* whether a prefix of that run could not be deleted
  swept,      \* the runs to be reported ok
  del,        \* the run a delete-run-files task works on, or None
  delLeft, delOk,  \* its prefixes left, and whether all went well
  acts,       \* policy edits and user deletions
  faults

rows == <<status, deletedAt, files>>
pass == <<passPc, plan, left, failed, swept>>
user == <<del, delLeft, delOk>>
vars == <<now, rows, policy, policies, pass, user, acts, faults>>

Terminal == {"succeeded", "failed"}
Finished == {r \in Days : status[r] \in Terminal \cup {"deleting", "gone"}}

\* MUTANT: the filter on terminal statuses is forgotten.
ListedAnyStatus == {r \in Days : status[r] \notin {"none", "gone"} /\ r \notin deletedAt}

\* loadRunsForSpace: the rows a pass looks at.
Listed == {r \in Days : status[r] \in Terminal /\ r \notin deletedAt}

TypeOK ==
  /\ now \in Days
  /\ status \in [Days -> {"none", "running", "deleting", "gone"} \cup Terminal]
  /\ deletedAt \subseteq {r \in Days : status[r] \in Terminal \cup {"deleting"}}
  /\ files \in [Days -> SUBSET Bases]
  /\ policy \in Policies
  /\ policies \subseteq Policies
  /\ passPc \in {"idle", "sweeping"}
  /\ plan \subseteq Days
  /\ left \subseteq Bases
  /\ failed \in BOOLEAN
  /\ swept \subseteq Days
  /\ del \in Days \cup {None}
  /\ delLeft \subseteq Bases
  /\ delOk \in BOOLEAN
  /\ acts \in 0..MaxActs
  /\ faults \in 0..MaxFaults

Init ==
  /\ now = 0
  /\ status = [r \in Days |-> "none"]
  /\ deletedAt = {}
  /\ files = [r \in Days |-> {}]
  /\ policy \in Policies
  /\ policies = {policy}
  /\ passPc = "idle"
  /\ plan = {}
  /\ left = {}
  /\ failed = FALSE
  /\ swept = {}
  /\ del = None
  /\ delLeft = {}
  /\ delOk = TRUE
  /\ acts = 0
  /\ faults = 0

Fault == faults < MaxFaults /\ faults' = faults + 1
Act   == acts < MaxActs /\ acts' = acts + 1

-----------------------------------------------------------------------------
(* decideDeletions: which of the runs S a policy removes on a day.         *)

Age(r, day) == day - r
WeekKey(r)  == r \div WeekDays
MonthKey(r) == r \div MonthDays

\* MUTANTS: the cap day itself counts as past the cap; there is no cap pass.
SurvivorsOffByOne(p, S, day) == {r \in S : Age(r, day) < p.cap}
SurvivorsNoCap(p, S, day) == S

\* The cap pass.
Survivors(p, S, day) == {r \in S : Age(r, day) <= p.cap}

\* The newest of its bucket among the runs of S.
NewestOfWeek(r, S)  == \A q \in S : q > r => WeekKey(q) # WeekKey(r)
NewestOfMonth(r, S) == \A q \in S : q > r => MonthKey(q) # MonthKey(r)

\* MUTANT: a run is kept when its bucket was seen already.
KeepSeenByWindows(w, S, day) ==
  LET inDaily  == {r \in S : Age(r, day) <= w.daily}
      inWeekly == {r \in S \ inDaily : Age(r, day) <= w.weekly}
      beyond   == (S \ inDaily) \ inWeekly
  IN  inDaily
        \cup {r \in inWeekly : ~NewestOfWeek(r, inWeekly)}
        \cup {r \in beyond : w.monthly /\ ~NewestOfMonth(r, beyond)}

KeepByWindows(w, S, day) ==
  LET inDaily  == {r \in S : Age(r, day) <= w.daily}
      inWeekly == {r \in S \ inDaily : Age(r, day) <= w.weekly}
      beyond   == (S \ inDaily) \ inWeekly
  IN  inDaily
        \cup {r \in inWeekly : NewestOfWeek(r, inWeekly)}
        \cup {r \in beyond : w.monthly /\ NewestOfMonth(r, beyond)}

KeepNewest(n, S) == {r \in S : Cardinality({q \in S : q > r}) < n}

\* Only the columns of the policy's own tier count, whatever the row holds.
WindowsOf(p) ==
  CASE p.tier = "custom"     -> CustomDefault
    [] p.tier = "three_tier" -> p.windows
    [] p.tier = "two_tier"   -> [p.windows EXCEPT !.monthly = FALSE]
    [] OTHER                 -> [p.windows EXCEPT !.weekly = 0, !.monthly = FALSE]

Keep(p, S, day) ==
  LET T == Survivors(p, S, day)
  IN  IF p.tier = "basic" THEN KeepNewest(p.keepLastN, T)
                          ELSE KeepByWindows(WindowsOf(p), T, day)

Doomed(p, S, day) == S \ Keep(p, S, day)

-----------------------------------------------------------------------------
(* Time, backups and policy edits.                                         *)

NextDay ==
  /\ now < MaxDay
  /\ now' = now + 1
  /\ UNCHANGED <<rows, policy, policies, pass, user, acts, faults>>

StartBackup ==
  /\ status[now] = "none"
  /\ Cardinality({r \in Days : status[r] # "none"}) < MaxRuns
  /\ status' = [status EXCEPT ![now] = "running"]
  /\ UNCHANGED <<now, deletedAt, files, policy, policies, pass, user, acts, faults>>

\* A run that fails or is cancelled keeps what it had written.
FinishBackup(r) ==
  /\ status[r] = "running"
  /\ \/ /\ status' = [status EXCEPT ![r] = "succeeded"]
        /\ files' = [files EXCEPT ![r] = Bases]
     \/ \E written \in SUBSET Bases :
          /\ status' = [status EXCEPT ![r] = "failed"]
          /\ files' = [files EXCEPT ![r] = written]
  /\ UNCHANGED <<now, deletedAt, policy, policies, pass, user, acts, faults>>

\* PATCH retention-policy, or another subscription tier with its cap and default.
SetPolicy(p) ==
  /\ Act /\ p # policy
  /\ policy' = p
  /\ policies' = policies \cup {p}
  /\ UNCHANGED <<now, rows, pass, user, faults>>

-----------------------------------------------------------------------------
(* The cleanup pass.  The platform does not overlap two of them.           *)

\* POST cleanup-plan: nothing is stored, the plan lives in the task.
FetchPlan ==
  /\ passPc = "idle"
  /\ passPc' = "sweeping"
  /\ plan' = Doomed(policy, Listed, now)
  /\ left' = Bases
  /\ failed' = FALSE
  /\ swept' = {}
  /\ UNCHANGED <<now, rows, policy, policies, user, acts, faults>>

\* decision.delete lists the newest run first, a run's prefixes in base order.
IsNext(r) == r \in plan /\ \A q \in plan : q <= r
IsNextPrefix(b, prefixes) == b \in prefixes /\ \A c \in prefixes : b <= c

DeletePrefix(r, b) ==
  /\ passPc = "sweeping" /\ IsNext(r) /\ IsNextPrefix(b, left)
  /\ left' = left \ {b}
  /\ files' = [files EXCEPT ![r] = @ \ {b}]
  /\ UNCHANGED <<now, status, deletedAt, policy, policies, passPc, plan, failed, swept,
                 user, acts, faults>>

\* A prefix that cannot be deleted does not stop the others.
DeletePrefixFails(r, b) ==
  /\ passPc = "sweeping" /\ IsNext(r) /\ IsNextPrefix(b, left)
  /\ Fault
  /\ left' = left \ {b}
  /\ failed' = TRUE
  /\ UNCHANGED <<now, rows, policy, policies, passPc, plan, swept, user, acts>>

\* MUTANT: the outcome of a prefix is not looked at.
RunSweptAnyway(r) ==
  /\ passPc = "sweeping" /\ IsNext(r) /\ left = {}
  /\ plan' = plan \ {r}
  /\ left' = Bases
  /\ failed' = FALSE
  /\ swept' = swept \cup {r}
  /\ UNCHANGED <<now, rows, policy, policies, passPc, user, acts, faults>>

RunSwept(r) ==
  /\ passPc = "sweeping" /\ IsNext(r) /\ left = {}
  /\ plan' = plan \ {r}
  /\ left' = Bases
  /\ failed' = FALSE
  /\ swept' = IF failed THEN swept ELSE swept \cup {r}
  /\ UNCHANGED <<now, rows, policy, policies, passPc, user, acts, faults>>

\* cleanup-complete: the reported rows that still exist are soft-deleted.
PostComplete ==
  /\ passPc = "sweeping" /\ plan = {}
  /\ passPc' = "idle"
  /\ deletedAt' = deletedAt \cup {r \in swept : status[r] # "gone"}
  /\ left' = {}
  /\ swept' = {}
  /\ UNCHANGED <<now, status, files, policy, policies, plan, failed, user, acts, faults>>

\* The task dies, or its report does not arrive: nothing is marked.
PassDies ==
  /\ passPc = "sweeping"
  /\ Fault
  /\ passPc' = "idle"
  /\ plan' = {}
  /\ left' = {}
  /\ failed' = FALSE
  /\ swept' = {}
  /\ UNCHANGED <<now, rows, policy, policies, user, acts>>

-----------------------------------------------------------------------------
(* A user deletes a run: POST runs/:id/delete and its task.                *)

\* The row is claimed and the task enqueued; one deletion at a time.
MarkRunDeleting(r) ==
  /\ Act /\ del = None
  /\ status[r] \in Terminal
  /\ status' = [status EXCEPT ![r] = "deleting"]
  /\ del' = r
  /\ delLeft' = Bases
  /\ delOk' = TRUE
  /\ UNCHANGED <<now, deletedAt, files, policy, policies, pass, faults>>

DeleteRunFiles(b) ==
  /\ del # None /\ IsNextPrefix(b, delLeft)
  /\ delLeft' = delLeft \ {b}
  /\ \/ /\ files' = [files EXCEPT ![del] = @ \ {b}]
        /\ UNCHANGED <<delOk, faults>>
     \/ /\ Fault
        /\ delOk' = FALSE
        /\ UNCHANGED files
  /\ UNCHANGED <<now, status, deletedAt, policy, policies, pass, del, acts>>

\* delete-complete: the row goes when every prefix did, else it stays deleting.
DeleteComplete ==
  /\ del # None /\ delLeft = {}
  /\ status' = IF delOk THEN [status EXCEPT ![del] = "gone"] ELSE status
  /\ deletedAt' = IF delOk THEN deletedAt \ {del} ELSE deletedAt
  /\ del' = None
  /\ delOk' = TRUE
  /\ UNCHANGED <<now, files, policy, policies, pass, delLeft, acts, faults>>

\* The enqueue throws, the task dies or its callback is lost: the row stays deleting.
DeleteDies ==
  /\ del # None
  /\ Fault
  /\ del' = None
  /\ delLeft' = {}
  /\ delOk' = TRUE
  /\ UNCHANGED <<now, rows, policy, policies, pass, acts>>

-----------------------------------------------------------------------------
Cleanup ==
  \/ FetchPlan
  \/ \E r \in Days, b \in Bases : DeletePrefix(r, b)
  \/ \E r \in Days : RunSwept(r)
  \/ PostComplete

Next ==
  \/ NextDay
  \/ StartBackup
  \/ \E r \in Days : FinishBackup(r)
  \/ \E p \in Policies : SetPolicy(p)
  \/ Cleanup
  \/ \E r \in Days, b \in Bases : DeletePrefixFails(r, b)
  \/ PassDies
  \/ \E r \in Days : MarkRunDeleting(r)
  \/ \E b \in Bases : DeleteRunFiles(b)
  \/ DeleteComplete
  \/ DeleteDies

Spec == Init /\ [][Next]_vars

\* The cron fires every hour for ever; the platform runs what it fires.
FairSpec == Spec /\ WF_vars(Cleanup)

-----------------------------------------------------------------------------
(* Properties.                                                             *)

\* A run is superseded under p: it is past the cap, or newer finished runs
\* stand for it as the ladder says.  Once true it stays true.
Superseded(p, r) ==
  LET newer == {q \in Finished : q > r}
      w == WindowsOf(p)
  IN  \/ Age(r, now) > p.cap
      \/ p.tier = "basic" /\ Cardinality(newer) >= p.keepLastN
      \/ /\ p.tier # "basic"
         /\ Age(r, now) > w.daily
         /\ \/ \E q \in newer : WeekKey(q) = WeekKey(r)
            \/ /\ Age(r, now) > w.weekly
               /\ w.monthly => \E q \in newer : MonthKey(q) = MonthKey(r)

\* Whatever passes, failures, deletions and edits happened: a snapshot its
\* user did not delete loses files only if, under a policy the Space has
\* had, newer runs stand for its period or it is past its cap.
OnlySupersededLoseFiles ==
  \A r \in Days : status[r] = "succeeded" /\ files[r] # Bases
                    => \E p \in policies : Superseded(p, r)

\* A row that is soft-deleted by a pass or removed for the user has left
\* nothing in storage, though both may sweep the same run at the same time
\* and either may fail at any prefix.
FilesFollowRows ==
  \A r \in Days : r \in deletedAt \/ status[r] = "gone" => files[r] = {}

\* A second pass right after a complete one finds nothing more to remove,
\* under any policy the Space may have.
PassIsIdempotent ==
  \A p \in Policies :
    Doomed(p, Listed \ Doomed(p, Listed, now), now) = {}

\* Runs past every cap do not stay listed: passes remove them all, after the
\* finitely many failures.
ExpiredIsPruned ==
  []<>(\A r \in Listed : \E p \in Policies : Age(r, now) <= p.cap)
=============================================================================
