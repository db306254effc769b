--------------------------- MODULE RetentionProofs ---------------------------
(***************************************************************************)
(* The safety properties of Retention for every number of bases, every set *)
(* of policies, every calendar and every number of runs, edits, deletions  *)
(* and failures.                                                           *)
(***************************************************************************)
EXTENDS Retention, FiniteSetTheorems, TLAPS

(* The bounds one by one.                                                  *)
LEMMA Bounds ==
  /\ MaxDay \in Nat /\ MaxActs \in Nat /\ MaxFaults \in Nat
  /\ \A d \in Days : d \in Nat
  BY RetentionBounds DEF Days

(* The windows of a policy are windows, whatever its tier.                 *)
LEMMA WindowsType ==
  ASSUME NEW p \in Policies
  PROVE  WindowsOf(p) \in Windows /\ p \in PolicyType
  <1>1. p \in PolicyType
    BY RetentionBounds
  <1>2. CustomDefault \in Windows
    BY RetentionBounds
  <1>3. CASE p.tier = "custom"
    BY <1>1, <1>2, <1>3 DEF WindowsOf, PolicyType
  <1>4. CASE p.tier = "three_tier"
    BY <1>1, <1>4 DEF WindowsOf, PolicyType
  <1>5. CASE p.tier = "two_tier"
    BY <1>1, <1>5 DEF WindowsOf, PolicyType, Windows
  <1>6. CASE p.tier \notin {"custom", "three_tier", "two_tier"}
    BY <1>1, <1>6 DEF WindowsOf, PolicyType, Windows
  <1>7. QED
    BY <1>1, <1>3, <1>4, <1>5, <1>6

(* There are finitely many days, hence finitely many runs.                 *)
LEMMA DaysFinite ==
  ASSUME NEW S \in SUBSET Days
  PROVE  IsFiniteSet(S) /\ Cardinality(S) \in Nat
  <1>1. IsFiniteSet(Days)
    BY FS_Interval, RetentionBounds DEF Days
  <1>2. QED
    BY <1>1, FS_Subset, FS_CardinalityType

(* The keep pass of the ladder is a fixpoint: run on what it kept, it      *)
(* keeps everything.                                                       *)
LEMMA KeepByWindowsFixpoint ==
  ASSUME NEW w, NEW S \in SUBSET Days, NEW day
  PROVE  KeepByWindows(w, KeepByWindows(w, S, day), day) = KeepByWindows(w, S, day)
  <1> DEFINE K == KeepByWindows(w, S, day)
  <1>1. K \subseteq S
    BY DEF KeepByWindows
  <1>2. ASSUME NEW r \in K
        PROVE  r \in KeepByWindows(w, K, day)
    BY <1>1, <1>2 DEF KeepByWindows, NewestOfWeek, NewestOfMonth
  <1>3. KeepByWindows(w, K, day) \subseteq K
    BY DEF KeepByWindows
  <1>4. QED
    BY <1>2, <1>3

(* So is that of the tier that counts snapshots.                           *)
LEMMA KeepNewestFixpoint ==
  ASSUME NEW n \in Nat, NEW S \in SUBSET Days
  PROVE  KeepNewest(n, KeepNewest(n, S)) = KeepNewest(n, S)
  <1> DEFINE K == KeepNewest(n, S)
             newer(r, T) == {q \in T : q > r}
  <1>1. K \subseteq S
    BY DEF KeepNewest
  <1>2. ASSUME NEW r \in K
        PROVE  r \in KeepNewest(n, K)
    <2>1. newer(r, K) \subseteq newer(r, S)
      BY <1>1
    <2>2. /\ IsFiniteSet(newer(r, S)) /\ Cardinality(newer(r, S)) \in Nat
          /\ Cardinality(newer(r, K)) \in Nat
      BY <1>1, DaysFinite
    <2>3. Cardinality(newer(r, K)) <= Cardinality(newer(r, S))
      BY <2>1, <2>2, FS_Subset
    <2>4. Cardinality(newer(r, S)) < n
      BY <1>2 DEF KeepNewest
    <2>5. Cardinality(newer(r, K)) < n
      BY <2>2, <2>3, <2>4
    <2>6. QED
      BY <1>2, <2>5 DEF KeepNewest
  <1>3. KeepNewest(n, K) \subseteq K
    BY DEF KeepNewest
  <1>4. QED
    BY <1>2, <1>3

(* What a policy keeps survives its cap and is among what it is given.     *)
LEMMA KeepIsPart ==
  ASSUME NEW p, NEW S, NEW day
  PROVE  Keep(p, S, day) \subseteq Survivors(p, S, day) /\ Survivors(p, S, day) \subseteq S
  BY DEF Keep, KeepNewest, KeepByWindows, Survivors

(* A second decision on what the first one kept dooms nothing.             *)
LEMMA DecisionFixpoint ==
  ASSUME NEW p \in Policies, NEW S \in SUBSET Days, NEW day
  PROVE  Doomed(p, S \ Doomed(p, S, day), day) = {}
  <1> DEFINE T == Survivors(p, S, day)
             K == Keep(p, S, day)
  <1>1. S \ Doomed(p, S, day) = K
    BY KeepIsPart DEF Doomed
  <1>2. Survivors(p, K, day) = K
    BY KeepIsPart DEF Survivors
  <1>3. T \in SUBSET Days
    BY KeepIsPart
  <1>4. Keep(p, K, day) = K
    <2>1. CASE p.tier = "basic"
      <3>1. p.keepLastN \in Nat
        BY WindowsType DEF PolicyType
      <3>2. K = KeepNewest(p.keepLastN, T) /\ Keep(p, K, day) = KeepNewest(p.keepLastN, K)
        BY <1>2, <2>1 DEF Keep
      <3>3. QED
        BY <1>3, <3>1, <3>2, KeepNewestFixpoint
    <2>2. CASE p.tier # "basic"
      <3>1. /\ K = KeepByWindows(WindowsOf(p), T, day)
            /\ Keep(p, K, day) = KeepByWindows(WindowsOf(p), K, day)
        BY <1>2, <2>2 DEF Keep
      <3>2. QED
        BY <1>3, <3>1, KeepByWindowsFixpoint
    <2>3. QED
      BY <2>1, <2>2
  <1>5. QED
    BY <1>1, <1>4 DEF Doomed
-----------------------------------------------------------------------------
(* The inductive invariant.                                                *)

\* A pass works on runs that have ended, a deletion on a claimed row.
WorkInv == /\ plan \subseteq Finished
           /\ swept \subseteq Finished
           /\ del # None => status[del] = "deleting"

\* What was swept has no files left, and of the runs at work only the
\* prefixes still to come do, unless one could not be deleted.
ProgressInv ==
  /\ \A r \in swept : files[r] = {}
  /\ \A r \in Days : IsNext(r) /\ ~ failed => files[r] \subseteq left
  /\ del # None /\ delOk => files[del] \subseteq delLeft

\* What is planned is superseded under a policy the Space has had.
PlanInv ==
  /\ policy \in policies
  /\ \A r \in plan : \E p \in policies : Superseded(p, r)

IInv == /\ TypeOK
        /\ WorkInv
        /\ ProgressInv
        /\ FilesFollowRows
        /\ PlanInv
        /\ OnlySupersededLoseFiles

(* Initially there is no run, no pass and no deletion.                     *)
THEOREM InitInv == Init => IInv
  <1> SUFFICES ASSUME Init PROVE IInv
    OBVIOUS
  <1> USE Bounds DEF Init, Terminal
  <1>1. TypeOK
    <2>1. now \in Days /\ del \in Days \cup {None} /\ files \in [Days -> SUBSET Bases]
      BY DEF Days
    <2>2. acts \in 0..MaxActs /\ faults \in 0..MaxFaults
      OBVIOUS
    <2>3. failed \in BOOLEAN /\ delOk \in BOOLEAN
      BY Zenon
    <2>4. QED
      BY <2>1, <2>2, <2>3 DEF TypeOK
  <1>2. WorkInv /\ ProgressInv /\ PlanInv
    BY DEF WorkInv, ProgressInv, PlanInv, IsNext
  <1>3. FilesFollowRows /\ OnlySupersededLoseFiles
    BY DEF FilesFollowRows, OnlySupersededLoseFiles
  <1>4. QED
    BY <1>1, <1>2, <1>3 DEF IInv

(* Every row that is planned, reported or claimed keeps to a run that has  *)
(* ended.                                                                  *)
LEMMA TypeStep ==
  ASSUME TypeOK, WorkInv, [Next]_vars
  PROVE  TypeOK' /\ WorkInv'
  <1> USE Bounds DEF TypeOK, WorkInv, Finished, Terminal, rows, pass, user
  <1>1. CASE NextDay
    BY <1>1 DEF NextDay, Days
  <1>2. CASE StartBackup
    BY <1>2 DEF StartBackup
  <1>3. ASSUME NEW r \in Days, FinishBackup(r)
        PROVE  TypeOK' /\ WorkInv'
    BY <1>3 DEF FinishBackup
  <1>4. ASSUME NEW p \in Policies, SetPolicy(p)
        PROVE  TypeOK' /\ WorkInv'
    BY <1>4 DEF SetPolicy, Act
  <1>5. CASE FetchPlan
    BY <1>5 DEF FetchPlan, Doomed, Listed
  <1>6. ASSUME NEW r \in Days, NEW b \in Bases, DeletePrefix(r, b)
        PROVE  TypeOK' /\ WorkInv'
    BY <1>6 DEF DeletePrefix
  <1>7. ASSUME NEW r \in Days, RunSwept(r)
        PROVE  TypeOK' /\ WorkInv'
    <2>1. plan' \subseteq plan /\ swept' \subseteq swept \cup plan
      BY <1>7 DEF RunSwept, IsNext
    <2>2. QED
      BY <1>7, <2>1 DEF RunSwept
  <1>8. CASE PostComplete
    BY <1>8 DEF PostComplete
  <1>9. ASSUME NEW r \in Days, NEW b \in Bases, DeletePrefixFails(r, b)
        PROVE  TypeOK' /\ WorkInv'
    BY <1>9 DEF DeletePrefixFails, Fault
  <1>10. CASE PassDies
    <2>1. failed' \in BOOLEAN
      BY <1>10, Zenon DEF PassDies
    <2>2. QED
      BY <1>10, <2>1 DEF PassDies, Fault
  <1>11. ASSUME NEW r \in Days, MarkRunDeleting(r)
         PROVE  TypeOK' /\ WorkInv'
    BY <1>11 DEF MarkRunDeleting, Act
  <1>12. ASSUME NEW b \in Bases, DeleteRunFiles(b)
         PROVE  TypeOK' /\ WorkInv'
    <2>1. delOk' \in BOOLEAN
      BY <1>12, Zenon DEF DeleteRunFiles
    <2>2. files' \in [Days -> SUBSET Bases] /\ faults' \in 0..MaxFaults
      BY <1>12 DEF DeleteRunFiles, Fault
    <2>3. QED
      BY <1>12, <2>1, <2>2 DEF DeleteRunFiles
  <1>13. CASE DeleteComplete
    BY <1>13 DEF DeleteComplete, None, Days
  <1>14. CASE DeleteDies
    BY <1>14 DEF DeleteDies, Fault
  <1>15. CASE UNCHANGED vars
    BY <1>15 DEF vars
  <1>16. QED
    BY <1>1, <1>2, <1>3, <1>4, <1>5, <1>6, <1>7, <1>8, <1>9, <1>10, <1>11, <1>12,
       <1>13, <1>14, <1>15 DEF Next, Cleanup

(* At most one run is the next of a plan.                                  *)
LEMMA NextIsUnique ==
  ASSUME TypeOK, NEW r \in Days, NEW q \in Days, IsNext(r), IsNext(q)
  PROVE  r = q
  BY Bounds DEF IsNext

(* Files only appear while a run is running, when neither a pass nor a     *)
(* deletion knows it; the prefixes still to come shrink with the files.    *)
LEMMA ProgressStep ==
  ASSUME TypeOK, WorkInv, ProgressInv, FilesFollowRows, [Next]_vars
  PROVE  ProgressInv' /\ FilesFollowRows'
  <1> USE DEF TypeOK, WorkInv, ProgressInv, FilesFollowRows, Finished, Terminal,
              rows, pass, user
  <1>1. CASE NextDay \/ \E p \in Policies : SetPolicy(p)
    BY <1>1 DEF NextDay, SetPolicy, IsNext
  <1>2. CASE StartBackup
    BY <1>2 DEF StartBackup, IsNext
  <1>3. ASSUME NEW r \in Days, FinishBackup(r)
        PROVE  ProgressInv' /\ FilesFollowRows'
    <2>1. r \notin plan /\ r \notin swept /\ r \notin deletedAt /\ (del # None => r # del)
      BY <1>3 DEF FinishBackup
    <2>2. /\ \A q \in Days \ {r} : files'[q] = files[q] /\ status'[q] = status[q]
          /\ status'[r] # "gone"
      BY <1>3 DEF FinishBackup
    <2>3. QED
      BY <1>3, <2>1, <2>2 DEF FinishBackup, IsNext
  <1>4. CASE FetchPlan
    BY <1>4 DEF FetchPlan, IsNext
  <1>5. ASSUME NEW r \in Days, NEW b \in Bases, DeletePrefix(r, b)
        PROVE  ProgressInv' /\ FilesFollowRows'
    <2>1. /\ files' = [files EXCEPT ![r] = @ \ {b}] /\ left' = left \ {b}
          /\ IsNext(r)
          /\ UNCHANGED <<status, deletedAt, plan, swept, failed, user>>
      BY <1>5 DEF DeletePrefix
    <2>2. \A q \in Days : files'[q] \subseteq files[q]
      BY <2>1
    <2>3. files'[r] = files[r] \ {b}
      BY <2>1
    <2>4. \A q \in Days : IsNext(q)' => q = r
      BY <2>1, NextIsUnique DEF IsNext
    <2>5. ProgressInv'
      BY <2>1, <2>2, <2>3, <2>4
    <2>6. FilesFollowRows'
      BY <2>1, <2>2
    <2>7. QED
      BY <2>5, <2>6
  <1>6. ASSUME NEW r \in Days, RunSwept(r)
        PROVE  ProgressInv' /\ FilesFollowRows'
    <2>1. /\ left = {} /\ left' = Bases /\ IsNext(r)
          /\ swept' = IF failed THEN swept ELSE swept \cup {r}
          /\ UNCHANGED <<rows, user>>
      BY <1>6 DEF RunSwept
    <2>2. ~ failed => files[r] = {}
      BY <2>1
    <2>3. \A q \in swept' : files'[q] = {}
      BY <2>1, <2>2
    <2>4. QED
      BY <2>1, <2>3
  <1>7. CASE PostComplete
    <2>1. /\ plan = {} /\ plan' = plan /\ swept' = {}
          /\ deletedAt' = deletedAt \cup {r \in swept : status[r] # "gone"}
          /\ UNCHANGED <<status, files, user>>
      BY <1>7 DEF PostComplete
    <2>2. QED
      BY <2>1 DEF IsNext
  <1>8. ASSUME NEW r \in Days, NEW b \in Bases, DeletePrefixFails(r, b)
        PROVE  ProgressInv' /\ FilesFollowRows'
    BY <1>8 DEF DeletePrefixFails, IsNext
  <1>9. CASE PassDies
    BY <1>9 DEF PassDies, IsNext
  <1>10. ASSUME NEW r \in Days, MarkRunDeleting(r)
         PROVE  ProgressInv' /\ FilesFollowRows'
    BY <1>10 DEF MarkRunDeleting, IsNext
  <1>11. ASSUME NEW b \in Bases, DeleteRunFiles(b)
         PROVE  ProgressInv' /\ FilesFollowRows'
    <2>1. /\ del \in Days /\ delLeft' = delLeft \ {b}
          /\ UNCHANGED <<status, deletedAt, pass, del>>
      BY <1>11 DEF DeleteRunFiles
    <2>2. CASE files' = [files EXCEPT ![del] = @ \ {b}] /\ delOk' = delOk
      <3>1. files'[del] = files[del] \ {b} /\ \A q \in Days : files'[q] \subseteq files[q]
        BY <2>1, <2>2
      <3>2. QED
        BY <2>1, <2>2, <3>1 DEF IsNext
    <2>3. CASE files' = files /\ delOk' = FALSE
      BY <2>1, <2>3 DEF IsNext
    <2>4. QED
      BY <1>11, <2>2, <2>3 DEF DeleteRunFiles
  <1>12. CASE DeleteComplete
    <2>1. /\ del \in Days /\ del # None /\ delLeft = {} /\ del' = None
          /\ UNCHANGED <<files, pass>>
      BY <1>12 DEF DeleteComplete
    <2>2. CASE delOk
      <3>1. files[del] = {}
        BY <2>1, <2>2
      <3>2. QED
        BY <1>12, <2>1, <2>2, <3>1 DEF DeleteComplete, IsNext
    <2>3. CASE ~ delOk
      BY <1>12, <2>1, <2>3 DEF DeleteComplete, IsNext
    <2>4. QED
      BY <2>2, <2>3
  <1>13. CASE DeleteDies
    BY <1>13 DEF DeleteDies, IsNext
  <1>14. CASE UNCHANGED vars
    BY <1>14 DEF vars, IsNext
  <1>15. QED
    BY <1>1, <1>2, <1>3, <1>4, <1>5, <1>6, <1>7, <1>8, <1>9, <1>10, <1>11, <1>12,
       <1>13, <1>14 DEF Next, Cleanup

(* A run a policy dooms is superseded under it: what stands for it is      *)
(* among the listed runs, hence finished.                                  *)
LEMMA DoomedIsSuperseded ==
  ASSUME TypeOK, NEW p \in Policies, NEW r \in Doomed(p, Listed, now)
  PROVE  Superseded(p, r)
  <1> DEFINE T == Survivors(p, Listed, now)
             w == WindowsOf(p)
             newer == {q \in Finished : q > r}
  <1>1. r \in Listed /\ Listed \subseteq Finished /\ Finished \subseteq Days
    BY DEF Doomed, Listed, Finished
  <1>2. now \in Int /\ r \in Int /\ p.cap \in Nat /\ p.keepLastN \in Nat
    BY <1>1, Bounds, WindowsType DEF TypeOK, PolicyType
  <1>3. w.daily \in Nat /\ w.weekly \in Nat /\ w.monthly \in BOOLEAN
    BY WindowsType DEF Windows
  <1>4. CASE r \notin T
    BY <1>1, <1>2, <1>4 DEF Survivors, Age, Superseded
  <1>5. CASE r \in T /\ p.tier = "basic"
    <2>1. ~ (Cardinality({q \in T : q > r}) < p.keepLastN)
      BY <1>5 DEF Doomed, Keep, KeepNewest
    <2>2. {q \in T : q > r} \subseteq newer
      BY <1>1, KeepIsPart
    <2>3. /\ IsFiniteSet(newer) /\ Cardinality(newer) \in Nat
          /\ Cardinality({q \in T : q > r}) \in Nat
      BY <1>1, <2>2, DaysFinite
    <2>4. Cardinality({q \in T : q > r}) <= Cardinality(newer)
      BY <2>2, <2>3, FS_Subset
    <2>5. Cardinality(newer) >= p.keepLastN
      BY <1>2, <2>1, <2>3, <2>4
    <2>6. QED
      BY <1>5, <2>5 DEF Superseded
  <1>6. CASE r \in T /\ p.tier # "basic"
    <2> DEFINE inWeekly == {q \in T \ {q \in T : Age(q, now) <= w.daily} : Age(q, now) <= w.weekly}
               beyond == (T \ {q \in T : Age(q, now) <= w.daily}) \ inWeekly
    <2>1. r \notin KeepByWindows(w, T, now)
      BY <1>6 DEF Doomed, Keep
    <2>2. T \subseteq Finished
      BY <1>1, KeepIsPart
    <2>3. ~ (Age(r, now) <= w.daily)
      BY <1>6, <2>1 DEF KeepByWindows
    <2>4. CASE r \in inWeekly
      <3>1. PICK q \in T : q > r /\ WeekKey(q) = WeekKey(r)
        BY <2>1, <2>4 DEF KeepByWindows, NewestOfWeek
      <3>2. QED
        BY <1>2, <1>3, <1>6, <2>2, <2>3, <3>1 DEF Superseded, Age
    <2>5. CASE r \notin inWeekly
      <3>1. r \in beyond /\ ~ (Age(r, now) <= w.weekly)
        BY <1>6, <2>3, <2>5
      <3>2. w.monthly => \E q \in T : q > r /\ MonthKey(q) = MonthKey(r)
        BY <2>1, <3>1 DEF KeepByWindows, NewestOfMonth
      <3>3. QED
        BY <1>2, <1>3, <1>6, <2>2, <2>3, <3>1, <3>2 DEF Superseded, Age
    <2>6. QED
      BY <2>4, <2>5
  <1>7. QED
    BY <1>4, <1>5, <1>6

(* What a step may do to what the decision looked at: runs that have ended *)
(* stay so, days pass, policies are added, a plan is what was doomed, and  *)
(* a snapshot loses files to its deletion or as planned.                   *)
LEMMA FrameStep ==
  ASSUME TypeOK, WorkInv, policy \in policies, [Next]_vars
  PROVE  /\ Finished \subseteq Finished'
         /\ now <= now'
         /\ policies \subseteq policies' /\ policy' \in policies'
         /\ plan' \subseteq plan \cup Doomed(policy, Listed, now)
         /\ \A r \in Days : status'[r] = "succeeded" /\ files'[r] # Bases =>
              (status[r] = "succeeded" /\ files[r] # Bases) \/ r \in plan
  <1> DEFINE Frame == /\ Finished \subseteq Finished'
                      /\ now <= now'
                      /\ policies \subseteq policies' /\ policy' \in policies'
                      /\ plan' \subseteq plan \cup Doomed(policy, Listed, now)
                      /\ \A r \in Days : status'[r] = "succeeded" /\ files'[r] # Bases =>
                           (status[r] = "succeeded" /\ files[r] # Bases) \/ r \in plan
  <1>0. now \in Nat /\ now <= now
    BY Bounds DEF TypeOK
  <1>1. CASE NextDay \/ (\E p \in Policies : SetPolicy(p))
    BY <1>0, <1>1 DEF NextDay, SetPolicy, rows, pass, Finished
  <1>2. CASE StartBackup \/ \E r \in Days : FinishBackup(r)
    BY <1>0, <1>2 DEF StartBackup, FinishBackup, TypeOK, Finished, Terminal, pass
  <1>3. CASE FetchPlan \/ PostComplete \/ PassDies
    BY <1>0, <1>3 DEF FetchPlan, PostComplete, PassDies, rows, Finished
  <1>4. ASSUME NEW r \in Days, NEW b \in Bases,
               DeletePrefix(r, b) \/ DeletePrefixFails(r, b)
        PROVE  Frame
    BY <1>0, <1>4 DEF DeletePrefix, DeletePrefixFails, TypeOK, IsNext, rows, Finished
  <1>5. ASSUME NEW r \in Days, RunSwept(r)
        PROVE  Frame
    BY <1>0, <1>5 DEF RunSwept, rows, Finished
  <1>6. ASSUME NEW r \in Days, MarkRunDeleting(r)
        PROVE  Frame
    BY <1>0, <1>6 DEF MarkRunDeleting, TypeOK, Finished, Terminal, pass
  <1>7. ASSUME NEW b \in Bases, DeleteRunFiles(b)
        PROVE  Frame
    BY <1>0, <1>7 DEF DeleteRunFiles, TypeOK, WorkInv, Finished, pass
  <1>8. CASE DeleteComplete \/ DeleteDies
    BY <1>0, <1>8 DEF DeleteComplete, DeleteDies, TypeOK, Finished, rows, pass
  <1>9. CASE UNCHANGED vars
    BY <1>0, <1>9 DEF vars, rows, pass, Finished
  <1>10. QED
    BY <1>1, <1>2, <1>3, <1>4, <1>5, <1>6, <1>7, <1>8, <1>9 DEF Next, Cleanup

(* Ages grow.                                                              *)
LEMMA LaterIsOlder ==
  ASSUME NEW d \in Nat, NEW e \in Nat, NEW r \in Nat, NEW k \in Nat, d <= e, d - r > k
  PROVE  e - r > k
  OBVIOUS

(* So what was superseded stays superseded.                                *)
LEMMA SupersededStays ==
  ASSUME TypeOK, TypeOK', Finished \subseteq Finished', now <= now',
         NEW p \in Policies, NEW r \in Days, Superseded(p, r)
  PROVE  Superseded(p, r)'
  <1> DEFINE newer == {q \in Finished : q > r}
             w == WindowsOf(p)
  <1>1. now \in Nat /\ now' \in Nat /\ r \in Nat
    BY Bounds DEF TypeOK
  <1>2. /\ p.cap \in Nat /\ p.keepLastN \in Nat
        /\ w.daily \in Nat /\ w.weekly \in Nat /\ w.monthly \in BOOLEAN
    BY WindowsType DEF PolicyType, Windows
  <1>3. Cardinality(newer) >= p.keepLastN => Cardinality(newer') >= p.keepLastN
    <2>1. newer \subseteq newer' /\ newer \in SUBSET Days /\ newer' \in SUBSET Days
      BY DEF Finished
    <2>2. /\ IsFiniteSet(newer') /\ Cardinality(newer') \in Nat
          /\ Cardinality(newer) \in Nat
      BY <2>1, DaysFinite
    <2>3. Cardinality(newer) <= Cardinality(newer')
      BY <2>1, <2>2, FS_Subset
    <2>4. QED
      BY <1>2, <2>2, <2>3
  <1>4. ASSUME NEW k \in Nat, now - r > k
        PROVE  now' - r > k
    BY <1>1, <1>4, LaterIsOlder
  <1>5. CASE now - r > p.cap
    BY <1>2, <1>4, <1>5 DEF Superseded, Age
  <1>6. CASE p.tier = "basic" /\ Cardinality(newer) >= p.keepLastN
    BY <1>3, <1>6 DEF Superseded
  <1>7. CASE /\ p.tier # "basic"
             /\ now - r > w.daily
             /\ \/ \E q \in newer : WeekKey(q) = WeekKey(r)
                \/ /\ now - r > w.weekly
                   /\ w.monthly => \E q \in newer : MonthKey(q) = MonthKey(r)
    <2>1. newer \subseteq newer' /\ now' - r > w.daily
      BY <1>2, <1>4, <1>7
    <2>2. now - r > w.weekly => now' - r > w.weekly
      BY <1>2, <1>4
    <2>3. QED
      BY <1>7, <2>1, <2>2 DEF Superseded, Age
  <1>8. QED
    BY <1>5, <1>6, <1>7 DEF Superseded, Age

LEMMA PlanStep ==
  ASSUME TypeOK, TypeOK', WorkInv, PlanInv, OnlySupersededLoseFiles, [Next]_vars
  PROVE  PlanInv' /\ OnlySupersededLoseFiles'
  <1>1. /\ Finished \subseteq Finished'
        /\ now <= now'
        /\ policies \subseteq policies' /\ policy' \in policies'
        /\ plan' \subseteq plan \cup Doomed(policy, Listed, now)
        /\ \A r \in Days : status'[r] = "succeeded" /\ files'[r] # Bases =>
             (status[r] = "succeeded" /\ files[r] # Bases) \/ r \in plan
    BY FrameStep DEF PlanInv
  <1>2. policies \subseteq Policies /\ plan \subseteq Days /\ plan' \subseteq Days
    BY DEF TypeOK
  <1>3. ASSUME NEW r \in Days, \E p \in policies : Superseded(p, r)
        PROVE  \E p \in policies' : Superseded(p, r)'
    BY <1>1, <1>2, <1>3, SupersededStays
  <1>4. \A r \in Doomed(policy, Listed, now) : \E p \in policies : Superseded(p, r)
    BY DoomedIsSuperseded DEF PlanInv, TypeOK
  <1>5. \A r \in plan' : \E p \in policies' : Superseded(p, r)'
    BY <1>1, <1>2, <1>3, <1>4 DEF PlanInv
  <1>6. PlanInv'
    BY <1>1, <1>5 DEF PlanInv
  <1>7. OnlySupersededLoseFiles'
    BY <1>1, <1>3 DEF OnlySupersededLoseFiles, PlanInv
  <1>8. QED
    BY <1>6, <1>7

-----------------------------------------------------------------------------
(* The invariant is inductive.                                             *)
THEOREM StepInv == IInv /\ [Next]_vars => IInv'
  BY TypeStep, ProgressStep, PlanStep DEF IInv

(* It holds of every behaviour.                                            *)
THEOREM Invariance == Spec => []IInv
  BY InitInv, StepInv, PTL DEF Spec

(* Type correctness: only rows of runs that ended are ever soft-deleted.   *)
THEOREM TypeCorrect == Spec => []TypeOK
  <1>1. IInv => TypeOK
    BY DEF IInv
  <1>2. QED
    BY Invariance, <1>1, PTL

(* A row that is marked or removed has left nothing in storage, however    *)
(* passes, user deletions and failures overlap.                            *)
THEOREM FilesCorrect == Spec => []FilesFollowRows
  <1>1. IInv => FilesFollowRows
    BY DEF IInv
  <1>2. QED
    BY Invariance, <1>1, PTL

(* A snapshot the user did not delete loses files only when newer runs     *)
(* stand for its period, or past its cap, under a policy the Space has had.*)
THEOREM RetentionCorrect == Spec => []OnlySupersededLoseFiles
  <1>1. IInv => OnlySupersededLoseFiles
    BY DEF IInv
  <1>2. QED
    BY Invariance, <1>1, PTL

(* A second pass right after a complete one removes nothing, under any     *)
(* policy: the decision is a fixpoint.                                     *)
THEOREM PassCorrect == Spec => []PassIsIdempotent
  <1>1. PassIsIdempotent
    <2>1. Listed \in SUBSET Days
      BY DEF Listed
    <2>2. QED
      BY <2>1, DecisionFixpoint DEF PassIsIdempotent
  <1>2. QED
    BY <1>1, PTL
=============================================================================
