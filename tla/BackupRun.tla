----------------------------- MODULE BackupRun ------------------------------
(***************************************************************************)
(* What a backup run promises to those who look at it: the history pages,  *)
(* the reports and the counters.  There are no requests, tasks or sweeps   *)
(* here, only the row's status, the results of its bases and whether a     *)
(* reason of failure is recorded; each step is one change somebody sees.   *)
(* RunRefinement shows that RunLifecycle implements it.                    *)
(***************************************************************************)
CONSTANTS
  Bases,  \* the bases of the run
  Good    \* the successful verdicts

VARIABLES
  shown,    \* "open" while queued or running, else the status of the row
  results,  \* results[b]: what base b delivered, or "none"
  excused   \* whether an error message is recorded

vars == <<shown, results, excused>>

Verdicts == Good \cup {"failed", "cancelled"}

Init ==
  /\ shown = "open"
  /\ results = [b \in Bases |-> "none"]
  /\ excused = FALSE

NothingDelivered == \A b \in Bases : results[b] = "none"

\* A start may put its run back to running, but never one with results.
Restart ==
  /\ shown # "gone"
  /\ NothingDelivered
  /\ shown' = "open"
  /\ UNCHANGED <<results, excused>>

\* A base delivers once, whatever the row shows as long as there is a row;
\* a failure comes with its reason.
Deliver(b, r) ==
  /\ shown # "gone"
  /\ results[b] = "none"
  /\ results' = [results EXCEPT ![b] = r]
  /\ excused' = (excused \/ r = "failed")
  /\ UNCHANGED shown

\* The run succeeds only on good results of all its bases.
Succeed(v) ==
  /\ shown # "gone"
  /\ \A b \in Bases : results[b] \in Good
  /\ shown' = v
  /\ UNCHANGED <<results, excused>>

\* A failed run always has a reason.
Fail ==
  /\ shown # "gone"
  /\ shown' = "failed"
  /\ excused' = TRUE
  /\ UNCHANGED results

\* Cancelling is for open runs, and cancelled for cancelling ones.
Cancel ==
  /\ \/ shown = "open" /\ shown' = "cancelling"
     \/ shown = "cancelling" /\ shown' = "cancelled"
  /\ UNCHANGED <<results, excused>>

\* A row disappears because its start was undone before any base delivered,
\* or because a user deletes a run with a verdict.
Undo ==
  /\ NothingDelivered
  /\ shown' = "gone"
  /\ UNCHANGED <<results, excused>>

Delete ==
  /\ \/ shown \in Verdicts /\ shown' = "deleting"
     \/ shown = "deleting" /\ shown' = "gone"
  /\ UNCHANGED <<results, excused>>

Next ==
  \/ Restart
  \/ \E b \in Bases, r \in Good \cup {"failed"} : Deliver(b, r)
  \/ \E v \in Good : Succeed(v)
  \/ Fail \/ Cancel \/ Undo \/ Delete

Spec == Init /\ [][Next]_vars
=============================================================================
