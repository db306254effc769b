--------------------------- MODULE RunRefinement ----------------------------
(* RunLifecycle implements BackupRun. *)
EXTENDS RunLifecycle

\* queued and running look alike from outside: a run that goes on.
Shown == IF status \in NonTerminal THEN "open" ELSE status

Promise == INSTANCE BackupRun WITH
             Good <- Success, shown <- Shown, results <- reported,
             excused <- errorMessage # "none"

\* Whatever the requests, tasks, handlers and the sweep of a run do, crash or
\* lose, an observer sees one run as BackupRun allows: each base counts once
\* and only while there is a row, success is made of successes, failures
\* have reasons, a run with results is never restarted nor undone, and only
\* runs with a verdict are deleted.
ImplementsBackupRun == Promise!Spec
=============================================================================
