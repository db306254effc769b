-------------------------- MODULE MCConnectionLock --------------------------
(* ConnectionLock on small instances. *)
EXTENDS LockRefinement, TLC

\* Restore tasks are not interchangeable with backup tasks.
Symmetry == Permutations(Tasks \ Restores)
=============================================================================
