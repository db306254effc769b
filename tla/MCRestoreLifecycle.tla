------------------------- MODULE MCRestoreLifecycle -------------------------
(* RestoreLifecycle on a small instance. *)
EXTENDS RestoreLifecycle
=============================================================================
