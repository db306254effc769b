--------------------------- MODULE MCRunLifecycle ---------------------------
(* RunLifecycle on small instances. *)
EXTENDS RunRefinement, TLC

Symmetry == Permutations(Bases)
=============================================================================
