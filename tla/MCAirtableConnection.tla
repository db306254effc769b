------------------------ MODULE MCAirtableConnection ------------------------
(* AirtableConnection on small instances. *)
EXTENDS AirtableConnection, TLC

Symmetry == Permutations(Callers)
=============================================================================
