------------------------------ MODULE MCReports ------------------------------
(* Reports on small instances. *)
EXTENDS Reports, TLC

Periods == "monthly" :> 2
=============================================================================
