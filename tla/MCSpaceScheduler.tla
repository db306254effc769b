-------------------------- MODULE MCSpaceScheduler --------------------------
(* SpaceScheduler on small instances. *)
EXTENDS SpaceScheduler, TLC

Periods == "daily" :> 1 @@ "monthly" :> 2

PatchBodies == {"frequency" :> "instant", "frequency" :> "daily",
                "schemaFrequency" :> "daily"}

Cfg(f, g) == [scope |-> "schema_and_data", frequency |-> f, schemaFrequency |-> g]
Starts == {Cfg("instant", NULL), Cfg("daily", NULL)}

Symmetry == Permutations(Patches)
=============================================================================
