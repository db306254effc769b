---------------------------- MODULE MCWebhookPoll ----------------------------
(* WebhookPoll on small instances. *)
EXTENDS WebhookPoll, TLC

Symmetry == Permutations(Runs) \cup Permutations(Cells)
=============================================================================
