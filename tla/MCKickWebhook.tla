--------------------------- MODULE MCKickWebhook ---------------------------
(* KickWebhook on small instances. *)
EXTENDS KickWebhook, TLC

ASSUME WebhookAssumption == ConstantsOK

WebhookSymmetry == Permutations(Events) \cup Permutations(Requests)
============================================================================
