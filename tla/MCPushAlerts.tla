---------------------------- MODULE MCPushAlerts ----------------------------
(* PushAlerts for TLC: the identities may be exchanged. *)
EXTENDS PushAlerts, TLC

Interchangeable == Permutations(Addresses)
=============================================================================
