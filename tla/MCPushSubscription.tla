-------------------------- MODULE MCPushSubscription --------------------------
(* Values for model checking PushSubscription. *)
EXTENDS PushSubscription, TLC
MCSymmetry == Permutations(Inboxes)
=============================================================================
