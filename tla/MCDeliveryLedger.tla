-------------------------- MODULE MCDeliveryLedger --------------------------
(***************************************************************************)
(* Instances of DeliveryLedger: three racing executions over two keys, once *)
(* with the SMTP adapter (one post) and once with the Slack adapter (three). *)
(***************************************************************************)
EXTENDS DeliveryLedger, TLC

Symmetry == Permutations(Senders) \cup Permutations(Keys)
=============================================================================
