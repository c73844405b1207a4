-------------------------------- MODULE Admin --------------------------------
(***************************************************************************)
(* The two tables an admin edits: a source with the scheduler's job, and    *)
(* the routing rules with their reader.  They share no state and each goes  *)
(* on as its own specification allows.                                     *)
(***************************************************************************)
EXTENDS Sources, RoutingRules

AdminSpec == SourcesSpec /\ RulesSpec

(* The type invariant of both. *)
TypeOK == SourcesTypeOK /\ RulesTypeOK
=============================================================================
