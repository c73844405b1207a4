---------------------------- MODULE MCRouteNotify ----------------------------
(***************************************************************************)
(* Instances of RouteNotify: two urgent items and a routine one, a team of   *)
(* two, and a cap that cuts the second urgent item off.                     *)
(***************************************************************************)
EXTENDS RouteNotify, TLC

MCItems == 1..3
MCImmediate == 1..2
Symmetry == Permutations(Executions) \cup Permutations(Users)
=============================================================================
