---------------------------- MODULE MCReviewResume ----------------------------
(***************************************************************************)
(* Instances of ReviewResume: requests of several analysts for one run.     *)
(***************************************************************************)
EXTENDS ReviewResume, TLC
=============================================================================
