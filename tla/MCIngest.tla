------------------------------- MODULE MCIngest -------------------------------
(***************************************************************************)
(* Instances of Ingest: two polls of one source over two items.             *)
(***************************************************************************)
EXTENDS Ingest, TLC
=============================================================================
