---------------------------- MODULE MCDigestFlush ----------------------------
(***************************************************************************)
(* Instances of DigestFlush: u1 and u2 are in team t1, u3 in team t2.       *)
(* Nothing orders or compares the flushers.                                *)
(***************************************************************************)
EXTENDS DigestFlush, TLC

CONSTANTS t1, t2, u3

TwoRows == 1..2
OneLine == [S \in SUBSET RowIds |-> 1]
TwoLines == [S \in SUBSET RowIds |-> 2]
MCTeams == [u \in Users |-> IF u = u3 THEN t2 ELSE t1]
Symmetry == Permutations(Flushers)
=============================================================================
