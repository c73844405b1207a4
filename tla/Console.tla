------------------------------- MODULE Console -------------------------------
(***************************************************************************)
(* What the people of the console meet: the governed policies with their    *)
(* admins, the lists and the feedback form, and the accounts.  They share   *)
(* no state and each goes on as its own specification allows.              *)
(***************************************************************************)
EXTENDS PolicyDraft, Explorer, Accounts

ConsoleSpec == Spec /\ ExplorerSpec /\ AccountsSpec

(* The type invariant of the lists, the form and the accounts; that of a     *)
(* policy is a conjunct of its IInv.                                       *)
VisitorsTypeOK == ExplorerTypeOK /\ AccountsTypeOK
=============================================================================
