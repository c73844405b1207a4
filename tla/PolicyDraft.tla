----------------------------- MODULE PolicyDraft -----------------------------
(***************************************************************************)
(* The two governed policies: the classification policy and the golden-set  *)
(* policy (db/repositories/classification_policy.py, golden_set_policy.py    *)
(* and their admin routes).  Each is one row with an active content, a      *)
(* version and an optional draft; admins save drafts and apply them, and    *)
(* every apply appends to audit_events.                                    *)
(*                                                                         *)
(* A request is one transaction that SELECTs the row FOR UPDATE, computes   *)
(* in Python on the object it read, and writes back at the commit: requests *)
(* of several admins meet only at the row's lock.                          *)
(***************************************************************************)
EXTENDS Naturals, Sequences

CONSTANTS
    Admins,
    Values,      \* values a field of a policy may have
    Seed,        \* the content the migration installs, as version 1
    Refused,     \* a value the policy does not take: blank, too long, out of range
    Omitted, NoDraft, NoAdmin,
    Kinds,       \* which of the two policies to consider
    MaxVersion   \* bound: no further apply is made at this version

Fields == {"text", "level"}  \* prompt and threshold; label policy, cadence and flag
Contents == [Fields -> Values]
Bodies == [Fields -> Values \cup {Omitted, Refused}]

ASSUME SeedAssumption == Seed \in Contents
ASSUME OmittedAssumption == Omitted \notin Values
ASSUME RefusedAssumption == Refused \notin Values
ASSUME NoDraftAssumption == NoDraft \notin Contents
ASSUME NoAdminAssumption == NoAdmin \notin Admins
ASSUME MaxVersionAssumption == MaxVersion \in Nat

VARIABLES
    kind,     \* "classification" or "golden_set"
    active, version, draft,   \* the row
    audit,    \* the policy's rows of audit_events
    lock,     \* the admin whose transaction holds the row
    pc,       \* [Admins -> the request in progress]
    row,      \* [Admins -> the row as its transaction read it]
    wanted,   \* what the drafts saved since the last apply ask for, taken together
    used      \* the policy node_classify read last

vars == <<kind, active, version, draft, audit, lock, pc, row, wanted, used>>

Rows == [active : Contents, version : Nat, draft : Contents \cup {NoDraft}]
Entries == [prior_version : Nat, new_version : Nat, prior : Contents, new : Contents]

TypeOK ==
    /\ kind \in Kinds
    /\ active \in Contents /\ version \in Nat /\ draft \in Contents \cup {NoDraft}
    /\ audit \in Seq(Entries)
    /\ lock \in Admins \cup {NoAdmin}
    /\ pc \in [Admins -> {"idle", "save", "apply"}]
    /\ row \in [Admins -> Rows]
    /\ wanted \in Contents
    /\ used \in [version : Nat, content : Contents]

CurrentRow == [active |-> active, version |-> version, draft |-> draft]

Init ==
    /\ kind \in Kinds
    /\ active = Seed /\ version = 1 /\ draft = NoDraft
    /\ audit = <<>>
    /\ lock = NoAdmin
    /\ pc = [a \in Admins |-> "idle"]
    /\ row = [a \in Admins |-> CurrentRow]
    /\ wanted = Seed
    /\ used = [version |-> 1, content |-> Seed]
-----------------------------------------------------------------------------
Begin(a) ==
    /\ pc[a] = "idle"
    /\ \E request \in {"save", "apply"} : pc' = [pc EXCEPT ![a] = request]
    /\ row' = [row EXCEPT ![a] = CurrentRow]
    /\ UNCHANGED <<kind, active, version, draft, audit, wanted, used>>

(* MUTANT of LockRow: the row is read without FOR UPDATE. *)
ReadRow(a) == Begin(a) /\ UNCHANGED lock

(* SELECT ... FOR UPDATE: waits for the other requests, then reads.          *)
LockRow(a) == Begin(a) /\ lock = NoAdmin /\ lock' = a

End(a) ==
    /\ pc' = [pc EXCEPT ![a] = "idle"]
    /\ lock' = IF lock = a THEN NoAdmin ELSE lock

Merge(base, body) == [f \in Fields |-> IF body[f] = Omitted THEN base[f] ELSE body[f]]

(* The classification policy takes what a request omits from the active      *)
(* content and forgets the earlier draft.                                  *)
ClassificationBase(r) == r.active

(* MUTANT of GoldenSetBase: omitted fields always come from the active policy. *)
ActiveBase(r) == r.active

(* The golden-set policy keeps what is drafted already.                     *)
GoldenSetBase(r) == IF r.draft # NoDraft THEN r.draft ELSE r.active

Base(r) == IF kind = "golden_set" THEN GoldenSetBase(r) ELSE ClassificationBase(r)

(* MUTANT of Valid: the merged draft is not validated again. *)
Unvalidated(content) == TRUE

(* The validators run on the merged draft, not on the request.              *)
Valid(content) == content \in Contents

SaveDraft(a) ==
    /\ pc[a] = "save"
    /\ \E body \in Bodies :
          /\ Valid(Merge(Base(row[a]), body))
          /\ draft' = Merge(Base(row[a]), body)
          /\ wanted' = Merge(wanted, body)
    /\ End(a)
    /\ UNCHANGED <<kind, active, version, audit, row, used>>

(* A ValueError of a validator: the handler rolls back and answers 422.     *)
RefuseDraft(a) ==
    /\ pc[a] = "save"
    /\ \E body \in Bodies : ~Valid(Merge(Base(row[a]), body))
    /\ End(a)
    /\ UNCHANGED <<kind, active, version, draft, audit, row, wanted, used>>

(* What an apply appends to audit_events.                                   *)
Entry(r) ==
    [prior_version |-> r.version, new_version |-> r.version + 1,
     prior |-> r.active, new |-> r.draft]

(* The row and the audit entry are one transaction.                         *)
ApplyDraft(a) ==
    /\ pc[a] = "apply" /\ row[a].draft # NoDraft
    /\ version < MaxVersion
    /\ active' = row[a].draft
    /\ version' = row[a].version + 1
    /\ draft' = NoDraft
    /\ audit' = Append(audit, Entry(row[a]))
    /\ wanted' = row[a].draft
    /\ End(a)
    /\ UNCHANGED <<kind, row, used>>

(* no_draft_to_apply: the handler rolls back and answers 400.               *)
NothingToApply(a) ==
    /\ pc[a] = "apply" /\ row[a].draft = NoDraft
    /\ End(a)
    /\ UNCHANGED <<kind, active, version, draft, audit, row, wanted, used>>

(* A statement or the commit raises, or the process dies.                   *)
Rollback(a) ==
    /\ pc[a] # "idle"
    /\ End(a)
    /\ UNCHANGED <<kind, active, version, draft, audit, row, wanted, used>>

(* node_classify reads the active policy, without a lock, when it starts.    *)
ReadPolicy ==
    /\ kind = "classification"
    /\ used' = [version |-> version, content |-> active]
    /\ UNCHANGED <<kind, active, version, draft, audit, lock, pc, row, wanted>>

Next ==
    \/ ReadPolicy
    \/ \E a \in Admins :
          \/ LockRow(a) \/ SaveDraft(a) \/ RefuseDraft(a)
          \/ ApplyDraft(a) \/ NothingToApply(a) \/ Rollback(a)

Spec == Init /\ [][Next]_vars
-----------------------------------------------------------------------------
(***************************************************************************)
(* The audit log explains the active policy, however many admins save and   *)
(* apply at once: one entry per version, in order, each starting from the   *)
(* content the one before it ended with, the last one ending with what is   *)
(* active.  And what a classification is using is what the log says of the   *)
(* version it names: no draft takes effect before it is applied.            *)
(***************************************************************************)
After(n) == IF n = 0 THEN Seed ELSE audit[n].new

AuditExplainsActive ==
    /\ version = Len(audit) + 1
    /\ active = After(Len(audit))
    /\ \A n \in 1..Len(audit) :
          /\ audit[n].prior_version = n /\ audit[n].new_version = n + 1
          /\ audit[n].prior = After(n - 1)
    /\ used.version \in 1..version /\ used.content = After(used.version - 1)

(***************************************************************************)
(* A golden-set draft holds what every admin asked for since the last       *)
(* apply: a request that omits a field never takes back another's change.  *)
(***************************************************************************)
DraftKeepsEveryEdit ==
    kind = "golden_set" => IF draft = NoDraft THEN wanted = active ELSE wanted = draft

(***************************************************************************)
(* Why: a request in progress holds the lock, so the row it read is the     *)
(* row as it is.                                                           *)
(***************************************************************************)
ReadIsCurrent ==
    \A a \in Admins : pc[a] # "idle" => lock = a /\ row[a] = CurrentRow

IInv == TypeOK /\ ReadIsCurrent /\ AuditExplainsActive /\ DraftKeepsEveryEdit
=============================================================================
