----------------------------- MODULE ConsoleProofs -----------------------------
(***************************************************************************)
(* What the people of the console meet, for any number of them.             *)
(*                                                                         *)
(* Policies: the FOR UPDATE lock makes every request compute on the row as  *)
(* it is, and therefore the audit log of a policy explains what is active.  *)
(*                                                                         *)
(* Explorer: an update keeps the run it was tagged with, so what a POST has  *)
(* read of the row stays true while the pipeline rebriefs, and each version *)
(* of the briefing is either what was read or one that came since.          *)
(*                                                                         *)
(* Paging: no commit reorders a list, so of the entries that stay listed     *)
(* only as many slip up above the place reached as others leave from there. *)
(*                                                                         *)
(* Accounts: ids are not given out again, so the account of a token is its  *)
(* holder's or gone, and what get_current_user copied was true at one       *)
(* moment of the call.                                                     *)
(***************************************************************************)
EXTENDS Console, SequenceTheorems, FiniteSetTheorems, TLAPS

-----------------------------------------------------------------------------
(* A request that passes the validators over one base passes over any other:  *)
(* the fields it names are the same.                                        *)
LEMMA MergeIsContent ==
  ASSUME NEW base \in Contents, NEW other \in Contents, NEW body \in Bodies,
         Valid(Merge(base, body))
  PROVE  Merge(base, body) \in Contents /\ Merge(other, body) \in Contents
  BY DEF Merge, Contents, Bodies, Valid

(* A policy begins as the seed, with nobody editing it. *)
LEMMA InitIInv == Init => IInv
  BY SeedAssumption, NoDraftAssumption
     DEF Init, IInv, TypeOK, ReadIsCurrent, AuditExplainsActive, DraftKeepsEveryEdit,
         CurrentRow, Rows, After, Contents

(* Beginning a request changes nothing of the row; nobody else is between    *)
(* reading it and committing, for that admin would hold the lock.          *)
LEMMA LockStep ==
  ASSUME IInv, NEW a \in Admins, LockRow(a)
  PROVE  IInv'
<1> USE DEF LockRow, Begin
<1>1. /\ UNCHANGED <<kind, active, version, draft, audit, wanted, used>>
      /\ CurrentRow' = CurrentRow
  BY DEF CurrentRow
<1>2. CurrentRow \in Rows
  BY DEF IInv, TypeOK, CurrentRow, Rows
<1>3. TypeOK'
  BY <1>1, <1>2 DEF IInv, TypeOK
<1>4. ReadIsCurrent'
  <2>1. \A b \in Admins : b # a => pc[b] = "idle" /\ pc'[b] = "idle"
    BY NoAdminAssumption DEF IInv, TypeOK, ReadIsCurrent
  <2>2. lock' = a /\ row'[a] = CurrentRow
    BY DEF IInv, TypeOK
  <2>. QED  BY <1>1, <2>1, <2>2 DEF ReadIsCurrent
<1>5. AuditExplainsActive' /\ DraftKeepsEveryEdit'
  BY <1>1 DEF IInv, AuditExplainsActive, DraftKeepsEveryEdit, After
<1>. QED  BY <1>3, <1>4, <1>5 DEF IInv

(* Ending a request leaves nobody with a row in hand. *)
LEMMA EndFrees ==
  ASSUME IInv, NEW a \in Admins, pc[a] # "idle", End(a)
  PROVE  /\ \A b \in Admins : pc'[b] = "idle"
         /\ pc' \in [Admins -> {"idle", "save", "apply"}]
         /\ lock' = NoAdmin
  BY DEF End, IInv, TypeOK, ReadIsCurrent

(* A draft saved is the row it read with the body's fields over it. *)
LEMMA SaveStep ==
  ASSUME IInv, NEW a \in Admins, SaveDraft(a)
  PROVE  IInv'
<1> USE DEF SaveDraft
<1>1. \A b \in Admins : pc'[b] = "idle"
  BY EndFrees
<1>2. row[a] = CurrentRow
  BY DEF IInv, ReadIsCurrent
<1>3. PICK body \in Bodies :
        /\ Valid(Merge(Base(row[a]), body))
        /\ draft' = Merge(Base(row[a]), body)
        /\ wanted' = Merge(wanted, body)
  OBVIOUS
<1>4. Base(row[a]) \in Contents /\ wanted \in Contents
  BY <1>2 DEF IInv, TypeOK, CurrentRow, Base, GoldenSetBase, ClassificationBase
<1>5. draft' \in Contents /\ draft' # NoDraft
  BY <1>3, <1>4, MergeIsContent, NoDraftAssumption
<1>6. wanted' \in Contents
  BY <1>3, <1>4, MergeIsContent
<1>7. TypeOK'
  BY <1>5, <1>6, EndFrees DEF IInv, TypeOK
<1>8. ReadIsCurrent'
  BY <1>1 DEF ReadIsCurrent
<1>9. AuditExplainsActive'
  BY DEF IInv, AuditExplainsActive, After
<1>10. DraftKeepsEveryEdit'
  <2>1. kind = "golden_set" => Base(row[a]) = wanted
    BY <1>2 DEF IInv, DraftKeepsEveryEdit, Base, GoldenSetBase, CurrentRow
  <2>. QED  BY <1>3, <1>5, <1>6, <2>1 DEF DraftKeepsEveryEdit
<1>. QED  BY <1>7, <1>8, <1>9, <1>10 DEF IInv

(* An apply activates the content that its audit row records. *)
LEMMA ApplyStep ==
  ASSUME IInv, NEW a \in Admins, ApplyDraft(a)
  PROVE  IInv'
<1> DEFINE entry == [prior_version |-> version, new_version |-> version + 1,
                     prior |-> active, new |-> draft]
<1>1. \A b \in Admins : pc'[b] = "idle"
  BY EndFrees DEF ApplyDraft
<1>2. row[a] = CurrentRow /\ draft \in Contents
  BY DEF IInv, TypeOK, ReadIsCurrent, ApplyDraft, CurrentRow
<1>3. /\ active' = draft /\ version' = version + 1 /\ draft' = NoDraft
      /\ wanted' = draft /\ kind' = kind /\ row' = row /\ used' = used
      /\ audit' = Append(audit, entry)
  BY <1>2 DEF ApplyDraft, CurrentRow, Entry
<1>4. entry \in Entries /\ audit \in Seq(Entries) /\ version \in Nat
  BY <1>2 DEF IInv, TypeOK, Entries
<1>5. /\ audit' \in Seq(Entries)
      /\ Len(audit') = Len(audit) + 1 /\ Len(audit) \in Nat
      /\ audit'[Len(audit) + 1] = entry
      /\ \A n \in 1..Len(audit) : audit'[n] = audit[n]
  BY <1>3, <1>4
<1>6. TypeOK'
  BY <1>2, <1>3, <1>4, <1>5, EndFrees DEF IInv, TypeOK, ApplyDraft
<1>7. ReadIsCurrent'
  BY <1>1 DEF ReadIsCurrent
<1>8. AuditExplainsActive'
  <2>1. \A n \in 0..Len(audit) : After(n)' = After(n)
    BY <1>5 DEF After
  <2>2. After(Len(audit))' = draft
    BY <1>5 DEF After
  <2>3. ASSUME NEW n \in 1..Len(audit')
        PROVE  /\ audit'[n].prior_version = n /\ audit'[n].new_version = n + 1
               /\ audit'[n].prior = After(n - 1)'
    <3>1. CASE n \in 1..Len(audit)
      BY <3>1, <2>1, <1>5 DEF IInv, AuditExplainsActive
    <3>2. CASE n = Len(audit) + 1
      BY <3>2, <2>1, <1>5 DEF IInv, AuditExplainsActive
    <3>. QED  BY <3>1, <3>2, <1>5
  <2>4. /\ used.version \in 1..version' /\ used' = used
        /\ used.content = After(used.version - 1)'
    <3>1. /\ used.version \in 1..version /\ used.content = After(used.version - 1)
          /\ version = Len(audit) + 1
      BY DEF IInv, AuditExplainsActive
    <3>2. used.version \in Nat /\ used.version - 1 \in 0..Len(audit)
      BY <3>1, <1>5
    <3>. QED  BY <3>1, <3>2, <2>1, <1>3, <1>4
  <2>. QED  BY <1>3, <1>5, <2>2, <2>3, <2>4 DEF IInv, AuditExplainsActive
<1>9. DraftKeepsEveryEdit'
  BY <1>3 DEF DraftKeepsEveryEdit
<1>. QED  BY <1>6, <1>7, <1>8, <1>9 DEF IInv

(* A request that ends without writing: refused, nothing to apply, or undone. *)
LEMMA QuietStep ==
  ASSUME IInv, NEW a \in Admins,
         RefuseDraft(a) \/ NothingToApply(a) \/ Rollback(a)
  PROVE  IInv'
<1>1. /\ pc[a] # "idle" /\ End(a)
      /\ UNCHANGED <<kind, active, version, draft, audit, row, wanted, used>>
  BY DEF RefuseDraft, NothingToApply, Rollback
<1>2. TypeOK'
  BY <1>1, EndFrees DEF IInv, TypeOK
<1>3. ReadIsCurrent'
  BY <1>1, EndFrees DEF ReadIsCurrent
<1>. QED  BY <1>1, <1>2, <1>3
          DEF IInv, AuditExplainsActive, DraftKeepsEveryEdit, After

(* What node_classify reads is the end of the chain. *)
LEMMA ReadStep ==
  ASSUME IInv, ReadPolicy
  PROVE  IInv'
<1>1. /\ UNCHANGED <<kind, active, version, draft, audit, lock, pc, row, wanted>>
      /\ used' = [version |-> version, content |-> active]
  BY DEF ReadPolicy
<1>2. TypeOK'
  BY <1>1 DEF IInv, TypeOK
<1>3. ReadIsCurrent' /\ DraftKeepsEveryEdit'
  BY <1>1 DEF IInv, ReadIsCurrent, CurrentRow, DraftKeepsEveryEdit
<1>4. AuditExplainsActive'
  <2>1. /\ version = Len(audit) + 1 /\ active = After(Len(audit)) /\ Len(audit) \in Nat
    BY DEF IInv, TypeOK, AuditExplainsActive
  <2>2. used'.version = version /\ used'.content = active
    BY <1>1
  <2>3. \A n : After(n)' = After(n)
    BY <1>1 DEF After
  <2>4. used'.version \in 1..version' /\ used'.content = After(used.version - 1)'
    BY <1>1, <2>1, <2>2, <2>3 DEF After
  <2>. QED  BY <1>1, <2>4 DEF IInv, AuditExplainsActive, After
<1>. QED  BY <1>2, <1>3, <1>4 DEF IInv

(* The invariant is inductive. *)
LEMMA StepIInv == IInv /\ [Next]_vars => IInv'
<1> SUFFICES ASSUME IInv, [Next]_vars PROVE IInv'
  OBVIOUS
<1>1. ASSUME NEW a \in Admins, LockRow(a) PROVE IInv'
  BY <1>1, LockStep
<1>2. ASSUME NEW a \in Admins, SaveDraft(a) PROVE IInv'
  BY <1>2, SaveStep
<1>3. ASSUME NEW a \in Admins, ApplyDraft(a) PROVE IInv'
  BY <1>3, ApplyStep
<1>4. ASSUME NEW a \in Admins, RefuseDraft(a) \/ NothingToApply(a) \/ Rollback(a)
      PROVE  IInv'
  BY <1>4, QuietStep
<1>5. CASE ReadPolicy
  BY <1>5, ReadStep
<1>6. CASE UNCHANGED vars
  BY <1>6 DEF vars, IInv, TypeOK, ReadIsCurrent, CurrentRow, AuditExplainsActive,
              DraftKeepsEveryEdit, After
<1>. QED  BY <1>1, <1>2, <1>3, <1>4, <1>5, <1>6 DEF Next
-----------------------------------------------------------------------------
(***************************************************************************)
(* The invariant holds in every reachable state: every request computes on  *)
(* the row as it is.                                                       *)
(***************************************************************************)
THEOREM PolicyInvariant == Spec => []IInv
  BY InitIInv, StepIInv, PTL DEF Spec

(***************************************************************************)
(* However many admins save and apply at once, the audit log of a policy    *)
(* has one entry per version, chained from the seed to what is active, and  *)
(* no classification uses a content that was never applied.                *)
(***************************************************************************)
THEOREM AuditTrail == Spec => []AuditExplainsActive
<1>1. IInv => AuditExplainsActive
  BY DEF IInv
<1>. QED  BY PolicyInvariant, <1>1, PTL

(***************************************************************************)
(* A partial golden-set draft never takes back another admin's edit.        *)
(***************************************************************************)
THEOREM GoldenSetDraftsMerge == Spec => []DraftKeepsEveryEdit
<1>1. IInv => DraftKeepsEveryEdit
  BY DEF IInv
<1>. QED  BY PolicyInvariant, <1>1, PTL

-----------------------------------------------------------------------------
(* The explorer and the feedback form. *)

(* What a briefing, a page or a feedback row may say of an update.           *)
Said == Levels \cup {NoLevel}
MaybeRun == Runs \cup {NoRun}

(* A poll's updates are its own; a run that is tagged has some, and a        *)
(* briefing is of a tagged run.                                            *)
TablesSound ==
    /\ shelf \in Seq(Updates) /\ tagged \subseteq Runs
    /\ batch \in [Runs -> SUBSET Updates]
    /\ \A r \in Runs : batch[r] \subseteq ToSet(shelf)
    /\ \A q, r \in Runs : batch[q] \cap batch[r] # {} => q = r
    /\ \A r \in tagged : batch[r] # {}
    /\ DOMAIN briefing = Runs
    /\ \A r \in Runs : briefing[r] # NoBriefing => r \in tagged /\ briefing[r] \in Opinions(r)

(* The run_id a reader has read: none yet, or one that stays.               *)
HadRun(r, u) == r = NoRun \/ (r \in tagged /\ u \in batch[r])

PaneAsked == [stage : {"asked"}, item : Updates]
PaneRow == [stage : {"row"}, item : Updates, run : MaybeRun, since : SUBSET Said]
PaneShown == [stage : {"shown"}, item : Updates, since : SUBSET Said, seen : Said]

PaneSound ==
    /\ pane \in {Blank} \cup PaneAsked \cup PaneRow \cup PaneShown
    /\ pane.stage = "row" =>
          HadRun(pane.run, pane.item) /\ Overlay(pane.run, pane.item) \in pane.since
    /\ pane.stage = "shown" => pane.seen \in pane.since

PostSent == [stage : {"sent"}, item : Updates, seen : Said, since : SUBSET Said]
PostHasRow == [stage : {"row"}, item : Updates, seen : Said, since : SUBSET Said,
               run : MaybeRun, during : SUBSET Said]
PostHasRead == [stage : {"read"}, item : Updates, seen : Said, since : SUBSET Said,
                run : MaybeRun, during : SUBSET Said, snapshot : Said]
PostDone == [stage : {"saved"}, item : Updates]
FeedbackRows == [item : Updates, run : MaybeRun, snapshot : Said, seen : Said,
                 since : SUBSET Said, during : SUBSET Said]

PostSound ==
    /\ post \in {NoPost} \cup PostSent \cup PostHasRow \cup PostHasRead \cup PostDone
    /\ post.stage \in {"sent", "row", "read"} => post.seen \in post.since
    /\ post.stage = "row" =>
          HadRun(post.run, post.item) /\ Overlay(post.run, post.item) \in post.during
    /\ post.stage = "read" =>
          post.snapshot \in post.during /\ (post.snapshot # NoLevel => post.run # NoRun)

ExplorerInv ==
    /\ TablesSound /\ PaneSound /\ PostSound
    /\ feedback \in Seq(FeedbackRows) /\ FeedbackQuotesBriefing

(* Where the entries of s and t stand in s with t put in behind its first k. *)
LEMMA SplicedAt ==
  ASSUME NEW S, NEW s \in Seq(S), NEW t \in Seq(S), NEW k \in 0..Len(s)
  PROVE  /\ Inserted(s, t, k) \in Seq(S) /\ Len(Inserted(s, t, k)) = Len(s) + Len(t)
         /\ \A i \in 1..k : Inserted(s, t, k)[i] = s[i]
         /\ \A i \in (k + 1)..Len(s) : Inserted(s, t, k)[i + Len(t)] = s[i]
         /\ \A j \in (k + 1)..(k + Len(t)) : Inserted(s, t, k)[j] = t[j - k]
<1> DEFINE a == SubSeq(s, 1, k)
           b == SubSeq(s, k + 1, Len(s))
           u == a \o t \o b
<1>0. Len(s) \in Nat /\ Len(t) \in Nat /\ k \in Nat /\ k <= Len(s)
  OBVIOUS
<1>1. a \in Seq(S) /\ Len(a) = k /\ \A i \in 1..k : a[i] = s[i]
  BY SubSeqProperties
<1>2. b \in Seq(S) /\ Len(b) = Len(s) - k /\ \A i \in 1..(Len(s) - k) : b[i] = s[k + i]
  BY <1>0, SubSeqProperties
<1> HIDE DEF a, b
<1>3. /\ a \o t \in Seq(S) /\ Len(a \o t) = k + Len(t)
      /\ \A i \in 1..(k + Len(t)) : (a \o t)[i] = IF i <= k THEN a[i] ELSE t[i - k]
  BY <1>1, ConcatProperties
<1>4. /\ u \in Seq(S) /\ Len(u) = Len(s) + Len(t)
      /\ \A i \in 1..Len(u) : u[i] = IF i <= k + Len(t) THEN (a \o t)[i] ELSE b[i - (k + Len(t))]
  <2>1. /\ u \in Seq(S) /\ Len(u) = Len(a \o t) + Len(b)
        /\ \A i \in 1..(Len(a \o t) + Len(b)) :
              u[i] = IF i <= Len(a \o t) THEN (a \o t)[i] ELSE b[i - Len(a \o t)]
    BY <1>2, <1>3, ConcatProperties
  <2> HIDE DEF u
  <2>2. Len(a \o t) = k + Len(t) /\ Len(a \o t) + Len(b) = Len(s) + Len(t)
    BY <1>0, <1>2, <1>3
  <2>. QED  BY <2>1, <2>2, Zenon
<1> HIDE DEF u
<1>5. ASSUME NEW i \in 1..k PROVE u[i] = s[i]
  <2>1. i \in 1..Len(u) /\ i \in 1..(k + Len(t)) /\ i <= k + Len(t) /\ i <= k
    BY <1>0, <1>4
  <2>. QED  BY <1>1, <1>3, <1>4, <2>1
<1>6. ASSUME NEW i \in (k + 1)..Len(s) PROVE u[i + Len(t)] = s[i]
  <2>1. i - k \in 1..(Len(s) - k) /\ k + (i - k) = i
    BY <1>0
  <2>2. b[i - k] = s[i]
    BY <1>2, <2>1
  <2>3. /\ i + Len(t) \in 1..Len(u) /\ ~ (i + Len(t) <= k + Len(t))
        /\ (i + Len(t)) - (k + Len(t)) = i - k
    BY <1>0, <1>4
  <2>. QED  BY <1>4, <2>2, <2>3
<1>7. ASSUME NEW j \in (k + 1)..(k + Len(t)) PROVE u[j] = t[j - k]
  <2>1. j \in 1..Len(u) /\ j \in 1..(k + Len(t)) /\ j <= k + Len(t) /\ ~ (j <= k)
    BY <1>0, <1>4
  <2>2. (a \o t)[j] = t[j - k]
    BY <1>3, <2>1
  <2>. QED  BY <1>4, <2>1, <2>2
<1>. QED  BY <1>4, <1>5, <1>6, <1>7 DEF u, a, b, Inserted

(* What a list gains by an insertion anywhere: entries, not another order.    *)
LEMMA Spliced ==
  ASSUME NEW S, NEW s \in Seq(S), NEW t \in Seq(S), NEW k \in 0..Len(s)
  PROVE  LET u == Inserted(s, t, k)
         IN  /\ u \in Seq(S) /\ ToSet(u) = ToSet(s) \cup ToSet(t)
             /\ \A x, y : Ahead(s, x, y) => Ahead(u, x, y)
             /\ IsInjective(s) /\ IsInjective(t) /\ ToSet(s) \cap ToSet(t) = {} => IsInjective(u)
<1> DEFINE u == Inserted(s, t, k)
           At(i) == IF i <= k THEN i ELSE i + Len(t)
<1>0. Len(s) \in Nat /\ Len(t) \in Nat /\ k \in Nat /\ k <= Len(s)
  OBVIOUS
<1>1. /\ u \in Seq(S) /\ Len(u) = Len(s) + Len(t)
      /\ \A i \in 1..k : u[i] = s[i]
      /\ \A i \in (k + 1)..Len(s) : u[i + Len(t)] = s[i]
      /\ \A j \in (k + 1)..(k + Len(t)) : u[j] = t[j - k]
  <2>1. u \in Seq(S) /\ Len(u) = Len(s) + Len(t)
    BY SplicedAt
  <2>2. \A i \in 1..k : u[i] = s[i]
    BY SplicedAt
  <2>3. \A i \in (k + 1)..Len(s) : u[i + Len(t)] = s[i]
    BY SplicedAt
  <2>4. \A j \in (k + 1)..(k + Len(t)) : u[j] = t[j - k]
    BY SplicedAt
  <2>. QED  BY <2>1, <2>2, <2>3, <2>4
<1> HIDE DEF u
<1>2. DOMAIN u = 1..(Len(s) + Len(t)) /\ DOMAIN s = 1..Len(s) /\ DOMAIN t = 1..Len(t)
  BY <1>1
<1>3. \A i \in DOMAIN s : At(i) \in DOMAIN u /\ u[At(i)] = s[i]
  <2>1. TAKE i \in DOMAIN s
  <2>2. CASE i <= k
    <3>1. i \in 1..k /\ i \in DOMAIN u
      BY <1>0, <1>2, <2>2
    <3>. QED  BY <1>1, <2>2, <3>1
  <2>3. CASE ~ (i <= k)
    <3>1. i \in (k + 1)..Len(s) /\ i + Len(t) \in DOMAIN u
      BY <1>0, <1>2, <2>3
    <3>. QED  BY <1>1, <2>3, <3>1
  <2>. QED  BY <2>2, <2>3
<1>4. \A i \in DOMAIN t : k + i \in DOMAIN u /\ u[k + i] = t[i]
  <2>1. TAKE i \in DOMAIN t
  <2>2. k + i \in DOMAIN u /\ k + i \in (k + 1)..(k + Len(t)) /\ (k + i) - k = i
    BY <1>0, <1>2
  <2>. QED  BY <1>1, <2>2
<1>5. \A j \in DOMAIN u : (\E i \in DOMAIN s : j = At(i)) \/ (\E i \in DOMAIN t : j = k + i)
  <2>1. TAKE j \in DOMAIN u
  <2>2. CASE j <= k
    <3>1. j \in DOMAIN s /\ j = At(j)
      BY <1>0, <1>2, <2>2
    <3>. QED  BY <3>1
  <2>3. CASE j > k + Len(t)
    <3>1. j - Len(t) \in DOMAIN s /\ j = At(j - Len(t))
      BY <1>0, <1>2, <2>3
    <3>. QED  BY <3>1
  <2>4. CASE j > k /\ j <= k + Len(t)
    <3>1. j - k \in DOMAIN t /\ j = k + (j - k)
      BY <1>0, <1>2, <2>4
    <3>. QED  BY <3>1
  <2>. QED  BY <1>0, <1>2, <2>2, <2>3, <2>4
<1>6. \A i, j \in DOMAIN s : i < j => At(i) < At(j)
  BY <1>0, <1>2
<1> HIDE DEF At
<1>7. ToSet(u) = ToSet(s) \cup ToSet(t)
  <2>1. ASSUME NEW x \in ToSet(u) PROVE x \in ToSet(s) \cup ToSet(t)
    <3>1. PICK j \in DOMAIN u : u[j] = x
      BY DEF ToSet
    <3>. QED  BY <1>3, <1>4, <1>5, <3>1 DEF ToSet
  <2>2. ASSUME NEW x \in ToSet(s) PROVE x \in ToSet(u)
    <3>1. PICK i \in DOMAIN s : s[i] = x
      BY DEF ToSet
    <3>. QED  BY <1>3, <3>1 DEF ToSet
  <2>3. ASSUME NEW x \in ToSet(t) PROVE x \in ToSet(u)
    <3>1. PICK i \in DOMAIN t : t[i] = x
      BY DEF ToSet
    <3>. QED  BY <1>4, <3>1 DEF ToSet
  <2>. QED  BY <2>1, <2>2, <2>3
<1>8. ASSUME NEW x, NEW y, Ahead(s, x, y)
      PROVE  Ahead(u, x, y)
  <2>1. PICK i, j \in DOMAIN s : i < j /\ s[i] = x /\ s[j] = y
    BY <1>8 DEF Ahead
  <2>. QED  BY <1>3, <1>6, <2>1 DEF Ahead
<1>9. ASSUME IsInjective(s), IsInjective(t), ToSet(s) \cap ToSet(t) = {}
      PROVE  IsInjective(u)
  <2>1. SUFFICES ASSUME NEW p \in DOMAIN u, NEW q \in DOMAIN u, u[p] = u[q]
                 PROVE  p = q
    BY DEF IsInjective
  <2>2. ASSUME NEW i \in DOMAIN s, NEW j \in DOMAIN t
        PROVE  s[i] # t[j]
    BY <1>9 DEF ToSet
  <2>3. CASE (\E i \in DOMAIN s : p = At(i)) /\ (\E i \in DOMAIN s : q = At(i))
    BY <1>3, <1>9, <2>1, <2>3 DEF IsInjective
  <2>4. CASE (\E i \in DOMAIN t : p = k + i) /\ (\E i \in DOMAIN t : q = k + i)
    BY <1>4, <1>9, <2>1, <2>4 DEF IsInjective
  <2>. QED  BY <1>3, <1>4, <1>5, <2>1, <2>2, <2>3, <2>4
<1>. QED  BY <1>1, <1>7, <1>8, <1>9 DEF u

(* A list of distinct entries orders them.                                   *)
LEMMA AheadOrders ==
  ASSUME NEW S, NEW s \in Seq(S), IsInjective(s)
  PROVE  /\ \A x : ~ Ahead(s, x, x)
         /\ \A x, y, z : Ahead(s, x, y) /\ Ahead(s, y, z) => Ahead(s, x, z)
         /\ \A x, y \in ToSet(s) : x # y => Ahead(s, x, y) \/ Ahead(s, y, x)
<1>1. DOMAIN s = 1..Len(s) /\ \A i \in DOMAIN s : i \in Nat
  OBVIOUS
<1>2. \A i, j \in DOMAIN s : s[i] = s[j] => i = j
  BY DEF IsInjective
<1>3. \A x : ~ Ahead(s, x, x)
  BY <1>1, <1>2 DEF Ahead
<1>4. ASSUME NEW x, NEW y, NEW z, Ahead(s, x, y), Ahead(s, y, z)
      PROVE  Ahead(s, x, z)
  <2>1. PICK i, j \in DOMAIN s : i < j /\ s[i] = x /\ s[j] = y
    BY <1>4 DEF Ahead
  <2>2. PICK p, q \in DOMAIN s : p < q /\ s[p] = y /\ s[q] = z
    BY <1>4 DEF Ahead
  <2>3. i < q
    BY <1>1, <1>2, <2>1, <2>2
  <2>. QED  BY <2>1, <2>2, <2>3 DEF Ahead
<1>5. ASSUME NEW x \in ToSet(s), NEW y \in ToSet(s), x # y
      PROVE  Ahead(s, x, y) \/ Ahead(s, y, x)
  <2>1. PICK i, j \in DOMAIN s : s[i] = x /\ s[j] = y
    BY DEF ToSet
  <2>2. i < j \/ j < i
    BY <1>1, <1>5, <2>1
  <2>. QED  BY <2>1, <2>2 DEF Ahead
<1>. QED  BY <1>3, <1>4, <1>5

(* What a list holds is finite. *)
LEMMA EntriesFinite ==
  ASSUME NEW S, NEW s \in Seq(S)
  PROVE  IsFiniteSet(ToSet(s)) /\ ToSet(s) \subseteq S
<1>1. DOMAIN s = 1..Len(s) /\ Len(s) \in Nat /\ s \in [1..Len(s) -> S]
  OBVIOUS
<1>2. s \in Surjection(1..Len(s), ToSet(s))
  BY <1>1 DEF Surjection, ToSet
<1>3. IsFiniteSet(1..Len(s))
  BY <1>1, FS_Interval
<1>. QED  BY <1>1, <1>2, <1>3, FS_Surjection DEF ToSet

(* A poll's updates as a list. *)
LEMMA ListedOnce ==
  ASSUME NEW rows \in SetToAllKPermutations(Updates)
  PROVE  rows \in Seq(Updates) /\ IsInjective(rows)
<1>1. PICK s \in SUBSET Updates : rows \in SetToSeqs(s)
  BY DEF SetToAllKPermutations
<1>2. Cardinality(s) \in Nat
  BY ExplorerAssumption, FS_Subset, FS_CardinalityType
<1>3. /\ rows \in [1..Cardinality(s) -> s]
      /\ \A i, j \in 1..Cardinality(s) : i # j => rows[i] # rows[j]
  BY <1>1 DEF SetToSeqs
<1>4. rows \in Seq(Updates)
  BY <1>2, <1>3
<1>5. IsInjective(rows)
  BY <1>3 DEF IsInjective
<1>. QED  BY <1>4, <1>5

(* An update belongs to the run that stored it.                             *)
LEMMA RunIdIs ==
  ASSUME TablesSound, NEW u \in Updates
  PROVE  /\ RunIdOf(u) \in MaybeRun /\ HadRun(RunIdOf(u), u)
         /\ \A r \in tagged : u \in batch[r] => RunIdOf(u) = r
  BY DEF TablesSound, RunIdOf, HadRun, MaybeRun

(* What a run's briefing says is a severity or null; null if there is no run. *)
LEMMA OverlaySays ==
  ASSUME TablesSound, NEW u \in Updates, NEW r \in MaybeRun, HadRun(r, u)
  PROVE  Overlay(r, u) \in Said /\ (Overlay(r, u) # NoLevel => r # NoRun)
  BY DEF TablesSound, HadRun, Overlay, Opinions, Said

(* The pipeline goes on: a poll stores, tags and briefs, but takes no update  *)
(* from a run.                                                             *)
LEMMA WriteKeepsTables ==
  ASSUME TablesSound, Write
  PROVE  /\ TablesSound'
         /\ \A r \in MaybeRun, u \in Updates : HadRun(r, u) => HadRun(r, u)'
<1>1. ASSUME NEW r \in Runs, NEW rows \in SetToAllKPermutations(Updates),
             NEW place \in 0..Len(shelf),
             StorePoll(r, rows, place)
      PROVE  /\ TablesSound'
             /\ \A q \in tagged : batch'[q] = batch[q]
  <2>1. rows \in Seq(Updates)
    BY ListedOnce
  <2>2. /\ shelf' \in Seq(Updates) /\ ToSet(shelf) \subseteq ToSet(shelf')
        /\ ToSet(rows) \subseteq ToSet(shelf')
    <3>1. shelf' = Inserted(shelf, rows, place) /\ shelf \in Seq(Updates)
      BY <1>1 DEF StorePoll, TablesSound
    <3>2. shelf' \in Seq(Updates) /\ ToSet(shelf') = ToSet(shelf) \cup ToSet(rows)
      BY <2>1, <3>1, Spliced
    <3>. QED  BY <3>2
  <2>3. ToSet(rows) \in SUBSET Updates /\ ToSet(rows) # {}
    <3>1. rows # <<>> /\ DOMAIN rows = 1..Len(rows) /\ Len(rows) \in Nat
      BY <1>1, <2>1 DEF StorePoll
    <3>2. 1 \in DOMAIN rows
      BY <2>1, <3>1
    <3>. QED  BY <2>1, <3>2 DEF ToSet
  <2>4. /\ batch' = [batch EXCEPT ![r] = ToSet(rows)] /\ batch[r] = {}
        /\ ToSet(rows) \cap ToSet(shelf) = {} /\ UNCHANGED <<tagged, briefing>>
    BY <1>1 DEF StorePoll
  <2>5. r \notin tagged
    BY <2>4 DEF TablesSound
  <2>. QED  BY <2>2, <2>3, <2>4, <2>5 DEF TablesSound, Opinions
<1>2. ASSUME NEW r \in Runs, TagRows(r)
      PROVE  TablesSound' /\ tagged \subseteq tagged' /\ UNCHANGED batch
  BY <1>2 DEF TagRows, TablesSound, Opinions
<1>3. ASSUME NEW r \in Runs, NEW said \in Opinions(r), UpsertBriefing(r, said)
      PROVE  TablesSound' /\ UNCHANGED <<batch, tagged>>
  BY <1>3 DEF UpsertBriefing, TablesSound, Opinions
<1>4. ASSUME UNCHANGED <<shelf, batch, tagged, briefing>>
      PROVE  TablesSound'
  BY <1>4 DEF TablesSound, Opinions
<1>5. \/ \E r \in Runs, rows \in SetToAllKPermutations(Updates), place \in 0..Len(shelf) :
            StorePoll(r, rows, place)
      \/ \E r \in Runs : TagRows(r)
      \/ \E r \in Runs : \E said \in Opinions(r) : UpsertBriefing(r, said)
      \/ UNCHANGED <<shelf, batch, tagged, briefing>>
  <2>1. ASSUME NEW r \in Runs, NEW said, NEW place,
               QueueReview(r) \/ CloseReview(r) \/ Route(r, said, place)
        PROVE  UNCHANGED <<shelf, batch, tagged, briefing>>
    <3>1. CASE QueueReview(r)
      BY <3>1 DEF QueueReview
    <3>2. CASE CloseReview(r)
      BY <3>2 DEF CloseReview
    <3>3. CASE Route(r, said, place)
      BY <3>3 DEF Route
    <3>. QED  BY <2>1, <3>1, <3>2, <3>3
  <2>2. ASSUME NEW place, FlushDigest(place)
        PROVE  UNCHANGED <<shelf, batch, tagged, briefing>>
    BY <2>2 DEF FlushDigest
  <2>3. ASSUME NEW m, MarkRead(m)
        PROVE  UNCHANGED <<shelf, batch, tagged, briefing>>
    BY <2>3 DEF MarkRead
  <2>4. CASE \E r \in Runs : \/ QueueReview(r) \/ CloseReview(r)
                            \/ \E said \in Opinions(r), place \in 0..Len(inbox) :
                                  Route(r, said, place)
    BY <2>1, <2>4, Zenon
  <2>5. CASE \E place \in 0..Len(inbox) : FlushDigest(place)
    BY <2>2, <2>5, Zenon
  <2>6. CASE \E m \in unread : MarkRead(m)
    BY <2>3, <2>6, Zenon
  <2>. QED  BY <2>4, <2>5, <2>6, Zenon DEF Write
<1>6. TablesSound' /\ tagged \subseteq tagged' /\ \A q \in tagged : batch'[q] = batch[q]
  <2>1. CASE \E r \in Runs, rows \in SetToAllKPermutations(Updates), place \in 0..Len(shelf) :
                StorePoll(r, rows, place)
    BY <1>1, <2>1 DEF StorePoll
  <2>2. CASE \E r \in Runs : TagRows(r)
    BY <1>2, <2>2
  <2>3. CASE \E r \in Runs : \E said \in Opinions(r) : UpsertBriefing(r, said)
    BY <1>3, <2>3
  <2>4. CASE UNCHANGED <<shelf, batch, tagged, briefing>>
    BY <1>4, <2>4
  <2>. QED  BY <1>5, <2>1, <2>2, <2>3, <2>4
<1>. QED  BY <1>6 DEF HadRun

(* Whoever is looking has seen what the run they read says, or is told now.  *)
LEMMA WatchedStays ==
  ASSUME TablesSound, Write, NEW u \in Updates, NEW r \in MaybeRun, HadRun(r, u),
         NEW S, Overlay(r, u) \in S
  PROVE  Overlay(r, u)' \in S \cup {Live'[u]}
<1>1. TablesSound' /\ HadRun(r, u)'
  BY WriteKeepsTables
<1>2. CASE r = NoRun
  BY <1>2 DEF Overlay
<1>3. CASE r # NoRun
  <2>1. RunIdOf(u)' = r
    <3>1. r \in tagged' /\ u \in batch'[r]
      BY <1>1, <1>3 DEF HadRun
    <3>2. ASSUME NEW q \in tagged', u \in batch'[q]
          PROVE  q = r
      BY <1>1, <3>1, <3>2 DEF TablesSound
    <3>3. RunIdOf(u)' = CHOOSE q \in tagged' : u \in batch'[q]
      BY <3>1 DEF RunIdOf
    <3>. QED  BY <3>1, <3>2, <3>3
  <2>2. Live'[u] = Overlay(RunIdOf(u), u)'
    BY DEF Live
  <2>3. Overlay(r, u)' = Overlay(RunIdOf(u), u)'
    BY <2>1 DEF Overlay
  <2>. QED  BY <2>2, <2>3
<1>. QED  BY <1>2, <1>3

(* So is what a reader would be told after a commit. *)
LEMMA LiveSays ==
  ASSUME TablesSound, Write, NEW u \in Updates
  PROVE  Live'[u] \in Said
<1>1. TablesSound'
  BY WriteKeepsTables
<1>2. /\ RunIdOf(u)' \in MaybeRun /\ HadRun(RunIdOf(u), u)'
  BY <1>1 DEF TablesSound, RunIdOf, HadRun, MaybeRun
<1>3. Overlay(RunIdOf(u), u)' \in Said
  BY <1>1, <1>2 DEF TablesSound, HadRun, Overlay, Opinions, Said
<1>. QED  BY <1>3 DEF Live

(* Nothing is stored, read or posted yet. *)
LEMMA InitExplorerInv == ExplorerInit => ExplorerInv
<1> SUFFICES ASSUME ExplorerInit PROVE ExplorerInv
  OBVIOUS
<1>1. TablesSound
  BY DEF ExplorerInit, TablesSound, ToSet
<1>2. PaneSound /\ PostSound
  BY DEF ExplorerInit, PaneSound, PostSound, Blank, NoPost
<1>3. feedback \in Seq(FeedbackRows) /\ FeedbackQuotesBriefing
  BY DEF ExplorerInit, FeedbackQuotesBriefing
<1>. QED  BY <1>1, <1>2, <1>3 DEF ExplorerInv

(* What a step does that writes nothing.                                    *)
LEMMA TablesStay ==
  ASSUME TablesSound, UNCHANGED tables
  PROVE  /\ TablesSound'
         /\ \A u \in Updates, r \in MaybeRun :
               HadRun(r, u)' = HadRun(r, u) /\ Overlay(r, u)' = Overlay(r, u)
<1>1. UNCHANGED <<shelf, batch, tagged, briefing>>
  BY DEF tables
<1>. QED  BY <1>1 DEF TablesSound, Opinions, HadRun, Overlay

(* The pane, the POST and the feedback rows survive what others do. *)
LEMMA PaneStays ==
  ASSUME TablesSound, PaneSound, UNCHANGED <<tables, pane>>
  PROVE  PaneSound'
<1>1. ASSUME pane.stage = "row"
      PROVE  pane.item \in Updates /\ pane.run \in MaybeRun
  BY <1>1 DEF PaneSound, PaneAsked, PaneRow, PaneShown, Blank
<1>. QED  BY <1>1, TablesStay DEF PaneSound

LEMMA PostStays ==
  ASSUME TablesSound, PostSound, UNCHANGED <<tables, post>>
  PROVE  PostSound'
<1>1. ASSUME post.stage = "row"
      PROVE  post.item \in Updates /\ post.run \in MaybeRun
  BY <1>1 DEF PostSound, PostSent, PostHasRow,
         PostHasRead, PostDone, NoPost
<1>. QED  BY <1>1, TablesStay DEF PostSound

LEMMA FeedbackStays ==
  ASSUME UNCHANGED feedback, feedback \in Seq(FeedbackRows), FeedbackQuotesBriefing
  PROVE  (feedback \in Seq(FeedbackRows))' /\ FeedbackQuotesBriefing'
BY DEF FeedbackQuotesBriefing

(* The page's own steps.                                                    *)
LEMMA PaneStep ==
  ASSUME ExplorerInv, (\E u \in ToSet(shelf) : Select(u)) \/ DetailRow \/ DetailShown
  PROVE  ExplorerInv'
<1>1. UNCHANGED <<tables, post, feedback>>
  BY DEF Select, DetailRow, DetailShown
<1>2. TablesSound' /\ PostSound' /\ (feedback \in Seq(FeedbackRows))' /\ FeedbackQuotesBriefing'
  BY <1>1, TablesStay, PostStays, FeedbackStays DEF ExplorerInv
<1>3. ASSUME NEW u \in ToSet(shelf), Select(u)
      PROVE  PaneSound'
  <2>1. u \in Updates
    BY DEF ExplorerInv, TablesSound, ToSet
  <2>. QED  BY <1>3, <2>1 DEF Select, PaneSound, PaneAsked
<1>4. CASE DetailRow
  <2>1. pane.item \in Updates
    BY <1>4 DEF DetailRow, ExplorerInv, PaneSound, PaneAsked, PaneRow, PaneShown, Blank
  <2>2. PICK u \in Updates, r \in MaybeRun : u = pane.item /\ r = RunIdOf(pane.item)
    BY <2>1, RunIdIs DEF ExplorerInv
  <2>3. HadRun(r, u) /\ Overlay(r, u) \in Said
    BY <2>2, RunIdIs, OverlaySays DEF ExplorerInv
  <2>4. HadRun(r, u)' /\ Overlay(r, u)' = Overlay(r, u)
    BY <1>1, <2>3, TablesStay DEF ExplorerInv
  <2>5. pane' = [stage |-> "row", item |-> u, run |-> r, since |-> {Overlay(r, u)}]
    BY <1>4, <2>2 DEF DetailRow
  <2>6. pane' \in PaneRow
    BY <2>3, <2>5 DEF PaneRow
  <2>7. HadRun(pane.run, pane.item)' /\ Overlay(pane.run, pane.item)' \in pane'.since
    BY <2>4, <2>5 DEF HadRun, Overlay
  <2>8. PaneSound'
    BY <2>5, <2>6, <2>7 DEF PaneSound
  <2>. QED  BY <1>2, <2>8 DEF ExplorerInv
<1>5. CASE DetailShown
  <2>1. /\ pane.item \in Updates /\ pane.run \in MaybeRun /\ pane.since \in SUBSET Said
        /\ Overlay(pane.run, pane.item) \in pane.since
    BY <1>5 DEF DetailShown, ExplorerInv, PaneSound, PaneAsked, PaneRow, PaneShown, Blank
  <2>2. Overlay(pane.run, pane.item) \in Said
    BY <2>1
  <2>3. pane' = [stage |-> "shown", item |-> pane.item, since |-> pane.since,
                  seen |-> Overlay(pane.run, pane.item)]
    BY <1>5 DEF DetailShown
  <2>4. pane' \in PaneShown
    BY <2>1, <2>2, <2>3 DEF PaneShown
  <2>5. PaneSound'
    BY <2>1, <2>3, <2>4 DEF PaneSound
  <2>. QED  BY <1>2, <2>5 DEF ExplorerInv
<1>. QED  BY <1>2, <1>3, <1>4, <1>5 DEF ExplorerInv

(* The POST's own steps.                                                    *)
LEMMA PostStep ==
  ASSUME ExplorerInv, Submit \/ PostRow \/ PostOverlay \/ PostFails \/ PostAnswered
  PROVE  ExplorerInv'
<1>1. UNCHANGED <<tables, pane, feedback>>
  BY DEF Submit, PostRow, PostOverlay, PostFails, PostAnswered
<1>2. TablesSound' /\ PaneSound' /\ (feedback \in Seq(FeedbackRows))' /\ FeedbackQuotesBriefing'
  BY <1>1, TablesStay, PaneStays, FeedbackStays DEF ExplorerInv
<1>3. CASE Submit
  <2>1. /\ pane.item \in Updates /\ pane.since \in SUBSET Said /\ pane.seen \in Said
        /\ pane.seen \in pane.since
    BY <1>3 DEF Submit, ExplorerInv, PaneSound, PaneAsked, PaneRow, PaneShown, Blank
  <2>2. post' = [stage |-> "sent", item |-> pane.item, seen |-> pane.seen, since |-> pane.since]
    BY <1>3 DEF Submit
  <2>3. post' \in PostSent
    BY <2>1, <2>2 DEF PostSent
  <2>4. PostSound'
    BY <2>1, <2>2, <2>3 DEF PostSound
  <2>. QED  BY <1>2, <2>4 DEF ExplorerInv
<1>4. CASE PostRow
  <2>1. /\ post.item \in Updates /\ post.since \in SUBSET Said /\ post.seen \in Said
        /\ post.seen \in post.since
    BY <1>4 DEF PostRow, ExplorerInv, PostSound, PostSent, PostHasRow,
         PostHasRead, PostDone, NoPost
  <2>2. PICK u \in Updates, r \in MaybeRun : u = post.item /\ r = RunIdOf(post.item)
    BY <2>1, RunIdIs DEF ExplorerInv
  <2>3. HadRun(r, u) /\ Overlay(r, u) \in Said
    BY <2>2, RunIdIs, OverlaySays DEF ExplorerInv
  <2>4. HadRun(r, u)' /\ Overlay(r, u)' = Overlay(r, u)
    BY <1>1, <2>3, TablesStay DEF ExplorerInv
  <2>5. post' = [stage |-> "row", item |-> u, seen |-> post.seen, since |-> post.since,
                  run |-> r, during |-> {Overlay(r, u)}]
    BY <1>4, <2>2 DEF PostRow
  <2>6. post' \in PostHasRow
    BY <2>1, <2>3, <2>5 DEF PostHasRow
  <2>7. HadRun(post.run, post.item)' /\ Overlay(post.run, post.item)' \in post'.during
    BY <2>4, <2>5 DEF HadRun, Overlay
  <2>8. PostSound'
    BY <2>1, <2>5, <2>6, <2>7 DEF PostSound
  <2>. QED  BY <1>2, <2>8 DEF ExplorerInv
<1>5. CASE PostOverlay
  <2>1. /\ post.item \in Updates /\ post.since \in SUBSET Said /\ post.seen \in Said
        /\ post.run \in MaybeRun /\ post.during \in SUBSET Said /\ HadRun(post.run, post.item)
        /\ post.seen \in post.since /\ Overlay(post.run, post.item) \in post.during
    BY <1>5 DEF PostOverlay, ExplorerInv, PostSound, PostSent, PostHasRow,
         PostHasRead, PostDone, NoPost
  <2>2. /\ Overlay(post.run, post.item) \in Said
        /\ Overlay(post.run, post.item) # NoLevel => post.run # NoRun
    BY <2>1, OverlaySays DEF ExplorerInv
  <2>3. post' = [stage |-> "read", item |-> post.item, seen |-> post.seen, since |-> post.since,
                  run |-> post.run, during |-> post.during,
                  snapshot |-> Overlay(post.run, post.item)]
    BY <1>5 DEF PostOverlay, Snapshot
  <2>4. post' \in PostHasRead
    BY <2>1, <2>2, <2>3 DEF PostHasRead
  <2>5. PostSound'
    BY <2>1, <2>2, <2>3, <2>4 DEF PostSound
  <2>. QED  BY <1>2, <2>5 DEF ExplorerInv
<1>6. CASE PostFails
  <2>1. post.item \in Updates
    BY <1>6 DEF PostFails, ExplorerInv, PostSound, PostSent, PostHasRow,
         PostHasRead, PostDone, NoPost
  <2>2. PostSound'
    BY <1>6, <2>1 DEF PostFails, PostSound, PostDone
  <2>. QED  BY <1>2, <2>2 DEF ExplorerInv
<1>7. CASE PostAnswered
  BY <1>2, <1>7 DEF ExplorerInv, PostAnswered, PostSound, NoPost
<1>. QED  BY <1>3, <1>4, <1>5, <1>6, <1>7

(* The insert: the row quotes what the two SELECTs before it read.          *)
LEMMA SavedStep ==
  ASSUME ExplorerInv, PostSaved
  PROVE  ExplorerInv'
<1> DEFINE f == [x \in {"item", "run", "snapshot", "seen", "since", "during"} |-> post[x]]
<1>1. UNCHANGED <<tables, pane>>
  BY DEF PostSaved
<1>2. TablesSound' /\ PaneSound'
  BY <1>1, TablesStay, PaneStays DEF ExplorerInv
<1>3. post \in PostHasRead
  BY DEF PostSaved, ExplorerInv, PostSound, PostSent, PostHasRow,
         PostHasRead, PostDone, NoPost
<1>4. /\ post.seen \in post.since /\ post.snapshot \in post.during
      /\ post.snapshot # NoLevel => post.run # NoRun
  BY DEF PostSaved, ExplorerInv, PostSound
<1>5. f \in FeedbackRows
  BY <1>3 DEF PostHasRead, FeedbackRows
<1>6. /\ f.seen \in f.since /\ f.snapshot \in f.during
      /\ f.snapshot # NoLevel => f.run # NoRun
  BY <1>4
<1>7. feedback' = Append(feedback, f)
  BY DEF PostSaved
<1>8. PostSound'
  BY <1>3 DEF PostSaved, PostSound, PostDone, PostHasRead
<1> HIDE DEF f
<1>9. /\ feedback' \in Seq(FeedbackRows) /\ Len(feedback') = Len(feedback) + 1
      /\ \A i \in 1..Len(feedback) : feedback'[i] = feedback[i]
      /\ feedback'[Len(feedback) + 1] = f
  BY <1>5, <1>7, AppendProperties DEF ExplorerInv
<1>10. FeedbackQuotesBriefing'
  <2>1. feedback \in Seq(FeedbackRows)
    BY DEF ExplorerInv
  <2>2. ASSUME NEW i \in DOMAIN feedback'
        PROVE  i = Len(feedback) + 1 \/ i \in DOMAIN feedback
    BY <1>9, <2>1
  <2>3. \A i \in DOMAIN feedback : i \in 1..Len(feedback)
    BY <2>1
  <2>. QED  BY <1>6, <1>9, <2>2, <2>3 DEF ExplorerInv, FeedbackQuotesBriefing
<1>. QED  BY <1>2, <1>8, <1>9, <1>10 DEF ExplorerInv

(* A commit of the pipeline, and what it does to those who look.            *)
LEMMA WrittenStep ==
  ASSUME ExplorerInv, Written
  PROVE  ExplorerInv'
<1>1. TablesSound /\ PaneSound /\ PostSound /\ Write /\ WatchBriefing /\ UNCHANGED feedback
  BY DEF ExplorerInv, Written
<1>2. /\ TablesSound'
      /\ \A r \in MaybeRun, u \in Updates : HadRun(r, u) => HadRun(r, u)'
  BY <1>1, WriteKeepsTables
<1>3. \A u \in Updates : Live'[u] \in Said
  BY <1>1, LiveSays
<1>4. (feedback \in Seq(FeedbackRows))' /\ FeedbackQuotesBriefing'
  BY <1>1, FeedbackStays DEF ExplorerInv
<1>5. PaneSound'
  <2>1. CASE pane.stage = "row"
    <3>1. /\ pane \in PaneRow /\ HadRun(pane.run, pane.item)
          /\ Overlay(pane.run, pane.item) \in pane.since
      BY <1>1, <2>1 DEF PaneSound, PaneAsked, PaneRow, PaneShown, Blank
    <3>2. pane.item \in Updates /\ pane.run \in MaybeRun /\ pane.since \in SUBSET Said
      BY <3>1 DEF PaneRow
    <3>3. pane' = [pane EXCEPT !.since = @ \cup {Live'[pane.item]}]
      BY <1>1, <2>1 DEF WatchBriefing
    <3>4. /\ pane' \in PaneRow /\ pane'.item = pane.item /\ pane'.run = pane.run
          /\ pane'.since = pane.since \cup {Live'[pane.item]}
      BY <1>3, <3>1, <3>2, <3>3 DEF PaneRow
    <3>5. PICK u \in Updates, r \in MaybeRun : u = pane.item /\ r = pane.run
      BY <3>2
    <3>6. HadRun(r, u) /\ Overlay(r, u) \in pane.since
      BY <3>1, <3>5
    <3>7. HadRun(r, u)' /\ Overlay(r, u)' \in pane.since \cup {Live'[u]}
      <4>1. PICK S : S = pane.since
        OBVIOUS
      <4>2. Overlay(r, u)' \in S \cup {Live'[u]}
        BY <1>1, <3>6, <4>1, WatchedStays
      <4>. QED  BY <1>2, <3>6, <4>1, <4>2
    <3>8. HadRun(pane.run, pane.item)' /\ Overlay(pane.run, pane.item)' \in pane'.since
      BY <3>4, <3>5, <3>7 DEF HadRun, Overlay
    <3>. QED  BY <3>4, <3>8 DEF PaneSound, PaneRow
  <2>2. CASE pane.stage = "shown"
    <3>1. pane \in PaneShown /\ pane.seen \in pane.since
      BY <1>1, <2>2 DEF PaneSound, PaneAsked, PaneRow, PaneShown, Blank
    <3>2. pane.item \in Updates /\ pane.since \in SUBSET Said
      BY <3>1 DEF PaneShown
    <3>3. pane' = [pane EXCEPT !.since = @ \cup {Live'[pane.item]}]
      BY <1>1, <2>2 DEF WatchBriefing
    <3>4. /\ pane' \in PaneShown /\ pane'.seen = pane.seen
          /\ pane'.since = pane.since \cup {Live'[pane.item]} /\ pane'.stage = "shown"
      BY <1>3, <3>1, <3>2, <3>3 DEF PaneShown
    <3>. QED  BY <3>1, <3>4 DEF PaneSound
  <2>3. CASE pane.stage \notin {"row", "shown"}
    BY <1>1, <2>3 DEF PaneSound, WatchBriefing, PaneAsked, PaneRow, PaneShown, Blank
  <2>. QED  BY <2>1, <2>2, <2>3
<1>6. PostSound'
  <2>1. CASE post.stage = "sent"
    <3>1. post \in PostSent /\ post.seen \in post.since
      BY <1>1, <2>1 DEF PostSound, PostSent, PostHasRow,
         PostHasRead, PostDone, NoPost
    <3>2. post.item \in Updates /\ post.since \in SUBSET Said
      BY <3>1 DEF PostSent
    <3>3. post' = [post EXCEPT !.since = @ \cup {Live'[post.item]}]
      BY <1>1, <2>1 DEF WatchBriefing
    <3>4. /\ post' \in PostSent /\ post'.seen = post.seen
          /\ post'.since = post.since \cup {Live'[post.item]} /\ post'.stage = "sent"
      BY <1>3, <3>1, <3>2, <3>3 DEF PostSent
    <3>. QED  BY <3>1, <3>4 DEF PostSound
  <2>2. CASE post.stage = "row"
    <3>1. /\ post \in PostHasRow /\ post.seen \in post.since
          /\ HadRun(post.run, post.item) /\ Overlay(post.run, post.item) \in post.during
      BY <1>1, <2>2 DEF PostSound, PostSent, PostHasRow,
         PostHasRead, PostDone, NoPost
    <3>2. /\ post.item \in Updates /\ post.run \in MaybeRun
          /\ post.since \in SUBSET Said /\ post.during \in SUBSET Said
      BY <3>1 DEF PostHasRow
    <3>3. post' = [post EXCEPT !.since = @ \cup {Live'[post.item]},
                             !.during = @ \cup {Live'[post.item]}]
      BY <1>1, <2>2 DEF WatchBriefing
    <3>4. /\ post' \in PostHasRow /\ post'.item = post.item /\ post'.run = post.run
          /\ post'.seen = post.seen /\ post'.stage = "row"
          /\ post'.since = post.since \cup {Live'[post.item]}
          /\ post'.during = post.during \cup {Live'[post.item]}
      BY <1>3, <3>1, <3>2, <3>3 DEF PostHasRow
    <3>5. PICK u \in Updates, r \in MaybeRun : u = post.item /\ r = post.run
      BY <3>2
    <3>6. HadRun(r, u) /\ Overlay(r, u) \in post.during
      BY <3>1, <3>5
    <3>7. HadRun(r, u)' /\ Overlay(r, u)' \in post.during \cup {Live'[u]}
      <4>1. PICK S : S = post.during
        OBVIOUS
      <4>2. Overlay(r, u)' \in S \cup {Live'[u]}
        BY <1>1, <3>6, <4>1, WatchedStays
      <4>. QED  BY <1>2, <3>6, <4>1, <4>2
    <3>8. HadRun(post.run, post.item)' /\ Overlay(post.run, post.item)' \in post'.during
      BY <3>4, <3>5, <3>7 DEF HadRun, Overlay
    <3>. QED  BY <3>1, <3>4, <3>8 DEF PostSound
  <2>3. CASE post.stage = "read"
    <3>1. /\ post \in PostHasRead /\ post.seen \in post.since /\ post.snapshot \in post.during
          /\ post.snapshot # NoLevel => post.run # NoRun
      BY <1>1, <2>3 DEF PostSound, PostSent, PostHasRow,
         PostHasRead, PostDone, NoPost
    <3>2. /\ post.item \in Updates /\ post.run \in MaybeRun
          /\ post.since \in SUBSET Said /\ post.during \in SUBSET Said
      BY <3>1 DEF PostHasRead
    <3>3. post' = [post EXCEPT !.since = @ \cup {Live'[post.item]},
                             !.during = @ \cup {Live'[post.item]}]
      BY <1>1, <2>3 DEF WatchBriefing
    <3>4. /\ post' \in PostHasRead /\ post'.run = post.run
          /\ post'.seen = post.seen /\ post'.snapshot = post.snapshot /\ post'.stage = "read"
          /\ post'.since = post.since \cup {Live'[post.item]}
          /\ post'.during = post.during \cup {Live'[post.item]}
      BY <1>3, <3>1, <3>2, <3>3 DEF PostHasRead
    <3>. QED  BY <3>1, <3>4 DEF PostSound
  <2>4. CASE post.stage \notin {"sent", "row", "read"}
    <3>1. post' = post
      BY <1>1, <2>4 DEF WatchBriefing
    <3>. QED  BY <1>1, <2>4, <3>1 DEF PostSound
  <2>. QED  BY <2>1, <2>2, <2>3, <2>4
<1>. QED  BY <1>2, <1>4, <1>5, <1>6 DEF ExplorerInv

(* The invariant is inductive. *)
LEMMA NextKeepsExplorerInv ==
  ExplorerInv /\ [ExplorerNext]_explorerVars => ExplorerInv'
<1> SUFFICES ASSUME ExplorerInv, [ExplorerNext]_explorerVars PROVE ExplorerInv'
  OBVIOUS
<1>1. ASSUME UNCHANGED <<tables, pane, post, feedback>>
      PROVE  ExplorerInv'
  BY <1>1, TablesStay, PaneStays, PostStays, FeedbackStays DEF ExplorerInv
<1>2. CASE Walk
  BY <1>1, <1>2 DEF Walk, OpenList, CountUpdates, PageUpdates, PageInbox
<1>3. CASE Analyse
  BY <1>3, PaneStep, PostStep, SavedStep DEF Analyse
<1>4. CASE Written
  BY <1>4, WrittenStep
<1>5. CASE UNCHANGED explorerVars
  BY <1>1, <1>5 DEF explorerVars, visitors
<1>. QED  BY <1>2, <1>3, <1>4, <1>5 DEF ExplorerNext

(* In every reachable state an update has the run that stored it, a reader's  *)
(* copy of run_id is still so, and what was read has been said meanwhile.    *)
THEOREM ExplorerInvariant == ExplorerSpec => []ExplorerInv
BY InitExplorerInv, NextKeepsExplorerInv, PTL DEF ExplorerSpec

(* FeedbackQuotesBriefing: every row of update_feedback, as create_feedback  *)
(* inserts it, quotes what the briefing of the run it names said at one     *)
(* moment of the POST, and null if it names none.                          *)
THEOREM FeedbackIsQuoted == ExplorerSpec => []FeedbackQuotesBriefing
<1>1. ExplorerInv => FeedbackQuotesBriefing
  BY DEF ExplorerInv
<1>. QED  BY <1>1, ExplorerInvariant, PTL

-----------------------------------------------------------------------------
(* The lists, and the walks through them. *)

(* Two sets without a common element are counted apart.                     *)
LEMMA CountedApart ==
  ASSUME NEW A, NEW B, IsFiniteSet(A), IsFiniteSet(B), A \cap B = {}
  PROVE  IsFiniteSet(A \cup B) /\ Cardinality(A \cup B) = Cardinality(A) + Cardinality(B)
<1>1. /\ IsFiniteSet(A \cup B)
      /\ Cardinality(A \cup B) = Cardinality(A) + Cardinality(B) - Cardinality(A \cap B)
  BY FS_Union
<1>2. Cardinality(A \cap B) = 0
  BY FS_EmptySet
<1>3. Cardinality(A) \in Nat /\ Cardinality(B) \in Nat
  BY FS_CardinalityType
<1>. QED  BY <1>1, <1>2, <1>3

(* The places of the listed rows are 1 to their number, each taken once.    *)
LEMMA PlacesTaken ==
  ASSUME NEW S, NEW s \in Seq(S), IsInjective(s), NEW rows \in SUBSET ToSet(s)
  PROVE  /\ IsFiniteSet(rows) /\ Cardinality(rows) \in Nat
         /\ \A x \in rows : PlaceIn(s, rows, x) \in 1..Cardinality(rows)
         /\ \A x, y \in rows : Ahead(s, x, y) => PlaceIn(s, rows, x) < PlaceIn(s, rows, y)
         /\ \A k \in 1..Cardinality(rows) : \E x \in rows : PlaceIn(s, rows, x) = k
<1> DEFINE n == Cardinality(rows)
           Before(x) == {y \in rows : Ahead(s, y, x)}
           place == [x \in rows |-> PlaceIn(s, rows, x)]
<1>0. /\ \A x : ~ Ahead(s, x, x)
      /\ \A x, y, z : Ahead(s, x, y) /\ Ahead(s, y, z) => Ahead(s, x, z)
      /\ \A x, y \in rows : x # y => Ahead(s, x, y) \/ Ahead(s, y, x)
  BY AheadOrders
<1>1. IsFiniteSet(rows) /\ n \in Nat
  BY EntriesFinite, FS_Subset, FS_CardinalityType
<1>2. \A x \in rows : IsFiniteSet(Before(x)) /\ Cardinality(Before(x)) \in Nat
  BY <1>1, FS_Subset, FS_CardinalityType
<1>3. ASSUME NEW x \in rows
      PROVE  PlaceIn(s, rows, x) \in 1..n
  <2>1. Before(x) \in SUBSET (rows \ {x})
    BY <1>0
  <2>2. IsFiniteSet(rows \ {x}) /\ Cardinality(rows \ {x}) = n - 1
    BY <1>1, FS_RemoveElement
  <2> HIDE DEF n, Before
  <2>3. Cardinality(Before(x)) <= Cardinality(rows \ {x})
    BY <2>1, <2>2, FS_Subset
  <2>4. PlaceIn(s, rows, x) = 1 + Cardinality(Before(x))
    BY DEF PlaceIn, Before
  <2>5. Cardinality(Before(x)) \in Nat
    BY <1>2
  <2>. QED  BY <1>1, <2>2, <2>3, <2>4, <2>5
<1>4. ASSUME NEW x \in rows, NEW y \in rows, Ahead(s, x, y)
      PROVE  PlaceIn(s, rows, x) < PlaceIn(s, rows, y)
  <2>1. x \notin Before(x) /\ Before(x) \cup {x} \in SUBSET Before(y)
    BY <1>0, <1>4
  <2>2. Cardinality(Before(x) \cup {x}) = Cardinality(Before(x)) + 1
    BY <1>2, <2>1, FS_AddElement
  <2>3. Cardinality(Before(x) \cup {x}) <= Cardinality(Before(y))
    BY <1>2, <2>1, FS_Subset
  <2>4. Cardinality(Before(x)) \in Nat /\ Cardinality(Before(y)) \in Nat
    BY <1>2
  <2>5. /\ PlaceIn(s, rows, x) = 1 + Cardinality(Before(x))
        /\ PlaceIn(s, rows, y) = 1 + Cardinality(Before(y))
    BY DEF PlaceIn
  <2> HIDE DEF Before
  <2>. QED  BY <2>2, <2>3, <2>4, <2>5
<1>5. place \in Surjection(rows, 1..n)
  <2>1. place \in [rows -> 1..n]
    BY <1>3
  <2>2. \A x, y \in rows : place[x] = place[y] => x = y
    <3>1. TAKE x, y \in rows
    <3>2. x # y => Ahead(s, x, y) \/ Ahead(s, y, x)
      BY <1>0
    <3>3. PlaceIn(s, rows, x) \in Nat /\ PlaceIn(s, rows, y) \in Nat
      BY <1>1, <1>3
    <3>. QED  BY <1>4, <3>2, <3>3
  <2>3. place \in Injection(rows, 1..n)
    BY <2>1, <2>2 DEF Injection, IsInjective
  <2>4. IsFiniteSet(1..n) /\ Cardinality(1..n) = n
    BY <1>1, FS_Interval
  <2>. QED  BY <1>1, <2>3, <2>4, FS_Injection
<1>6. \A k \in 1..n : \E x \in rows : PlaceIn(s, rows, x) = k
  BY <1>5 DEF Surjection
<1>. QED  BY <1>1, <1>3, <1>4, <1>6

(* The rows of the first k places.                                          *)
Upto(s, rows, k) == {x \in rows : PlaceIn(s, rows, x) <= k}

(* There are k of them if there is one behind them.                         *)
LEMMA UptoCounts ==
  ASSUME NEW S, NEW s \in Seq(S), IsInjective(s), NEW rows \in SUBSET ToSet(s), NEW k \in Nat
  PROVE  /\ IsFiniteSet(Upto(s, rows, k)) /\ Cardinality(Upto(s, rows, k)) \in Nat
         /\ Cardinality(Upto(s, rows, k)) <= k
         /\ (\E x \in rows : PlaceIn(s, rows, x) > k) => Cardinality(Upto(s, rows, k)) = k
<1> DEFINE first == Upto(s, rows, k)
           place == [x \in first |-> PlaceIn(s, rows, x)]
<1>1. /\ IsFiniteSet(rows) /\ Cardinality(rows) \in Nat
      /\ \A x \in rows : PlaceIn(s, rows, x) \in 1..Cardinality(rows)
      /\ \A x, y \in rows : Ahead(s, x, y) => PlaceIn(s, rows, x) < PlaceIn(s, rows, y)
      /\ \A j \in 1..Cardinality(rows) : \E x \in rows : PlaceIn(s, rows, x) = j
  BY PlacesTaken
<1>2. first \in SUBSET rows /\ \A x \in rows : x \in first <=> PlaceIn(s, rows, x) <= k
  BY DEF Upto
<1> HIDE DEF first
<1>3. IsFiniteSet(first) /\ Cardinality(first) \in Nat
  BY <1>1, <1>2, FS_Subset, FS_CardinalityType
<1>4. IsFiniteSet(1..k) /\ Cardinality(1..k) = k
  BY FS_Interval
<1>5. place \in Injection(first, 1..k)
  <2>1. \A x \in first : place[x] \in 1..k
    BY <1>1, <1>2
  <2>2. \A x, y \in first : place[x] = place[y] => x = y
    <3>1. TAKE x, y \in first
    <3>2. x # y => Ahead(s, x, y) \/ Ahead(s, y, x)
      BY <1>2, AheadOrders
    <3>3. /\ PlaceIn(s, rows, x) \in Nat /\ PlaceIn(s, rows, y) \in Nat
          /\ place[x] = PlaceIn(s, rows, x) /\ place[y] = PlaceIn(s, rows, y)
      BY <1>1, <1>2
    <3>. QED  BY <1>1, <1>2, <3>2, <3>3
  <2>3. place \in [first -> 1..k]
    BY <2>1
  <2>. QED  BY <2>2, <2>3 DEF Injection, IsInjective
<1>6. Cardinality(first) <= k
  BY <1>4, <1>5, FS_Injection
<1>7. ASSUME NEW z \in rows, PlaceIn(s, rows, z) > k
      PROVE  Cardinality(first) = k
  <2>1. \A j \in 1..k : j \in 1..Cardinality(rows)
    BY <1>1, <1>7
  <2>2. \A j \in 1..k : \E x \in first : place[x] = j
    BY <1>1, <1>2, <2>1
  <2>3. place \in Surjection(first, 1..k)
    BY <1>5, <2>2 DEF Injection, Surjection
  <2>. QED  BY <1>4, <1>5, <2>3, FS_Injection
<1>. QED  BY <1>3, <1>6, <1>7 DEF first

(* What a page shows lies between two such.                                 *)
LEMMA CutIs ==
  ASSUME NEW S, Order \in Seq(S), IsInjective(Order), Listed \in SUBSET ToSet(Order),
         NEW k \in Nat, NEW n \in Nat
  PROVE  Cut(k, n) = Upto(Order, Listed, k + n) \ Upto(Order, Listed, k)
<1>1. \A x \in Listed : PlaceIn(Order, Listed, x) \in Nat
  BY PlacesTaken
<1>. QED  BY <1>1 DEF Cut, Upto

(***************************************************************************)
(* The heart of paging by offsets.  When the list changes and keeps the      *)
(* order of what stays, rows move up to the first k places only as others    *)
(* leave them: of the rows that stay, as many at most.                       *)
(***************************************************************************)
LEMMA MovedUp ==
  ASSUME NEW S, NEW s \in Seq(S), IsInjective(s), NEW rows \in SUBSET ToSet(s),
         NEW T, NEW t \in Seq(T), IsInjective(t), NEW rows2 \in SUBSET ToSet(t),
         \A x, y \in rows \cap rows2 : Ahead(s, x, y) => Ahead(t, x, y),
         NEW stay \in SUBSET rows, NEW k \in Nat
  PROVE  Cardinality(stay \cap rows2 \cap Upto(t, rows2, k))
           <= Cardinality(stay \cap Upto(s, rows, k)) + Cardinality(Upto(s, rows, k) \ rows2)
<1> DEFINE first == Upto(s, rows, k)
           second == Upto(t, rows2, k)
           had == stay \cap first
           has == stay \cap rows2 \cap second
           gone_ == first \ rows2
           kept == first \cap rows2
           come == has \ first
<1>1. /\ IsFiniteSet(first) /\ Cardinality(first) \in Nat /\ Cardinality(first) <= k
      /\ (\E x \in rows : PlaceIn(s, rows, x) > k) => Cardinality(first) = k
  BY UptoCounts
<1>2. IsFiniteSet(second) /\ Cardinality(second) \in Nat /\ Cardinality(second) <= k
  BY UptoCounts
<1>3. /\ first \in SUBSET rows /\ second \in SUBSET rows2
      /\ \A x \in rows : x \in first <=> PlaceIn(s, rows, x) <= k
      /\ \A x \in rows2 : x \in second <=> PlaceIn(t, rows2, x) <= k
  BY DEF Upto
<1> HIDE DEF first, second
<1>4. /\ IsFiniteSet(had) /\ IsFiniteSet(gone_) /\ IsFiniteSet(kept)
      /\ IsFiniteSet(has) /\ IsFiniteSet(come)
  BY <1>1, <1>2, FS_Subset
<1>5. /\ Cardinality(had) \in Nat /\ Cardinality(gone_) \in Nat /\ Cardinality(kept) \in Nat
      /\ Cardinality(has) \in Nat /\ Cardinality(come) \in Nat
  BY <1>4, FS_CardinalityType
<1>6. Cardinality(has) <= Cardinality(had) + Cardinality(come)
  <2>1. has \in SUBSET (had \cup come)
    OBVIOUS
  <2>2. had \cap come = {}
    OBVIOUS
  <2> HIDE DEF had, has, come
  <2>3. /\ IsFiniteSet(had \cup come)
        /\ Cardinality(had \cup come)
             = Cardinality(had) + Cardinality(come) - Cardinality(had \cap come)
    BY <1>4, FS_Union
  <2>4. Cardinality(had \cap come) = 0
    BY <2>2, FS_EmptySet
  <2>5. Cardinality(has) <= Cardinality(had \cup come)
    BY <2>1, <2>3, FS_Subset
  <2>. QED  BY <1>5, <2>3, <2>4, <2>5
<1>7. Cardinality(come) <= Cardinality(gone_)
  <2>1. CASE come = {}
    <3>1. Cardinality(come) = 0
      BY <2>1, FS_EmptySet
    <3>. QED  BY <1>5, <3>1
  <2>2. CASE come # {}
    <3>1. PICK x \in come : TRUE
      BY <2>2
    <3>2. x \in rows /\ x \in rows2 /\ x \in second /\ x \notin first
      BY <3>1
    <3>3. PlaceIn(s, rows, x) > k /\ PlaceIn(t, rows2, x) <= k
      <4>1. PlaceIn(s, rows, x) \in 1..Cardinality(rows) /\ Cardinality(rows) \in Nat
        BY <3>2, PlacesTaken
      <4>2. ~ (PlaceIn(s, rows, x) <= k)
        BY <1>3, <3>2
      <4>. QED  BY <1>3, <3>2, <4>1, <4>2
    <3>4. Cardinality(first) = k
      BY <1>1, <3>2, <3>3
    <3>5. ASSUME NEW y \in kept
          PROVE  y \in second
      <4>1. y \in rows /\ y \in rows2 /\ PlaceIn(s, rows, y) <= k /\ y # x
        BY <1>3, <3>2
      <4>2. ~ Ahead(s, x, y)
        <5>1. /\ PlaceIn(s, rows, y) \in Nat /\ PlaceIn(s, rows, x) \in Nat
              /\ Ahead(s, x, y) => PlaceIn(s, rows, x) < PlaceIn(s, rows, y)
          BY <3>2, <4>1, PlacesTaken
        <5>. QED  BY <3>3, <4>1, <5>1
      <4>3. Ahead(s, y, x)
        BY <3>2, <4>1, <4>2, AheadOrders
      <4>4. Ahead(t, y, x)
        BY <3>2, <4>1, <4>3
      <4>5. /\ PlaceIn(t, rows2, y) \in Nat /\ PlaceIn(t, rows2, x) \in Nat
            /\ PlaceIn(t, rows2, y) < PlaceIn(t, rows2, x)
        BY <3>2, <4>1, <4>4, PlacesTaken
      <4>6. PlaceIn(t, rows2, y) <= k
        BY <3>3, <4>5
      <4>. QED  BY <1>3, <4>1, <4>6
    <3>6. kept \cup come \in SUBSET second /\ kept \cap come = {}
      BY <3>5
    <3>7. kept \cup gone_ = first /\ kept \cap gone_ = {}
      OBVIOUS
    <3> HIDE DEF kept, come, gone_
    <3>8. Cardinality(kept \cup come) = Cardinality(kept) + Cardinality(come)
      BY <1>4, <1>5, <3>6, CountedApart
    <3>9. Cardinality(first) = Cardinality(kept) + Cardinality(gone_)
      BY <1>4, <1>5, <3>7, CountedApart
    <3>10. Cardinality(kept \cup come) <= Cardinality(second)
      BY <1>2, <3>6, FS_Subset
    <3>. QED  BY <1>2, <1>5, <3>4, <3>8, <3>9, <3>10
  <2>. QED  BY <2>1, <2>2
<1> HIDE DEF had, has, gone_, come, kept
<1>8. Cardinality(has) <= Cardinality(had) + Cardinality(gone_)
  BY <1>5, <1>6, <1>7
<1>. QED  BY <1>8 DEF has, had, gone_, first, second

(* The elements of a finite set in some order. *)
LEMMA ListOfSet ==
  ASSUME NEW S, IsFiniteSet(S), NEW s \in SetToSeqs(S)
  PROVE  s \in Seq(S) /\ ToSet(s) = S /\ IsInjective(s)
<1> DEFINE n == Cardinality(S)
<1>1. n \in Nat
  BY FS_CardinalityType
<1>2. s \in [1..n -> S] /\ \A i, j \in 1..n : i # j => s[i] # s[j]
  BY DEF SetToSeqs
<1>3. IsInjective(s)
  BY <1>2 DEF IsInjective
<1>4. IsFiniteSet(1..n) /\ Cardinality(1..n) = n
  BY <1>1, FS_Interval
<1>5. s \in Injection(1..n, S)
  BY <1>2, <1>3 DEF Injection
<1>6. s \in Surjection(1..n, S)
  BY <1>4, <1>5, FS_Injection
<1>7. ToSet(s) = S
  BY <1>2, <1>6 DEF ToSet, Surjection
<1>8. s \in Seq(S)
  BY <1>1, <1>2
<1>. QED  BY <1>3, <1>7, <1>8

(* The user has been told of u, or it waits for the digest. *)
Sent(u) == \E r \in routed : u \in batch[r]

(* Nothing is listed twice: a run is routed once, its updates are no other    *)
(* run's, and a digest's rows are deleted with its message.                *)
ListsSound ==
    /\ IsInjective(shelf) /\ ToSet(shelf) = UNION {batch[r] : r \in Runs}
    /\ waiting \subseteq reviewed /\ reviewed \cup routed \subseteq tagged
    /\ writes \in 0..MaxWrites /\ digest \in [Updates -> Said]
    /\ inbox \in Seq(Messages) /\ IsInjective(inbox) /\ unread \subseteq ToSet(inbox)
    /\ \A m \in ToSet(inbox) :
          m.about # {} /\ \A u \in m.about : Sent(u) /\ (m.digest => digest[u] = NoLevel)
    /\ \A u \in Updates : digest[u] # NoLevel => Sent(u)

(* What is ahead of another in a table stays ahead of it. *)
KeepsOrder == \A x, y : /\ Ahead(shelf, x, y) => Ahead(shelf', x, y)
                        /\ Ahead(inbox, x, y) => Ahead(inbox', x, y)

(* A poll stores updates that were not on the shelf. *)
LEMMA StoreKeepsLists ==
  ASSUME TablesSound, ListsSound, writes' \in 0..MaxWrites,
         NEW r \in Runs, NEW rows \in SetToAllKPermutations(Updates),
         NEW place \in 0..Len(shelf), StorePoll(r, rows, place)
  PROVE  ListsSound' /\ KeepsOrder
<1>1. rows \in Seq(Updates) /\ IsInjective(rows)
  BY ListedOnce
<1>2. /\ batch[r] = {} /\ rows # <<>> /\ ToSet(rows) \cap ToSet(shelf) = {}
      /\ batch' = [batch EXCEPT ![r] = ToSet(rows)]
      /\ shelf' = Inserted(shelf, rows, place)
      /\ UNCHANGED <<tagged, waiting, reviewed, briefing, routed, digest, inbox, unread>>
  BY DEF StorePoll
<1>3. shelf \in Seq(Updates) /\ IsInjective(shelf)
  BY DEF TablesSound, ListsSound
<1>4. /\ ToSet(shelf') = ToSet(shelf) \cup ToSet(rows)
      /\ \A x, y : Ahead(shelf, x, y) => Ahead(shelf', x, y)
      /\ IsInjective(shelf')
  BY <1>1, <1>2, <1>3, Spliced
<1>5. ToSet(shelf') = UNION {batch'[q] : q \in Runs}
  <2>1. \A q \in Runs : batch'[q] = IF q = r THEN ToSet(rows) ELSE batch[q]
    BY <1>2 DEF TablesSound
  <2>2. ToSet(shelf) = UNION {batch[q] : q \in Runs}
    BY DEF ListsSound
  <2>. QED  BY <1>2, <1>4, <2>1, <2>2
<1>6. r \notin routed
  BY <1>2 DEF TablesSound, ListsSound
<1>7. \A u : Sent(u)' <=> Sent(u)
  <2>1. \A q \in routed : batch'[q] = batch[q]
    BY <1>2, <1>6 DEF TablesSound, ListsSound
  <2>. QED  BY <1>2, <2>1 DEF Sent
<1>8. ListsSound'
  BY <1>2, <1>4, <1>5, <1>7 DEF ListsSound
<1>. QED  BY <1>2, <1>4, <1>8 DEF KeepsOrder

(* A run tells of its updates once, and nobody else has told of them. *)
LEMMA RouteKeepsLists ==
  ASSUME TablesSound, ListsSound, writes' \in 0..MaxWrites,
         NEW r \in Runs, NEW said \in Opinions(r),
         NEW place \in 0..Len(inbox), Route(r, said, place)
  PROVE  ListsSound' /\ KeepsOrder
<1> DEFINE news == {[about |-> {u}, level |-> said[u], digest |-> FALSE]
                      : u \in {v \in batch[r] : said[v] \in Urgent}}
<1>0. PICK now \in SetToSeqs(news) :
        inbox' = Inserted(inbox, now, place) /\ unread' = unread \cup ToSet(now)
  BY DEF Route
<1>1. /\ r \in tagged \ routed /\ inbox' = Inserted(inbox, now, place)
      /\ unread' = unread \cup ToSet(now)
      /\ digest' = [u \in Updates |->
                      IF u \in batch[r] /\ said[u] \notin Urgent THEN said[u] ELSE digest[u]]
      /\ routed' = routed \cup {r}
      /\ UNCHANGED <<shelf, batch, tagged, waiting, reviewed, briefing>>
  BY <1>0 DEF Route
<1>2. batch[r] \in SUBSET Updates /\ said \in [batch[r] -> Said]
  BY DEF TablesSound, Opinions, Said
<1>3. news \in SUBSET Messages
  <2>1. ASSUME NEW u \in batch[r], said[u] \in Urgent
        PROVE  [about |-> {u}, level |-> said[u], digest |-> FALSE] \in Messages
    <3>1. {u} \in SUBSET Updates /\ said[u] \in Levels
      BY <1>2, <2>1, ExplorerAssumption
    <3>. QED  BY <3>1 DEF Messages
  <2>. QED  BY <2>1
<1>4. IsFiniteSet(news)
  <2> DEFINE f == [u \in {v \in batch[r] : said[v] \in Urgent} |->
                      [about |-> {u}, level |-> said[u], digest |-> FALSE]]
  <2>1. f \in Surjection({v \in batch[r] : said[v] \in Urgent}, news)
    BY DEF Surjection
  <2>2. IsFiniteSet({v \in batch[r] : said[v] \in Urgent})
    BY <1>2, ExplorerAssumption, FS_Subset
  <2>. QED  BY <2>1, <2>2, FS_Surjection
<1>5. now \in Seq(Messages) /\ ToSet(now) = news /\ IsInjective(now)
  <2>1. now \in Seq(news) /\ ToSet(now) = news /\ IsInjective(now)
    BY <1>0, <1>4, ListOfSet
  <2> HIDE DEF news
  <2>. QED  BY <1>3, <2>1
<1>6. inbox \in Seq(Messages) /\ IsInjective(inbox)
  BY DEF ListsSound
<1>7. \A u : Sent(u)' <=> Sent(u) \/ u \in batch[r]
  BY <1>1 DEF Sent
<1>8. \A u : Sent(u) => u \notin batch[r]
  BY <1>1 DEF Sent, TablesSound, ListsSound
<1>9. \A m \in news : \E u \in batch[r] : m.about = {u} /\ ~ m.digest
  OBVIOUS
<1>10. ToSet(inbox) \cap news = {}
  BY <1>8, <1>9 DEF ListsSound
<1>11. /\ inbox' \in Seq(Messages) /\ ToSet(inbox') = ToSet(inbox) \cup news
       /\ \A x, y : Ahead(inbox, x, y) => Ahead(inbox', x, y)
       /\ IsInjective(inbox')
  BY <1>1, <1>5, <1>6, <1>10, Spliced
<1> HIDE DEF news
<1>12. digest' \in [Updates -> Said]
  BY <1>1, <1>2 DEF ListsSound
<1>13. \A m \in ToSet(inbox') :
          m.about # {} /\ \A u \in m.about : Sent(u)' /\ (m.digest => digest'[u] = NoLevel)
  <2>1. ASSUME NEW m \in ToSet(inbox)
        PROVE  m.about # {} /\ \A u \in m.about : Sent(u)' /\ (m.digest => digest'[u] = NoLevel)
    <3>1. m.about \in SUBSET Updates
      <4>1. m \in Messages
        BY <1>6, EntriesFinite
      <4>. QED  BY <4>1 DEF Messages
    <3>. QED  BY <1>1, <1>7, <1>8, <3>1 DEF ListsSound
  <2>2. ASSUME NEW m \in news
        PROVE  m.about # {} /\ \A u \in m.about : Sent(u)' /\ (m.digest => digest'[u] = NoLevel)
    BY <1>7, <1>9
  <2>. QED  BY <1>11, <2>1, <2>2
<1>14. \A u \in Updates : digest'[u] # NoLevel => Sent(u)'
  BY <1>1, <1>7 DEF ListsSound
<1>15. ListsSound'
  BY <1>1, <1>5, <1>11, <1>12, <1>13, <1>14 DEF ListsSound
<1>. QED  BY <1>1, <1>11, <1>15 DEF KeepsOrder

(* A digest is about rows that no earlier digest was about, for those are gone. *)
LEMMA FlushKeepsLists ==
  ASSUME TablesSound, ListsSound, writes' \in 0..MaxWrites,
         NEW place \in 0..Len(inbox), FlushDigest(place)
  PROVE  ListsSound' /\ KeepsOrder
<1> DEFINE rows == {u \in Updates : digest[u] # NoLevel}
           note == [about |-> rows, level |-> digest[CHOOSE u \in rows : TRUE], digest |-> TRUE]
<1>1. /\ rows # {} /\ inbox' = Inserted(inbox, <<note>>, place)
      /\ unread' = unread \cup {note} /\ digest' = [u \in Updates |-> NoLevel]
      /\ UNCHANGED <<shelf, batch, tagged, waiting, reviewed, briefing, routed>>
  BY DEF FlushDigest
<1>2. rows \in SUBSET Updates /\ \A u \in rows : digest[u] \in Levels /\ digest[u] # NoLevel
  BY DEF ListsSound, Said
<1>3. note \in Messages
  <2>1. (CHOOSE u \in rows : TRUE) \in rows
    BY <1>1
  <2>. QED  BY <1>2, <2>1 DEF Messages
<1>4. note.about = rows /\ note.digest = TRUE
  OBVIOUS
<1> HIDE DEF note
<1>5. <<note>> \in Seq(Messages) /\ ToSet(<<note>>) = {note} /\ IsInjective(<<note>>)
  BY <1>3 DEF ToSet, IsInjective
<1>6. inbox \in Seq(Messages) /\ IsInjective(inbox)
  BY DEF ListsSound
<1>7. note \notin ToSet(inbox)
  BY <1>1, <1>2, <1>4 DEF ListsSound
<1>8. /\ inbox' \in Seq(Messages) /\ ToSet(inbox') = ToSet(inbox) \cup {note}
      /\ \A x, y : Ahead(inbox, x, y) => Ahead(inbox', x, y)
      /\ IsInjective(inbox')
  <2>1. PICK t \in Seq(Messages) : t = <<note>>
    BY <1>5
  <2>2. inbox' = Inserted(inbox, t, place) /\ ToSet(t) = {note} /\ IsInjective(t)
    BY <1>1, <1>5, <2>1
  <2>3. ToSet(inbox) \cap ToSet(t) = {}
    BY <1>7, <2>2
  <2>. QED  BY <1>6, <2>2, <2>3, Spliced
<1>9. \A u : Sent(u)' <=> Sent(u)
  BY <1>1 DEF Sent
<1>10. \A m \in ToSet(inbox') :
          m.about # {} /\ \A u \in m.about : Sent(u)' /\ (m.digest => digest'[u] = NoLevel)
  <2>1. ASSUME NEW m \in ToSet(inbox)
        PROVE  m.about # {} /\ \A u \in m.about : Sent(u)' /\ (m.digest => digest'[u] = NoLevel)
    <3>1. m.about \in SUBSET Updates
      <4>1. m \in Messages
        BY <1>6, EntriesFinite
      <4>. QED  BY <4>1 DEF Messages
    <3>. QED  BY <1>1, <1>9, <3>1 DEF ListsSound
  <2>2. note.about # {} /\ \A u \in note.about : Sent(u)' /\ digest'[u] = NoLevel
    BY <1>1, <1>4, <1>9 DEF ListsSound
  <2>. QED  BY <1>8, <2>1, <2>2
<1>11. digest' \in [Updates -> Said] /\ \A u \in Updates : digest'[u] = NoLevel
  BY <1>1 DEF Said
<1>12. ListsSound'
  BY <1>1, <1>8, <1>10, <1>11 DEF ListsSound
<1>. QED  BY <1>1, <1>8, <1>12 DEF KeepsOrder

(* What is listed keeps its order, whoever writes. *)
LEMMA WriteKeepsLists ==
  ASSUME TablesSound, ListsSound, Write
  PROVE  ListsSound' /\ KeepsOrder
<1>0. writes' \in 0..MaxWrites
  BY ExplorerAssumption DEF Write, ListsSound
<1>1. ASSUME NEW r \in Runs, TagRows(r) \/ QueueReview(r) \/ CloseReview(r)
      PROVE  ListsSound' /\ KeepsOrder
  <2>1. /\ UNCHANGED <<shelf, batch, briefing, routed, digest, inbox, unread>>
        /\ tagged \subseteq tagged' /\ waiting' \subseteq reviewed'
        /\ reviewed' \subseteq tagged'
    <3>1. CASE TagRows(r)
      BY <3>1 DEF TagRows, ListsSound
    <3>2. CASE QueueReview(r)
      BY <3>2 DEF QueueReview, ListsSound
    <3>3. CASE CloseReview(r)
      BY <3>3 DEF CloseReview, ListsSound
    <3>. QED  BY <1>1, <3>1, <3>2, <3>3
  <2>2. \A u : Sent(u)' <=> Sent(u)
    BY <2>1 DEF Sent
  <2>. QED  BY <1>0, <2>1, <2>2 DEF ListsSound, KeepsOrder
<1>2. ASSUME NEW r \in Runs, NEW said, UpsertBriefing(r, said)
      PROVE  ListsSound' /\ KeepsOrder
  <2>1. UNCHANGED <<shelf, batch, tagged, waiting, reviewed, routed, digest, inbox, unread>>
    BY <1>2 DEF UpsertBriefing
  <2>2. \A u : Sent(u)' <=> Sent(u)
    BY <2>1 DEF Sent
  <2>. QED  BY <1>0, <2>1, <2>2 DEF ListsSound, KeepsOrder
<1>3. ASSUME NEW m \in unread, MarkRead(m)
      PROVE  ListsSound' /\ KeepsOrder
  <2>1. /\ UNCHANGED <<shelf, batch, tagged, waiting, reviewed, briefing, routed, digest, inbox>>
        /\ unread' \subseteq unread
    BY <1>3 DEF MarkRead
  <2>2. \A u : Sent(u)' <=> Sent(u)
    BY <2>1 DEF Sent
  <2>. QED  BY <1>0, <2>1, <2>2 DEF ListsSound, KeepsOrder
<1>4. CASE \E r \in Runs : \E rows \in SetToAllKPermutations(Updates), place \in 0..Len(shelf) :
              StorePoll(r, rows, place)
  BY <1>0, <1>4, StoreKeepsLists
<1>5. CASE \E r \in Runs : TagRows(r) \/ QueueReview(r) \/ CloseReview(r)
  BY <1>1, <1>5
<1>6. CASE \E r \in Runs : \E said \in Opinions(r) : UpsertBriefing(r, said)
  BY <1>2, <1>6
<1>7. CASE \E r \in Runs : \E said \in Opinions(r), place \in 0..Len(inbox) : Route(r, said, place)
  BY <1>0, <1>7, RouteKeepsLists
<1>8. CASE \E place \in 0..Len(inbox) : FlushDigest(place)
  BY <1>0, <1>8, FlushKeepsLists
<1>9. CASE \E m \in unread : MarkRead(m)
  BY <1>3, <1>9
<1>. QED  BY <1>4, <1>5, <1>6, <1>7, <1>8, <1>9, Zenon DEF Write

(* Whatever a list may show. *)
Showable == Updates \cup Messages

(* Whatever is listed, each entry is there once and in its order. *)
LEMMA ListIs ==
  ASSUME TablesSound, ListsSound
  PROVE  Order \in Seq(Showable) /\ IsInjective(Order) /\ Listed \in SUBSET ToSet(Order)
<1>1. /\ shelf \in Seq(Updates) /\ IsInjective(shelf)
      /\ inbox \in Seq(Messages) /\ IsInjective(inbox)
  BY DEF TablesSound, ListsSound
<1>2. shelf \in Seq(Showable) /\ inbox \in Seq(Showable)
  BY <1>1 DEF Showable
<1>. QED  BY <1>1, <1>2 DEF Order, Listed, UpdatesFor, MessagesFor

(* A page counts what lies between its ends.                                *)
LEMMA CutCounts ==
  ASSUME NEW S, Order \in Seq(S), IsInjective(Order), Listed \in SUBSET ToSet(Order),
         NEW k \in Nat, NEW n \in Nat
  PROVE  /\ IsFiniteSet(Cut(k, n)) /\ Upto(Order, Listed, k) \in SUBSET Upto(Order, Listed, k + n)
         /\ Cardinality(Cut(k, n))
              = Cardinality(Upto(Order, Listed, k + n)) - Cardinality(Upto(Order, Listed, k))
<1> DEFINE a == Upto(Order, Listed, k)
           b == Upto(Order, Listed, k + n)
<1>1. k + n \in Nat
  OBVIOUS
<1>2. IsFiniteSet(a) /\ IsFiniteSet(b)
  BY <1>1, UptoCounts
<1>3. a \in SUBSET b
  <2>1. \A x \in Listed : PlaceIn(Order, Listed, x) \in Nat
    BY PlacesTaken
  <2>. QED  BY <2>1 DEF Upto
<1>4. Cut(k, n) = b \ a
  BY CutIs
<1> HIDE DEF a, b
<1>5. IsFiniteSet(b \ a) /\ Cardinality(b \ a) = Cardinality(b) - Cardinality(b \cap a)
  BY <1>2, FS_Difference
<1>6. b \cap a = a
  BY <1>3
<1>7. IsFiniteSet(Cut(k, n)) /\ Cardinality(Cut(k, n)) = Cardinality(b) - Cardinality(a)
  BY <1>4, <1>5, <1>6
<1>. QED  BY <1>3, <1>7 DEF a, b

(* What a page leaves behind it: nothing that was not left behind before.   *)
LEMMA PageTurned ==
  ASSUME NEW S, Order \in Seq(S), IsInjective(Order), Listed \in SUBSET ToSet(Order),
         NEW k \in Nat, NEW n \in Nat, NEW stay \in SUBSET Listed, NEW shown, NEW c \in Nat,
         Cardinality((stay \ shown) \cap Upto(Order, Listed, k)) <= c
  PROVE  Cardinality((stay \ (shown \cup Cut(k, n))) \cap Upto(Order, Listed, k + n)) <= c
<1> DEFINE before == (stay \ shown) \cap Upto(Order, Listed, k)
           after == (stay \ (shown \cup Cut(k, n))) \cap Upto(Order, Listed, k + n)
<1>1. IsFiniteSet(Upto(Order, Listed, k))
  BY UptoCounts
<1>2. after \in SUBSET before
  BY CutIs
<1>3. IsFiniteSet(before)
  BY <1>1, FS_Subset
<1> HIDE DEF before, after
<1>4. IsFiniteSet(after) /\ Cardinality(after) <= Cardinality(before)
  BY <1>2, <1>3, FS_Subset
<1>5. Cardinality(after) \in Nat /\ Cardinality(before) \in Nat
  BY <1>3, <1>4, FS_CardinalityType
<1>. QED  BY <1>4, <1>5 DEF before, after

(* A full probe tells of a row behind the page. *)
LEMMA ProbeTells ==
  ASSUME NEW S, Order \in Seq(S), IsInjective(Order), Listed \in SUBSET ToSet(Order),
         NEW k \in Nat, NEW n \in Nat, Cardinality(Cut(k, n + 1)) <= n
  PROVE  Listed \subseteq Upto(Order, Listed, k + n)
<1>1. SUFFICES ASSUME NEW z \in Listed, ~ (PlaceIn(Order, Listed, z) <= k + n)
               PROVE  FALSE
  BY DEF Upto
<1> DEFINE u(j) == Upto(Order, Listed, j)
<1>2. /\ IsFiniteSet(Listed) /\ Cardinality(Listed) \in Nat
      /\ \A x \in Listed : PlaceIn(Order, Listed, x) \in 1..Cardinality(Listed)
      /\ \A j \in 1..Cardinality(Listed) : \E x \in Listed : PlaceIn(Order, Listed, x) = j
  BY PlacesTaken
<1>3. PlaceIn(Order, Listed, z) > k + n /\ k + n \in Nat
  BY <1>1, <1>2
<1>4. Cardinality(u(k + n)) = k + n /\ IsFiniteSet(u(k + n))
  BY <1>3, UptoCounts
<1>5. PICK x \in Listed : PlaceIn(Order, Listed, x) = k + n + 1
  BY <1>2, <1>3
<1>6. x \notin u(k + n) /\ u(k + n) \cup {x} \in SUBSET u(k + n + 1)
  <2>1. \A y \in Listed : PlaceIn(Order, Listed, y) \in Nat
    BY <1>2
  <2>. QED  BY <1>5, <2>1 DEF Upto
<1>7. /\ IsFiniteSet(u(k + n + 1)) /\ Cardinality(u(k + n + 1)) \in Nat
      /\ IsFiniteSet(u(k)) /\ Cardinality(u(k)) \in Nat /\ Cardinality(u(k)) <= k
  <2>1. k + n + 1 \in Nat
    OBVIOUS
  <2>. QED  BY <2>1, UptoCounts
<1>8. Cardinality(Cut(k, n + 1)) = Cardinality(u(k + n + 1)) - Cardinality(u(k))
  <2>1. n + 1 \in Nat /\ k + (n + 1) = k + n + 1
    OBVIOUS
  <2>2. Cardinality(Cut(k, n + 1)) = Cardinality(u(k + (n + 1))) - Cardinality(u(k))
    BY <2>1, CutCounts
  <2>. QED  BY <2>1, <2>2
<1> HIDE DEF u
<1>9. Cardinality(u(k + n) \cup {x}) = k + n + 1
  BY <1>3, <1>4, <1>6, FS_AddElement
<1>10. Cardinality(u(k + n) \cup {x}) <= Cardinality(u(k + n + 1))
  BY <1>6, <1>7, FS_Subset
<1>. QED  BY <1>7, <1>8, <1>9, <1>10

(* The last page leaves behind what was left behind before, and what came    *)
(* too late for the count that said it was the last.                       *)
LEMMA LastPage ==
  ASSUME NEW S, Order \in Seq(S), IsInjective(Order), Listed \in SUBSET ToSet(Order),
         NEW k \in Nat, NEW n \in Nat, NEW stay \in SUBSET Listed, NEW shown,
         NEW c \in Nat, NEW late \in Nat,
         Cardinality((stay \ shown) \cap Upto(Order, Listed, k)) <= c,
         \/ Listed \subseteq Upto(Order, Listed, k + n)
         \/ \E total \in Nat : /\ Cardinality(Listed) <= total + late
                               /\ ~ (k + Cardinality(Cut(k, n)) < total)
  PROVE  Cardinality(stay \ (shown \cup Cut(k, n))) <= c + late
<1> DEFINE u == Upto(Order, Listed, k + n)
           missed == stay \ (shown \cup Cut(k, n))
           above == missed \cap u
           below == Listed \ u
<1>1. /\ k + n \in Nat /\ IsFiniteSet(Listed) /\ Cardinality(Listed) \in Nat
      /\ \A x \in Listed : PlaceIn(Order, Listed, x) \in 1..Cardinality(Listed)
  BY PlacesTaken
<1>2. IsFiniteSet(u) /\ Cardinality(u) \in Nat /\ u \in SUBSET Listed
  <2>1. IsFiniteSet(u) /\ Cardinality(u) \in Nat
    BY <1>1, UptoCounts
  <2>. QED  BY <2>1 DEF Upto
<1>3. Cardinality(above) <= c
  BY PageTurned
<1>4. /\ IsFiniteSet(below) /\ Cardinality(below) = Cardinality(Listed) - Cardinality(u)
      /\ Cardinality(below) \in Nat
  <2>1. Listed \cap u = u
    BY <1>2
  <2> HIDE DEF u
  <2>2. IsFiniteSet(below) /\ Cardinality(below) = Cardinality(Listed) - Cardinality(Listed \cap u)
    BY <1>1, FS_Difference
  <2>3. Cardinality(below) \in Nat
    BY <2>2, FS_CardinalityType
  <2>. QED  BY <2>1, <2>2, <2>3
<1>5. Cardinality(below) <= late
  <2>1. CASE Listed \subseteq u
    <3>1. below = {}
      BY <2>1
    <3>2. Cardinality(below) = 0
      BY <3>1, FS_EmptySet
    <3>. QED  BY <3>2
  <2>2. CASE ~ (Listed \subseteq u)
    <3>1. PICK total \in Nat : /\ Cardinality(Listed) <= total + late
                               /\ ~ (k + Cardinality(Cut(k, n)) < total)
      BY <2>2
    <3>2. PICK z \in Listed : ~ (PlaceIn(Order, Listed, z) <= k + n)
      BY <2>2 DEF Upto
    <3>3. PlaceIn(Order, Listed, z) \in Nat
      BY <1>1
    <3>4. PlaceIn(Order, Listed, z) > k + n /\ PlaceIn(Order, Listed, z) > k
      BY <3>2, <3>3
    <3>5. Cardinality(u) = k + n
      BY <1>1, <3>4, UptoCounts
    <3>6. Cardinality(Upto(Order, Listed, k)) = k
      BY <3>4, UptoCounts
    <3>7. Cardinality(Cut(k, n)) = n
      BY <3>5, <3>6, CutCounts
    <3> HIDE DEF below, u
    <3>. QED  BY <1>1, <1>4, <3>1, <3>5, <3>7
  <2>. QED  BY <2>1, <2>2
<1>6. missed \in SUBSET (above \cup below)
  OBVIOUS
<1>7. IsFiniteSet(above)
  BY <1>2, FS_Subset
<1>8. above \cap below = {}
  OBVIOUS
<1> HIDE DEF missed, above, below, u
<1>9. /\ IsFiniteSet(above \cup below)
      /\ Cardinality(above \cup below) = Cardinality(above) + Cardinality(below)
  BY <1>4, <1>7, <1>8, CountedApart
<1>10. IsFiniteSet(missed) /\ Cardinality(missed) <= Cardinality(above \cup below)
  BY <1>6, <1>9, FS_Subset
<1>11. Cardinality(missed) \in Nat /\ Cardinality(above) \in Nat
  BY <1>7, <1>10, FS_CardinalityType
<1>12. Cardinality(missed) <= c + late
  BY <1>3, <1>4, <1>5, <1>9, <1>10, <1>11
<1>. QED  BY <1>12 DEF missed

(* A walk that has been opened. *)
Walks == [stage : {"ready", "counted", "done"}, offset : Nat, total : Nat,
          shown : SUBSET Showable, stay : SUBSET Showable, slipped : Nat, late : Nat]

(* Of the entries that have stayed, those above the place reached have been  *)
(* shown, but for as many as others that left from above let slip up there. *)
WalkSound ==
    /\ asked \in Filters \cup InboxFilters
    /\ walk \in {NotWalking, Closed} \cup Walks
    /\ walk.stage \in {"ready", "counted"} =>
         /\ walk.stay \subseteq Listed
         /\ Cardinality((walk.stay \ walk.shown) \cap Upto(Order, Listed, walk.offset))
              <= walk.slipped
    /\ walk.stage = "counted" => Cardinality(Listed) <= walk.total + walk.late
    /\ WalkMissesLittle

(* What the walks rely on, and how far they have come. *)
PagingInv == TablesSound /\ ListsSound /\ WalkSound

(* Who only reads leaves the lists as they are. *)
LEMMA ListsStay ==
  ASSUME TablesSound, ListsSound, UNCHANGED tables
  PROVE  TablesSound' /\ ListsSound' /\ (UNCHANGED asked => UNCHANGED <<Listed, Order>>)
<1>1. UNCHANGED <<shelf, batch, tagged, waiting, reviewed, briefing, routed, digest, inbox,
                  unread, writes>>
  BY DEF tables
<1>2. TablesSound'
  BY <1>1 DEF TablesSound, Opinions
<1>3. ListsSound'
  BY <1>1 DEF ListsSound, Sent
<1>4. ASSUME UNCHANGED asked
      PROVE  UNCHANGED <<Listed, Order>>
  BY <1>1, <1>4 DEF Listed, Order, UpdatesFor, MessagesFor, Passes, PassesSeverity, Derived,
                    ToldOf, Status, Overlay, RunIdOf
<1>. QED  BY <1>2, <1>3, <1>4

(* A step of the walk itself. *)
LEMMA WalkStep ==
  ASSUME PagingInv, Walk
  PROVE  PagingInv'
<1>1. UNCHANGED <<tables, asked>>
  BY DEF Walk, OpenList, CountUpdates, PageUpdates, PageInbox
<1>2. TablesSound' /\ ListsSound' /\ UNCHANGED <<Listed, Order, asked>>
  BY <1>1, ListsStay DEF PagingInv
<1>3. Order \in Seq(Showable) /\ IsInjective(Order) /\ Listed \in SUBSET ToSet(Order)
  BY ListIs DEF PagingInv
<1>4. Listed \in SUBSET Showable /\ IsFiniteSet(Listed) /\ Cardinality(Listed) \in Nat
  BY <1>3, EntriesFinite, PlacesTaken
<1>5. PageSize \in Nat /\ PageSize # 0
  BY ExplorerAssumption
<1>6. CASE OpenList
  <2>1. walk = Closed /\ walk' = [walk EXCEPT !.stage = "ready", !.stay = Listed]
    BY <1>6 DEF OpenList, PagingInv, WalkSound, NotWalking, Walks
  <2>2. walk' \in Walks /\ walk'.stage = "ready" /\ walk'.stay = Listed /\ walk'.shown = {}
        /\ walk'.offset = 0 /\ walk'.slipped = 0
    BY <1>4, <2>1 DEF Closed, Walks
  <2>3. Upto(Order, Listed, 0) = {}
    <3>1. \A x \in Listed : PlaceIn(Order, Listed, x) \in 1..Cardinality(Listed)
      BY <1>3, PlacesTaken
    <3>. QED  BY <1>4, <3>1 DEF Upto
  <2>4. Cardinality((walk'.stay \ walk'.shown) \cap Upto(Order', Listed', walk'.offset)) = 0
    BY <1>2, <2>2, <2>3, FS_EmptySet
  <2>5. WalkSound'
    BY <1>2, <2>2, <2>4 DEF PagingInv, WalkSound, WalkMissesLittle
  <2>. QED  BY <1>2, <2>5 DEF PagingInv
<1>7. ASSUME walk.stage \in {"ready", "counted"}
      PROVE  /\ walk \in Walks /\ walk.stay \in SUBSET Listed
             /\ walk.offset \in Nat /\ walk.total \in Nat /\ walk.slipped \in Nat /\ walk.late \in Nat
             /\ walk.shown \in SUBSET Showable
             /\ Cardinality((walk.stay \ walk.shown) \cap Upto(Order, Listed, walk.offset))
                  <= walk.slipped
  BY <1>7 DEF PagingInv, WalkSound, NotWalking, Closed, Walks
<1>8. CASE CountUpdates
  <2>1. walk' = [walk EXCEPT !.stage = "counted", !.total = Cardinality(Listed), !.late = 0]
        /\ walk.stage = "ready"
    BY <1>8 DEF CountUpdates
  <2>2. /\ walk' \in Walks /\ walk'.stage = "counted" /\ walk'.stay = walk.stay
        /\ walk'.shown = walk.shown /\ walk'.offset = walk.offset
        /\ walk'.slipped = walk.slipped /\ walk'.total = Cardinality(Listed) /\ walk'.late = 0
    BY <1>4, <1>7, <2>1 DEF Walks
  <2>3. WalkSound'
    BY <1>2, <1>4, <1>7, <2>1, <2>2 DEF PagingInv, WalkSound, WalkMissesLittle
  <2>. QED  BY <1>2, <2>3 DEF PagingInv
<1>9. ASSUME NEW more \in BOOLEAN, walk.stage \in {"ready", "counted"},
             Turned(Cut(walk.offset, PageSize), more),
             more \/ \/ Listed \subseteq Upto(Order, Listed, walk.offset + PageSize)
                     \/ \E total \in Nat :
                           /\ Cardinality(Listed) <= total + walk.late
                           /\ ~ (walk.offset + Cardinality(Cut(walk.offset, PageSize)) < total)
      PROVE  PagingInv'
  <2> DEFINE items == Cut(walk.offset, PageSize)
  <2>1. items \in SUBSET Showable
    BY <1>4 DEF Cut
  <2>2. /\ walk' = [walk EXCEPT !.shown = @ \cup items, !.offset = @ + PageSize,
                               !.stage = IF more THEN "ready" ELSE "done"]
        /\ walk \in Walks
    BY <1>7, <1>9 DEF Turned
  <2> HIDE DEF items
  <2>3. /\ walk' \in Walks /\ walk'.stage = (IF more THEN "ready" ELSE "done")
        /\ walk'.stay = walk.stay /\ walk'.shown = walk.shown \cup items
        /\ walk'.offset = walk.offset + PageSize
        /\ walk'.slipped = walk.slipped /\ walk'.late = walk.late
    <3>1. walk.offset + PageSize \in Nat /\ walk.shown \cup items \in SUBSET Showable
      BY <1>5, <1>7, <1>9, <2>1
    <3>2. (IF more THEN "ready" ELSE "done") \in {"ready", "counted", "done"}
      OBVIOUS
    <3>3. walk' \in Walks
      BY <2>2, <3>1, <3>2 DEF Walks
    <3>. QED  BY <2>2, <3>3 DEF Walks
  <2>4. Cardinality((walk.stay \ (walk.shown \cup items))
                      \cap Upto(Order, Listed, walk.offset + PageSize)) <= walk.slipped
    BY <1>3, <1>5, <1>7, <1>9, PageTurned DEF items
  <2>5. ASSUME ~ more
        PROVE  Cardinality(walk.stay \ (walk.shown \cup items)) <= walk.slipped + walk.late
    <3>1. \/ Listed \subseteq Upto(Order, Listed, walk.offset + PageSize)
          \/ \E total \in Nat :
                           /\ Cardinality(Listed) <= total + walk.late
                           /\ ~ (walk.offset + Cardinality(Cut(walk.offset, PageSize)) < total)
      BY <1>9, <2>5
    <3>2. /\ walk.stay \in SUBSET Listed /\ walk.offset \in Nat /\ walk.slipped \in Nat
          /\ walk.late \in Nat
          /\ Cardinality((walk.stay \ walk.shown) \cap Upto(Order, Listed, walk.offset))
                  <= walk.slipped
      BY <1>7, <1>9
    <3>. QED  BY <1>3, <1>5, <3>1, <3>2, LastPage DEF items
  <2>6. WalkSound'
    BY <1>2, <1>7, <1>9, <2>3, <2>4, <2>5 DEF PagingInv, WalkSound, WalkMissesLittle
  <2>. QED  BY <1>2, <2>6 DEF PagingInv
<1>10. CASE PageUpdates
  <2>1. /\ walk.stage = "counted"
        /\ Turned(Cut(walk.offset, PageSize),
                  walk.offset + Cardinality(Cut(walk.offset, PageSize)) < walk.total)
    BY <1>10 DEF PageUpdates
  <2>2. Cardinality(Listed) <= walk.total + walk.late /\ walk.total \in Nat
    BY <1>7, <2>1 DEF PagingInv, WalkSound
  <2> DEFINE more == walk.offset + Cardinality(Cut(walk.offset, PageSize)) < walk.total
  <2>3. more \in BOOLEAN
    OBVIOUS
  <2>4. more \/ \E total \in Nat :
                           /\ Cardinality(Listed) <= total + walk.late
                           /\ ~ (walk.offset + Cardinality(Cut(walk.offset, PageSize)) < total)
    BY <2>2
  <2>5. Turned(Cut(walk.offset, PageSize), more)
    BY <2>1
  <2> HIDE DEF more
  <2>. QED  BY <1>9, <2>1, <2>3, <2>4, <2>5
<1>11. CASE PageInbox
  <2> DEFINE rows == Cut(walk.offset, PageSize + 1)
             more == Cardinality(rows) > PageSize
  <2>1. /\ walk.stage = "ready"
        /\ Turned(rows \cap Cut(walk.offset, PageSize), more)
    BY <1>11 DEF PageInbox, Probed
  <2>2. rows \cap Cut(walk.offset, PageSize) = Cut(walk.offset, PageSize)
    <3>1. walk.offset \in Nat
      BY <1>7, <2>1
    <3>. QED  BY <1>5, <3>1 DEF Cut
  <2>3. Turned(Cut(walk.offset, PageSize), more)
    BY <2>1, <2>2
  <2>4. more \in BOOLEAN
    OBVIOUS
  <2>5. walk.offset \in Nat /\ PageSize + 1 \in Nat
    BY <1>5, <1>7, <2>1
  <2>6. Cardinality(rows) \in Nat
    BY <1>3, <2>5, CutCounts, FS_CardinalityType
  <2>7. more \/ Listed \subseteq Upto(Order, Listed, walk.offset + PageSize)
    <3>1. CASE Cardinality(rows) <= PageSize
      BY <1>3, <1>5, <2>5, <3>1, ProbeTells
    <3>. QED  BY <1>5, <2>6, <3>1
  <2> HIDE DEF more
  <2>. QED  BY <1>9, <2>1, <2>3, <2>4, <2>7
<1>. QED  BY <1>6, <1>8, <1>10, <1>11 DEF Walk

(* Writers move entries up past the place reached only by taking others out   *)
(* from above it, and each of these is counted.                            *)
LEMMA WrittenKeepsPaging ==
  ASSUME PagingInv, Written
  PROVE  PagingInv'
<1>1. TablesSound /\ ListsSound /\ Write /\ WatchWalk /\ UNCHANGED asked
  BY DEF PagingInv, Written
<1>2. TablesSound' /\ ListsSound' /\ KeepsOrder
  BY <1>1, WriteKeepsTables, WriteKeepsLists
<1>3. Order \in Seq(Showable) /\ IsInjective(Order) /\ Listed \in SUBSET ToSet(Order)
  BY <1>1, ListIs
<1>4. Order' \in Seq(Showable) /\ IsInjective(Order') /\ Listed' \in SUBSET ToSet(Order')
  <2>1. /\ shelf' \in Seq(Updates) /\ IsInjective(shelf')
        /\ inbox' \in Seq(Messages) /\ IsInjective(inbox')
    BY <1>2 DEF TablesSound, ListsSound
  <2>2. shelf' \in Seq(Showable) /\ inbox' \in Seq(Showable)
    BY <2>1 DEF Showable
  <2>. QED  BY <2>1, <2>2 DEF Order, Listed, UpdatesFor, MessagesFor
<1>5. \A x, y : Ahead(Order, x, y) => Ahead(Order', x, y)
  BY <1>1, <1>2 DEF KeepsOrder, Order
<1>6. /\ IsFiniteSet(Listed) /\ Cardinality(Listed) \in Nat
      /\ IsFiniteSet(Listed') /\ Cardinality(Listed') \in Nat
      /\ \A x \in Listed : PlaceIn(Order, Listed, x) \in 1..Cardinality(Listed)
  BY <1>3, <1>4, PlacesTaken
<1>7. CASE walk.stage \notin {"ready", "counted"}
  <2>1. UNCHANGED walk
    BY <1>1, <1>7 DEF WatchWalk
  <2>. QED  BY <1>1, <1>2, <1>7, <2>1 DEF PagingInv, WalkSound, WalkMissesLittle
<1>8. CASE walk.stage \in {"ready", "counted"}
  <2> DEFINE left == Cut(0, walk.offset) \ Listed'
             came == Listed' \ Listed
  <2>1. walk' = [walk EXCEPT !.stay = @ \cap Listed', !.slipped = @ + Cardinality(left),
                   !.late = IF walk.stage = "counted" THEN @ + Cardinality(came) ELSE @]
    BY <1>1, <1>8 DEF WatchWalk
  <2>2. /\ walk \in Walks /\ walk.stay \in SUBSET Listed
        /\ walk.offset \in Nat /\ walk.total \in Nat /\ walk.slipped \in Nat /\ walk.late \in Nat
        /\ Cardinality((walk.stay \ walk.shown) \cap Upto(Order, Listed, walk.offset))
                  <= walk.slipped
    BY <1>8 DEF PagingInv, WalkSound, NotWalking, Closed, Walks
  <2>3. IsFiniteSet(came) /\ Cardinality(came) \in Nat
    BY <1>6, FS_Subset, FS_CardinalityType
  <2>4. Cut(0, walk.offset) = Upto(Order, Listed, walk.offset)
    BY <1>6, <2>2 DEF Cut, Upto
  <2>5. IsFiniteSet(left) /\ Cardinality(left) \in Nat
    <3>1. left \in SUBSET Listed
      BY DEF Cut
    <3>. QED  BY <1>6, <3>1, FS_Subset, FS_CardinalityType
  <2>6. /\ walk' \in Walks /\ walk'.stage = walk.stage /\ walk'.stay = walk.stay \cap Listed'
        /\ walk'.shown = walk.shown /\ walk'.offset = walk.offset /\ walk'.total = walk.total
        /\ walk'.slipped = walk.slipped + Cardinality(left)
        /\ walk.stage = "counted" => walk'.late = walk.late + Cardinality(came)
    <3>1. walk.stay \cap Listed' \in SUBSET Showable
      BY <2>2 DEF Walks
    <3> HIDE DEF left, came
    <3>2. walk.slipped + Cardinality(left) \in Nat
      BY <2>2, <2>5
    <3>3. (IF walk.stage = "counted" THEN walk.late + Cardinality(came) ELSE walk.late) \in Nat
      BY <2>2, <2>3
    <3>4. walk' \in Walks
      BY <2>1, <2>2, <3>1, <3>2, <3>3 DEF Walks
    <3>. QED  BY <2>1, <2>2, <3>4 DEF Walks
  <2>7. Cardinality((walk.stay \ walk.shown) \cap Listed' \cap Upto(Order', Listed', walk.offset))
          <= Cardinality((walk.stay \ walk.shown) \cap Upto(Order, Listed, walk.offset))
               + Cardinality(Upto(Order, Listed, walk.offset) \ Listed')
    <3>1. walk.stay \ walk.shown \in SUBSET Listed
      BY <2>2
    <3>. QED  BY <1>3, <1>4, <1>5, <2>2, <3>1, MovedUp
  <2>8. Cardinality((walk'.stay \ walk'.shown) \cap Upto(Order', Listed', walk'.offset))
          <= walk'.slipped
    <3> DEFINE up == Upto(Order', Listed', walk.offset)
               at == Upto(Order, Listed, walk.offset)
    <3>1. (walk'.stay \ walk'.shown) \cap up = (walk.stay \ walk.shown) \cap Listed' \cap up
      BY <2>6
    <3>2. IsFiniteSet(up) /\ IsFiniteSet(at)
      BY <1>3, <1>4, <2>2, UptoCounts
    <3>3. /\ Cardinality((walk.stay \ walk.shown) \cap at) \in Nat
          /\ Cardinality((walk'.stay \ walk'.shown) \cap up) \in Nat
      BY <3>2, FS_Subset, FS_CardinalityType
    <3>4. Cardinality(left) = Cardinality(at \ Listed')
      BY <2>4
    <3>5. Cardinality((walk'.stay \ walk'.shown) \cap up)
            <= Cardinality((walk.stay \ walk.shown) \cap at) + Cardinality(left)
      BY <2>7, <3>1, <3>4
    <3>6. walk'.offset = walk.offset /\ walk'.slipped = walk.slipped + Cardinality(left)
      BY <2>6
    <3>7. Cardinality((walk.stay \ walk.shown) \cap at) <= walk.slipped
      BY <2>2
    <3> HIDE DEF left, at, up
    <3>8. Cardinality((walk'.stay \ walk'.shown) \cap up) <= walk'.slipped
      BY <2>2, <2>5, <3>3, <3>5, <3>6, <3>7
    <3>. QED  BY <3>6, <3>8 DEF up
  <2>9. ASSUME walk.stage = "counted"
        PROVE  Cardinality(Listed') <= walk'.total + walk'.late
    <3>1. Cardinality(Listed) <= walk.total + walk.late
      BY <2>9 DEF PagingInv, WalkSound
    <3>2. Cardinality(Listed') <= Cardinality(Listed) + Cardinality(came)
      <4>1. /\ IsFiniteSet(Listed \cup came)
            /\ Cardinality(Listed \cup came) = Cardinality(Listed) + Cardinality(came)
        BY <1>6, <2>3, CountedApart
      <4>2. Listed' \in SUBSET (Listed \cup came)
        OBVIOUS
      <4>3. Cardinality(Listed') <= Cardinality(Listed \cup came)
        BY <4>1, <4>2, FS_Subset
      <4>. QED  BY <4>1, <4>3
    <3>3. walk'.total = walk.total /\ walk'.late = walk.late + Cardinality(came)
      BY <2>6, <2>9
    <3> HIDE DEF came
    <3>. QED  BY <1>6, <2>2, <2>3, <3>1, <3>2, <3>3
  <2>10. walk'.stay \subseteq Listed' /\ walk'.stage # "done"
    BY <1>8, <2>6
  <2>11. WalkSound'
    BY <1>1, <2>6, <2>8, <2>9, <2>10 DEF PagingInv, WalkSound, WalkMissesLittle
  <2>. QED  BY <1>2, <2>11 DEF PagingInv
<1>. QED  BY <1>7, <1>8

(* The invariant is inductive. *)
LEMMA NextKeepsPaging == PagingInv /\ [ExplorerNext]_explorerVars => PagingInv'
<1> SUFFICES ASSUME PagingInv, [ExplorerNext]_explorerVars PROVE PagingInv'
  OBVIOUS
<1>1. ASSUME UNCHANGED <<tables, asked, walk>>
      PROVE  PagingInv'
  <2>1. TablesSound' /\ ListsSound' /\ UNCHANGED <<Listed, Order, asked, walk>>
    BY <1>1, ListsStay DEF PagingInv
  <2>. QED  BY <2>1 DEF PagingInv, WalkSound, WalkMissesLittle
<1>2. CASE Walk
  BY <1>2, WalkStep
<1>3. CASE Written
  BY <1>3, WrittenKeepsPaging
<1>4. CASE Analyse
  BY <1>1, <1>4 DEF Analyse, Select, DetailRow, DetailShown, Submit, PostRow, PostOverlay,
                    PostSaved, PostFails, PostAnswered
<1>5. CASE UNCHANGED explorerVars
  BY <1>1, <1>5 DEF explorerVars, visitors
<1>. QED  BY <1>2, <1>3, <1>4, <1>5 DEF ExplorerNext

(* Nothing is listed yet, and nobody walks.                                  *)
LEMMA InitPaging == ExplorerInit => PagingInv
<1> SUFFICES ASSUME ExplorerInit PROVE PagingInv
  OBVIOUS
<1>1. TablesSound
  BY DEF ExplorerInit, TablesSound, ToSet
<1>2. ListsSound
  BY ExplorerAssumption DEF ExplorerInit, ListsSound, ToSet, IsInjective, Said
<1>3. WalkSound
  BY DEF ExplorerInit, WalkSound, WalkMissesLittle, Closed, NotWalking
<1>. QED  BY <1>1, <1>2, <1>3 DEF PagingInv

(* WalkMissesLittle: whoever pages through the explorer or the notifications   *)
(* by offsets, while updates are stored, briefed, told and read, passes over *)
(* no more of what was listed all along than left from above the place      *)
(* reached, and came after the count that the last page was judged by.     *)
THEOREM WalksMissLittle == ExplorerSpec => []WalkMissesLittle
<1>1. PagingInv => WalkMissesLittle
  BY DEF PagingInv, WalkSound
<1>. QED  BY <1>1, InitPaging, NextKeepsPaging, PTL DEF ExplorerSpec

(* The form submits only while there is room for the row.                    *)
FormSound ==
    /\ busy \in BOOLEAN /\ Len(feedback) <= MaxFeedback
    /\ post.stage \in {"sent", "row", "read"} => Len(feedback) < MaxFeedback

(* No POST is started without room for its row. *)
LEMMA NextKeepsForm ==
  ExplorerInv /\ FormSound /\ [ExplorerNext]_explorerVars => FormSound'
<1> SUFFICES ASSUME ExplorerInv, FormSound, [ExplorerNext]_explorerVars PROVE FormSound'
  OBVIOUS
<1>1. feedback \in Seq(FeedbackRows) /\ Len(feedback) \in Nat /\ MaxFeedback \in Nat
  BY ExplorerAssumption DEF ExplorerInv
<1>2. ASSUME UNCHANGED <<busy, feedback>>, post'.stage = post.stage
      PROVE  FormSound'
  BY <1>2 DEF FormSound
<1>3. CASE Walk \/ (\E u \in ToSet(shelf) : Select(u)) \/ DetailRow \/ DetailShown
           \/ UNCHANGED explorerVars
  BY <1>2, <1>3 DEF Walk, OpenList, CountUpdates, PageUpdates, PageInbox, Select, DetailRow,
                    DetailShown, explorerVars, visitors
<1>4. CASE Submit
  BY <1>4 DEF Submit, FormSound
<1>5. CASE PostRow
  BY <1>5 DEF PostRow, FormSound
<1>6. CASE PostOverlay
  BY <1>6 DEF PostOverlay, FormSound
<1>7. CASE PostSaved
  <2>1. Len(feedback') = Len(feedback) + 1 /\ Len(feedback) < MaxFeedback
    <3> DEFINE f == [x \in {"item", "run", "snapshot", "seen", "since", "during"} |-> post[x]]
    <3>1. f \in FeedbackRows
      <4>1. post \in PostHasRead
        BY <1>7 DEF PostSaved, ExplorerInv, PostSound, PostSent, PostHasRow, PostHasRead,
                    PostDone, NoPost
      <4>. QED  BY <4>1 DEF PostHasRead, FeedbackRows
    <3>2. feedback' = Append(feedback, f)
      BY <1>7 DEF PostSaved
    <3> HIDE DEF f
    <3>3. Len(feedback') = Len(feedback) + 1
      BY <1>1, <3>1, <3>2, AppendProperties
    <3>. QED  BY <1>7, <3>3 DEF PostSaved, FormSound
  <2>. QED  BY <1>1, <1>7, <2>1 DEF PostSaved, FormSound
<1>8. CASE PostFails
  BY <1>8 DEF PostFails, FormSound
<1>9. CASE PostAnswered
  <2>1. busy' \in BOOLEAN /\ post' = NoPost /\ feedback' = feedback
    BY <1>9 DEF PostAnswered, FormSound
  <2>. QED  BY <2>1 DEF FormSound, NoPost
<1>10. CASE Written
  <2>1. post \in {NoPost} \cup PostSent \cup PostHasRow \cup PostHasRead \cup PostDone
    BY DEF ExplorerInv, PostSound
  <2>2. post'.stage = post.stage
    BY <1>10, <2>1 DEF Written, WatchBriefing, NoPost, PostSent, PostHasRow, PostHasRead, PostDone
  <2>. QED  BY <1>2, <1>10, <2>2 DEF Written
<1>. QED  BY <1>3, <1>4, <1>5, <1>6, <1>7, <1>8, <1>9, <1>10 DEF ExplorerNext, Analyse

(* The type invariant of what the explorer reads and shows.                 *)
THEOREM ExplorerTyped == ExplorerSpec => []ExplorerTypeOK
<1>1. ExplorerInit => FormSound
  <2> SUFFICES ASSUME ExplorerInit PROVE FormSound
    OBVIOUS
  <2>1. feedback = <<>> /\ busy = FALSE /\ post.stage = "none"
    BY DEF ExplorerInit, NoPost
  <2>2. Len(feedback) = 0
    BY <2>1
  <2>3. busy \in BOOLEAN
    BY <2>1
  <2>4. Len(feedback) <= MaxFeedback
    BY <2>2, ExplorerAssumption
  <2>. QED  BY <2>1, <2>3, <2>4 DEF FormSound
<1>2. ExplorerInv /\ FormSound /\ PagingInv => ExplorerTypeOK
  <2> SUFFICES ASSUME ExplorerInv, FormSound, PagingInv
               PROVE  ExplorerTypeOK
    OBVIOUS
  <2>1. /\ shelf \in Seq(Updates) /\ IsInjective(shelf)
        /\ batch \in [Runs -> SUBSET Updates] /\ UNION {batch[r] : r \in Runs} = ToSet(shelf)
        /\ tagged \subseteq Runs /\ waiting \subseteq reviewed /\ reviewed \cup routed \subseteq tagged
        /\ \A r \in Runs : briefing[r] = NoBriefing \/ briefing[r] \in Opinions(r)
        /\ writes \in 0..MaxWrites /\ digest \in [Updates -> Levels \cup {NoLevel}]
        /\ inbox \in Seq(Messages) /\ IsInjective(inbox) /\ unread \subseteq ToSet(inbox)
    BY DEF PagingInv, TablesSound, ListsSound, Said
  <2>2. /\ asked \in Filters \cup InboxFilters
        /\ walk # NotWalking =>
             /\ walk.stage \in {"closed", "ready", "counted", "done"}
             /\ {walk.offset, walk.total, walk.slipped, walk.late} \subseteq Nat
    BY DEF PagingInv, WalkSound, Closed, Walks
  <2>3. pane.stage \in {"blank", "asked", "row", "shown"}
    BY DEF ExplorerInv, PaneSound, Blank, PaneAsked, PaneRow, PaneShown
  <2>4. post.stage \in {"none", "sent", "row", "read", "saved"}
    BY DEF ExplorerInv, PostSound, NoPost, PostSent, PostHasRow, PostHasRead, PostDone
  <2>. QED  BY <2>1, <2>2, <2>3, <2>4 DEF ExplorerTypeOK, FormSound
<1>. QED  BY <1>1, <1>2, InitExplorerInv, NextKeepsExplorerInv, NextKeepsForm, InitPaging,
             NextKeepsPaging, PTL DEF ExplorerSpec

-----------------------------------------------------------------------------
(* The accounts. *)

(* Ids are not given out again: a token's account is its holder's, or gone. *)
TokensSound ==
    \A t \in tokens :
        t.sub \in ids /\ (users[t.sub] # NoUser => users[t.sub].secret = t.holder)

(* The fields of a call under way. *)
CallFields == {"stage", "token", "guard", "at", "earned"}

(* What it has earned so far: the account as it is counts, and so does the   *)
(* copy that get_current_user took.                                        *)
CallSound ==
    call # NoCall =>
        /\ CallFields \subseteq DOMAIN call
        /\ call.stage \in {"decoded", "known", "running"} /\ call.earned \in BOOLEAN
        /\ call.token \in tokens /\ call.at \in Nat /\ call.at < call.token.exp
        /\ Entitled(users[call.token.sub], call.token, call.guard) => call.earned
        /\ call.stage = "decoded" => DOMAIN call = CallFields
        /\ call.stage = "known" =>
              "role" \in DOMAIN call /\ (call.role \in call.guard => call.earned)
        /\ call.stage = "running" => call.earned

OneAccount ==
    \A i, j \in UserIds :
        users[i] # NoUser /\ users[j] # NoUser /\ users[i].email = users[j].email => i = j

AccountsInv == AccountsTypeOK /\ TokensSound /\ CallSound /\ OneAccount

(* JWT_EXPIRE_MINUTES is clamped. *)
LEMMA ExpiryBounded ==
  ASSUME setting \in Settings
  PROVE  ExpireMinutes \in 1..MaxMinutes
  BY AccountsAssumption DEF ExpireMinutes

(* No account, no token and no call yet. *)
LEMMA AccountsInitInv ==
  ASSUME AccountsInit
  PROVE  AccountsInv
  BY AccountsAssumption DEF AccountsInit, AccountsInv, AccountsTypeOK, TokensSound, CallSound,
                            OneAccount, NoCall

(* An id is new and the address is nobody's: no token is of that account. *)
LEMMA RegisterStep ==
  ASSUME AccountsInv, NEW p \in People, NEW typed \in Typed, Register(p, typed)
  PROVE  AccountsInv'
<1> DEFINE new == [email |-> Lower(typed).address, secret |-> p, role |-> "viewer",
                   is_active |-> TRUE]
<1>1. PICK i \in UserIds \ ids : users' = [users EXCEPT ![i] = new] /\ ids' = ids \cup {i}
  BY DEF Register
<1>2. UNCHANGED <<tokens, clock, setting, provider, call, byHand>>
  BY DEF Register
<1>3. ~ Lower(typed).capitals /\ Lower(typed).address \in Addresses
  BY DEF Typed, Lower
<1>4. new \in UserRows /\ new.email = Lower(typed).address
  BY <1>3 DEF UserRows, Roles
<1> HIDE DEF new
<1>5. new # NoUser /\ users[i] = NoUser
  BY <1>4, NoUserAssumption DEF AccountsInv, AccountsTypeOK
<1>6. AccountsTypeOK'
  BY <1>1, <1>2, <1>4 DEF AccountsInv, AccountsTypeOK
<1>7. TokensSound'
  BY <1>1, <1>2 DEF AccountsInv, AccountsTypeOK, TokensSound, Tokens
<1>8. CallSound'
  <2>1. ASSUME call # NoCall PROVE users'[call.token.sub] = users[call.token.sub]
    BY <1>1, <2>1 DEF AccountsInv, AccountsTypeOK, TokensSound, CallSound, Tokens
  <2>. QED  BY <1>2, <2>1 DEF AccountsInv, CallSound, Entitled
<1>9. OneAccount'
  <2>1. \A j \in UserIds : users[j] # NoUser => users[j].email # new.email
    BY <1>3, <1>4 DEF Register, UsersOf
  <2>. QED  BY <1>1, <1>5, <2>1 DEF AccountsInv, AccountsTypeOK, OneAccount
<1>. QED  BY <1>6, <1>7, <1>8, <1>9 DEF AccountsInv

(* A token is made out to the account whose password was given. *)
LEMMA LoginStep ==
  ASSUME AccountsInv, NEW p \in People, NEW typed \in Typed, Login(p, typed)
  PROVE  AccountsInv'
<1>1. PICK i \in Verified(p, typed) :
         tokens' = tokens \cup {[sub |-> i, holder |-> p, iat |-> clock,
                                 exp |-> clock + ExpireMinutes]}
  BY DEF Login
<1> DEFINE new == [sub |-> i, holder |-> p, iat |-> clock, exp |-> clock + ExpireMinutes]
<1>2. UNCHANGED <<users, ids, clock, setting, provider, call, byHand>>
  BY DEF Login
<1>3. i \in UserIds /\ users[i] # NoUser /\ users[i].secret = p
  BY DEF Verified, UsersOf
<1>4. clock \in Nat /\ ExpireMinutes \in 1..MaxMinutes /\ MaxMinutes \in Nat
  BY ExpiryBounded, AccountsAssumption DEF AccountsInv, AccountsTypeOK
<1>5. new \in Tokens /\ new.exp - new.iat \in 1..MaxMinutes /\ new.sub = i /\ new.holder = p
  BY <1>3, <1>4 DEF Tokens
<1> HIDE DEF new
<1>6. tokens' = tokens \cup {new}
  BY <1>1 DEF new
<1>7. AccountsTypeOK'
  BY <1>2, <1>5, <1>6 DEF AccountsInv, AccountsTypeOK
<1>8. TokensSound'
  BY <1>2, <1>3, <1>5, <1>6 DEF AccountsInv, AccountsTypeOK, TokensSound
<1>9. CallSound' /\ OneAccount'
  BY <1>2, <1>6 DEF AccountsInv, CallSound, OneAccount, Entitled
<1>. QED  BY <1>7, <1>8, <1>9 DEF AccountsInv

(* decode_token: the signature and the expiry. *)
LEMMA ArriveStep ==
  ASSUME AccountsInv, NEW t \in tokens, NEW guard \in Guards, Arrive(t, guard)
  PROVE  AccountsInv'
<1> DEFINE new == [stage |-> "decoded", token |-> t, guard |-> guard, at |-> clock,
                   earned |-> Entitled(users[t.sub], t, guard)]
<1>1. /\ call' = new /\ clock < t.exp
      /\ UNCHANGED <<users, ids, tokens, clock, setting, provider, byHand>>
  BY DEF Arrive
<1>2. /\ DOMAIN new = CallFields /\ new.stage = "decoded" /\ new.token = t /\ new.at = clock
      /\ new.guard = guard /\ new.earned = Entitled(users[t.sub], t, guard)
  BY DEF CallFields
<1>3. Entitled(users[t.sub], t, guard) \in BOOLEAN
  BY DEF AccountsInv, AccountsTypeOK, UserRows, Entitled, Tokens
<1> HIDE DEF new
<1>4. AccountsTypeOK' /\ TokensSound' /\ OneAccount'
  BY <1>1, <1>2 DEF AccountsInv, AccountsTypeOK, TokensSound, OneAccount
<1>5. CallSound'
  BY <1>1, <1>2, <1>3 DEF AccountsInv, AccountsTypeOK, CallSound
<1>. QED  BY <1>4, <1>5 DEF AccountsInv

(* The account as it is in this moment: its copy goes into the call. *)
LEMMA GetCurrentUserStep ==
  ASSUME AccountsInv, GetCurrentUser
  PROVE  AccountsInv'
<1>1. /\ call.stage = "decoded"
      /\ UNCHANGED <<users, ids, tokens, clock, setting, provider, byHand>>
  BY DEF GetCurrentUser
<1>2. call # NoCall
  BY <1>1 DEF NoCall
<1>3. PICK i \in Found(call.token) : users[i].is_active /\
         call' = [stage |-> "known", token |-> call.token, guard |-> call.guard, at |-> call.at,
                  earned |-> call.earned, role |-> users[i].role]
  BY DEF GetCurrentUser
<1>4. /\ i = call.token.sub /\ users[i] # NoUser /\ i \in UserIds
      /\ users[i].secret = call.token.holder
  BY <1>2 DEF Found, AccountsInv, TokensSound, CallSound
<1>5. CallFields \cup {"role"} \subseteq DOMAIN call' /\ call'.stage = "known"
  BY <1>3 DEF CallFields
<1>6. /\ call'.token = call.token /\ call'.guard = call.guard /\ call'.at = call.at
      /\ call'.earned = call.earned /\ call'.role = users[i].role
  BY <1>3
<1>7. AccountsTypeOK' /\ TokensSound' /\ OneAccount'
  BY <1>1, <1>5 DEF AccountsInv, AccountsTypeOK, TokensSound, OneAccount
<1>8. users[i].role \in call.guard => call.earned
  BY <1>2, <1>3, <1>4 DEF AccountsInv, CallSound, Entitled
<1>9. CallSound'
  BY <1>1, <1>2, <1>5, <1>6, <1>8 DEF AccountsInv, CallSound
<1>. QED  BY <1>7, <1>9 DEF AccountsInv

(* require_roles reads the copy, which was earned when it was taken. *)
LEMMA CheckRoleStep ==
  ASSUME AccountsInv, CheckRole
  PROVE  AccountsInv'
<1>1. /\ call.stage = "known" /\ call.role \in call.guard /\ call # NoCall
      /\ call' = [call EXCEPT !.stage = "running"]
      /\ UNCHANGED <<users, ids, tokens, clock, setting, provider, byHand>>
  BY DEF CheckRole, NoCall
<1>2. /\ DOMAIN call' = DOMAIN call /\ call'.stage = "running" /\ call'.token = call.token
      /\ call'.guard = call.guard /\ call'.at = call.at /\ call'.earned = call.earned
  BY <1>1 DEF AccountsInv, CallSound, CallFields
<1>3. AccountsTypeOK' /\ TokensSound' /\ OneAccount'
  BY <1>1, <1>2 DEF AccountsInv, AccountsTypeOK, TokensSound, OneAccount
<1>4. CallSound'
  BY <1>1, <1>2 DEF AccountsInv, CallSound
<1>. QED  BY <1>3, <1>4 DEF AccountsInv

(* The call ends, or time goes by. *)
LEMMA OverStep ==
  ASSUME AccountsInv, Refuse \/ Answer \/ Tick
  PROVE  AccountsInv'
<1>1. /\ UNCHANGED <<users, ids, tokens, setting, provider, byHand>>
      /\ (call' = NoCall \/ call' = call)
  BY DEF Refuse, Answer, Tick
<1>2. clock' \in 0..MaxClock
  BY AccountsAssumption DEF Refuse, Answer, Tick, AccountsInv, AccountsTypeOK
<1>. QED  BY <1>1, <1>2 DEF AccountsInv, AccountsTypeOK, TokensSound, CallSound, OneAccount,
                            Entitled, NoCall

(* What is changed by hand is noticed by the call under way. *)
LEMMA ByHandStep ==
  ASSUME AccountsInv, NEW i \in UserIds, ChangeByHand(i)
  PROVE  AccountsInv'
<1>1. UNCHANGED <<ids, tokens, clock, setting, provider>> /\ users[i] # NoUser
  BY DEF ChangeByHand
<1>2. byHand' \in 0..MaxByHand
  BY AccountsAssumption DEF ChangeByHand, AccountsInv, AccountsTypeOK
<1>3. PICK acc \in UserRows \cup {NoUser} :
         /\ users' = [users EXCEPT ![i] = acc]
         /\ acc # NoUser => acc.email = users[i].email /\ acc.secret = users[i].secret
  <2>1. users[i] \in UserRows
    BY <1>1 DEF AccountsInv, AccountsTypeOK
  <2>2. CASE users' = [users EXCEPT ![i] = NoUser]
    BY <2>2
  <2>3. ASSUME NEW r \in Roles, NEW a \in BOOLEAN,
               users' = [users EXCEPT ![i].role = r, ![i].is_active = a]
        PROVE  \E acc \in UserRows : /\ users' = [users EXCEPT ![i] = acc]
                                     /\ acc.email = users[i].email
                                     /\ acc.secret = users[i].secret
    <3> DEFINE acc == [users[i] EXCEPT !.role = r, !.is_active = a]
    <3>1. acc \in UserRows /\ acc.email = users[i].email /\ acc.secret = users[i].secret
      BY <2>1 DEF UserRows
    <3>2. users' = [users EXCEPT ![i] = acc]
      BY <2>3 DEF AccountsInv, AccountsTypeOK
    <3>. QED  BY <3>1, <3>2
  <2>. QED  BY <2>2, <2>3 DEF ChangeByHand
<1>4. /\ users' \in [UserIds -> UserRows \cup {NoUser}]
      /\ \A j \in UserIds \ ids : users'[j] = NoUser
  BY <1>1, <1>3 DEF AccountsInv, AccountsTypeOK
<1>5. TokensSound' /\ OneAccount'
  BY <1>1, <1>3 DEF AccountsInv, AccountsTypeOK, TokensSound, OneAccount, Tokens
<1>6. CASE call = NoCall
  <2>1. call' = NoCall
    BY <1>6 DEF ChangeByHand, Noticed, NoCall
  <2>. QED  BY <1>1, <1>2, <1>4, <1>5, <2>1 DEF AccountsInv, AccountsTypeOK, CallSound, NoCall
<1>7. CASE call # NoCall
  <2> DEFINE now == Entitled(users'[call.token.sub], call.token, call.guard)
  <2>1. call' = [call EXCEPT !.earned = @ \/ now]
    BY <1>7 DEF ChangeByHand, Noticed, AccountsInv, CallSound, CallFields
  <2>2. now \in BOOLEAN
    BY <1>4, <1>7 DEF AccountsInv, AccountsTypeOK, CallSound, UserRows, Entitled, Tokens
  <2>3. (call.earned \/ now) \in BOOLEAN
    BY <1>7, <2>2 DEF AccountsInv, CallSound
  <2>4. /\ DOMAIN call' = DOMAIN call /\ call'.stage = call.stage /\ call'.token = call.token
        /\ call'.guard = call.guard /\ call'.at = call.at /\ call'.earned = (call.earned \/ now)
        /\ "role" \in DOMAIN call => call'.role = call.role
    BY <1>7, <2>1 DEF AccountsInv, CallSound, CallFields
  <2>5. CallSound'
    BY <1>1, <1>7, <2>3, <2>4 DEF AccountsInv, CallSound
  <2>6. AccountsTypeOK'
    BY <1>1, <1>2, <1>4, <2>4 DEF AccountsInv, AccountsTypeOK
  <2>. QED  BY <1>5, <2>5, <2>6 DEF AccountsInv
<1>. QED  BY <1>6, <1>7

(* In every reachable state a token is its account's (or the account is      *)
(* gone), it lives no longer than the clamp, the call under way has earned   *)
(* what it was given, and an address names one account.                    *)
THEOREM AccountsInvariant == AccountsSpec => []AccountsInv
<1>1. AccountsInv /\ [AccountsNext]_accountVars => AccountsInv'
  <2>1. SUFFICES ASSUME AccountsInv, [AccountsNext]_accountVars PROVE AccountsInv'
    OBVIOUS
  <2>2. CASE UNCHANGED accountVars
    BY <2>1, <2>2 DEF accountVars, AccountsInv, AccountsTypeOK, TokensSound, CallSound,
                      OneAccount, Entitled
  <2>. QED  BY <2>1, <2>2, RegisterStep, LoginStep, ArriveStep, GetCurrentUserStep,
               CheckRoleStep, OverStep, ByHandStep DEF AccountsNext
<1>. QED  BY <1>1, AccountsInitInv, PTL DEF AccountsSpec

(* The type invariant of the accounts, their tokens and calls.                *)
THEOREM AccountsTyped == AccountsSpec => []AccountsTypeOK
<1>1. AccountsInv => AccountsTypeOK
  BY DEF AccountsInv
<1>. QED  BY <1>1, AccountsInvariant, PTL

(* AccessIsEarned: a handler runs only for a token whose account had the     *)
(* role, and was active, at one moment of the call, and that was not older   *)
(* than the clamp of JWT_EXPIRE_MINUTES; and an address names one account.   *)
THEOREM AccessEarned == AccountsSpec => []AccessIsEarned
<1>1. AccountsInv => AccessIsEarned
  <2>1. SUFFICES ASSUME AccountsInv, call.stage = "running"
                 PROVE  call.earned /\ call.at - call.token.iat < MaxMinutes
    BY DEF AccountsInv, OneAccount, AccessIsEarned
  <2>2. call # NoCall
    BY <2>1 DEF NoCall
  <2>3. call.token \in Tokens /\ call.token.exp - call.token.iat <= MaxMinutes
    BY <2>1, <2>2 DEF AccountsInv, AccountsTypeOK, CallSound
  <2>4. call.token.exp \in Nat /\ call.token.iat \in Nat /\ call.at \in Nat /\ MaxMinutes \in Nat
    BY <2>1, <2>2, <2>3, AccountsAssumption DEF Tokens, AccountsInv, CallSound
  <2>. QED  BY <2>1, <2>2, <2>3, <2>4 DEF AccountsInv, CallSound
<1>. QED  BY <1>1, AccountsInvariant, PTL
-----------------------------------------------------------------------------
(***************************************************************************)
(* The type invariant of what the console's visitors meet, side by side.    *)
(***************************************************************************)
THEOREM VisitorsTyped == ConsoleSpec => []VisitorsTypeOK
<1>1. ExplorerTypeOK /\ AccountsTypeOK => VisitorsTypeOK
  BY DEF VisitorsTypeOK
<1>. QED  BY <1>1, ExplorerTyped, AccountsTyped, PTL DEF ConsoleSpec
=============================================================================
