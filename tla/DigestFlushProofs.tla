------------------------- MODULE DigestFlushProofs -------------------------
(***************************************************************************)
(* Proofs about the digest queue.  For any number of flushers, any rows,    *)
(* creation times, teams and batch size: a flush uses the attempt log as    *)
(* its protocol demands, what leaves the queue was mailed, and undisturbed  *)
(* flushes tell and mail every member once.                                *)
(***************************************************************************)
EXTENDS DigestFlush, FiniteSetTheorems, WellFoundedInduction, TLAPS

LP == INSTANCE DeliveryLedgerProofs WITH
          Senders <- Flushers, Keys <- AttemptKeys

(* What a flusher has in hand, and what it has sent of it.                  *)
Message(f, u) == [user |-> u, anchor |-> Anchor(CurRows(f)), rows |-> CurRows(f),
                  lists |-> Listed(CurRows(f))]
Reached(f) == \E m \in mailed : m.ok /\ m.rows = CurRows(f)
Mails(f, u) == {m \in mailed : m.key[2] = u /\ m.rows = CurRows(f)}
Due(f, u) == u \in todo[f] \/ (stage[f] = "claimed" /\ holding[f] = Key(f, u))

(* Where the in-app messages of the rows in hand are written.              *)
Written == {"external", "send", "delete"}

(* A flusher that counts a success, or is about to delete, has mailed its   *)
(* rows; it has sent, is sending, or has counted something when it ends.    *)
Working(f) ==
    /\ pc[f] = "idle" <=> batch[f] = {}
    /\ \A r \in batch[f] : rowTeam[r] \in Teams
    /\ pc[f] \notin {"send", "delete"} => tally[f] = NoTally
    /\ pc[f] # "send" => todo[f] = {} /\ stage[f] = "idle"
    /\ pc[f] = "send" => \/ todo[f] # {} \/ stage[f] # "idle"
                         \/ tally[f].recorded \/ tally[f].skipped \/ tally[f].error
    /\ stage[f] # "idle" => \E x \in (Users \cup Teams) \ todo[f] : holding[f] = Key(f, x)
    /\ tally[f].recorded \/ stage[f] = "ok" => Reached(f)
    /\ pc[f] = "delete" /\ mode # "none" => Reached(f)

(* The rows are a team's, and a message is stored under its rows' digest.   *)
Stored ==
    /\ \A r \in gone : rowTeam[r] \in Teams
    /\ \A n \in inbox : n.rows # {} /\ n.anchor = Anchor(n.rows)

(* A message is of rows that were queued, and lists what its body holds.    *)
Composed ==
    \A m \in inbox \cup mailed :
        m.lists = Listed(m.rows) /\ \A r \in m.rows : r \in RowIds /\ rowTeam[r] \in Teams

(* What is gone is counted by an acknowledged message.                     *)
DeletedWasCounted ==
    mode # "none" => \A r \in gone : \E m \in mailed : m.ok /\ r \in m.rows

(* With nothing disturbed: one flusher works at a time, on rows nobody has   *)
(* deleted; it has told every member, and mails each once.                  *)
Alone == \A f, g \in Flushers : pc[f] # "idle" /\ pc[g] # "idle" => f = g

Steady(f) ==
    /\ batch[f] \cap gone = {}
    /\ stage[f] # "failed" /\ ~ tally[f].error /\ ~ tally[f].skipped
    /\ pc[f] \in Written =>
          /\ Members(CurTeam(f)) # {}
          /\ \A u \in Members(CurTeam(f)) : Message(f, u) \in inbox
    /\ pc[f] \in {"send", "delete"} /\ mode = "smtp" =>
          \A u \in Members(CurTeam(f)) :
             IF Due(f, u) THEN Mails(f, u) = {} ELSE \E m \in mailed : Mails(f, u) = {m}

(* Every message, mail and claim is of rows that are gone, or of those in    *)
(* hand.                                                                   *)
InHand(S, places) == \E f \in Flushers : pc[f] \in places /\ S = CurRows(f)

Accounted ==
    /\ \A n \in inbox : n.rows \subseteq gone \/ InHand(n.rows, Written)
    /\ \A m \in mailed : m.rows \subseteq gone \/ InHand(m.rows, {"send", "delete"})
    /\ \A k \in AttemptKeys : attempts[k] # "absent" =>
          \/ k[1] \in gone
          \/ \E f \in Flushers :
                pc[f] \in {"send", "delete"} /\ k[1] \in CurRows(f) /\ k[2] \notin todo[f]

(* A row that is gone was told, and over SMTP mailed, to every member once.*)
OnceEach ==
    \A r \in gone : \A u \in Members(rowTeam[r]) :
        /\ \E n \in inbox : {m \in inbox : m.user = u /\ r \in m.rows} = {n}
        /\ mode = "smtp" =>
             \E n \in mailed : {m \in mailed : m.key[2] = u /\ r \in m.rows} = {n}

Orderly == Alone /\ (\A f \in Flushers : Steady(f)) /\ Accounted /\ OnceEach

Undisturbed == disturbances = 0 => Orderly

(* The inductive invariant of a digest flush: of the log, of each flusher, *)
(* of what is stored, and of a queue nothing has disturbed.                *)
FlushInv ==
    /\ TypeOK
    /\ Ledger!IInv
    /\ \A f \in Flushers : Working(f)
    /\ Stored
    /\ Composed
    /\ DeletedWasCounted
    /\ Undisturbed

(* A step that is not f's.                                                 *)
SameFor(f) ==
    /\ pc'[f] = pc[f] /\ batch'[f] = batch[f] /\ todo'[f] = todo[f]
    /\ tally'[f] = tally[f] /\ stage'[f] = stage[f] /\ holding'[f] = holding[f]

(* What no step undoes.                                                    *)
Onward ==
    /\ mode' = mode
    /\ \A r \in RowIds : rowTeam[r] \in Teams =>
          rowTeam'[r] = rowTeam[r] /\ created'[r] = created[r]
    /\ gone \subseteq gone' /\ inbox \subseteq inbox' /\ mailed \subseteq mailed'
    /\ disturbances <= disturbances'

(* What one step of f does.                                                *)
StepOf(f) ==
    /\ TypeOK' /\ Onward /\ Stored' /\ Composed' /\ DeletedWasCounted'
    /\ \A g \in Flushers \ {f} : SameFor(g)
    /\ Working(f)'

(* What any step does.                                                     *)
StepSafe ==
    /\ TypeOK' /\ Onward /\ Stored' /\ Composed' /\ DeletedWasCounted'
    /\ \A f \in Flushers : Working(f)'
-----------------------------------------------------------------------------
(* The order of the naturals, as WFMin wants it.                           *)
NatLess == {p \in Nat \X Nat : p[1] < p[2]}

(* Anchor and Oldest are meant: a non-empty set has a least element.       *)
LEMMA LeastExists ==
  ASSUME NEW S \in SUBSET Nat, S # {}
  PROVE  \E x \in S : \A y \in S : x <= y
<1>1. IsWellFoundedOn(NatLess, Nat)
  BY NatLessThanWellFounded DEF OpToRel, NatLess
<1>2. PICK x \in S : \A y \in S : ~ (<<y, x>> \in NatLess)
  BY <1>1, WFMin
<1>3. \A y \in S : ~ (y < x)
  BY <1>2 DEF NatLess
<1>. QED  BY <1>3

(* _digest_run_id_for_rows names the digest after one of its rows.         *)
LEMMA AnchorOf ==
  ASSUME NEW S \in SUBSET RowIds, S # {}
  PROVE  Anchor(S) \in S
<1>1. S \in SUBSET Nat
  BY RowIdsAssumption
<1>. QED  BY <1>1, LeastExists DEF Anchor

(* list_pending_batch has a first row, whatever ties created_at leaves.    *)
LEMMA OldestExists ==
  ASSUME created \in [RowIds -> Instants \cup {0}], NEW S \in SUBSET RowIds, S # {}
  PROVE  Oldest(S) # {}
<1> DEFINE Times == {created[r] : r \in S}
<1>1. \A r \in S : created[r] \in Nat /\ r \in Nat
  <2>1. TAKE r \in S
  <2>2. created[r] \in Instants \cup {0} /\ r \in RowIds
    OBVIOUS
  <2>3. created[r] \in Nat
    <3>1. CASE created[r] = 0
      BY <3>1
    <3>2. CASE created[r] \in Instants
      BY <3>2, InstantsAssumption
    <3>. QED  BY <2>2, <3>1, <3>2
  <2>4. r \in Nat
    BY <2>2, RowIdsAssumption
  <2>. QED  BY <2>3, <2>4
<1>2. PICK q \in S : \A r \in S : created[q] <= created[r]
  <2>1. Times \in SUBSET Nat /\ Times # {}
    BY <1>1
  <2>2. PICK t \in Times : \A u \in Times : t <= u
    BY <2>1, LeastExists
  <2>. QED  BY <2>2
<1> DEFINE First == {r \in S : created[r] = created[q]}
<1>3. PICK p \in First : \A r \in First : p <= r
  <2>1. First \in SUBSET Nat /\ First # {}
    BY <1>1
  <2>. QED  BY <2>1, LeastExists
<1>4. \A r \in S : ~ Before(r, p)
  BY <1>1, <1>2, <1>3 DEF Before
<1>. QED  BY <1>3, <1>4 DEF Oldest

(* A flusher at work has rows of one team in hand, all of its snapshot.    *)
LEMMA InHandFacts ==
  ASSUME TypeOK, NEW f \in Flushers, Working(f), pc[f] # "idle"
  PROVE  /\ CurRows(f) \in SUBSET batch[f] /\ CurRows(f) \in SUBSET RowIds /\ CurRows(f) # {}
         /\ CurTeam(f) \in Teams /\ \A r \in CurRows(f) : rowTeam[r] = CurTeam(f)
         /\ Anchor(CurRows(f)) \in CurRows(f)
         /\ \A x \in Users \cup Teams : Key(f, x) \in AttemptKeys
<1>1. batch[f] # {} /\ batch[f] \in SUBSET RowIds
  BY DEF TypeOK, Working
<1>2. OneOf(Oldest(batch[f])) \in batch[f]
  <2>1. Oldest(batch[f]) # {}
    BY <1>1, OldestExists DEF TypeOK
  <2>. QED  BY <2>1 DEF OneOf, Oldest
<1>3. /\ CurRows(f) \in SUBSET batch[f] /\ CurRows(f) # {}
      /\ CurTeam(f) \in Teams /\ \A r \in CurRows(f) : rowTeam[r] = CurTeam(f)
  BY <1>2 DEF CurRows, CurTeam, Working
<1>4. Anchor(CurRows(f)) \in CurRows(f)
  BY <1>1, <1>3, AnchorOf
<1>. QED  BY <1>1, <1>3, <1>4 DEF Key, AttemptKeys

(* The order of queued rows, and with it what a digest of them lists, stands.*)
LEMMA ListedStands ==
  ASSUME Onward, NEW S, \A r \in S : r \in RowIds /\ rowTeam[r] \in Teams
  PROVE  {r \in S : Cardinality({q \in S : Before(q, r)'}) < Lines[S]} = Listed(S)
<1>1. \A q, r \in S : Before(q, r)' <=> Before(q, r)
  BY DEF Before, Onward
<1>2. \A r \in S : {q \in S : Before(q, r)'} = {q \in S : Before(q, r)}
  BY <1>1
<1>. QED  BY <1>2 DEF Listed, Leading

(* The rows in hand do not change with what others enqueue.                *)
LEMMA SameRows ==
  ASSUME TypeOK, NEW f \in Flushers, Working(f), Onward, batch'[f] = batch[f]
  PROVE  /\ CurRows(f)' = CurRows(f)
         /\ pc[f] # "idle" => CurTeam(f)' = CurTeam(f)
         /\ \A x : Key(f, x)' = Key(f, x)
         /\ Listed(CurRows(f))' = Listed(CurRows(f))
<1>1. \A r \in batch[f] : rowTeam'[r] = rowTeam[r] /\ created'[r] = created[r]
  BY DEF TypeOK, Working, Onward
<1>2. CASE pc[f] = "idle"
  <2>1. CurRows(f) = {} /\ CurRows(f)' = {}
    BY <1>2 DEF Working, CurRows
  <2>2. Listed(CurRows(f)) = {} /\ Listed(CurRows(f))' = {}
    BY <2>1 DEF Listed, Leading
  <2>. QED  BY <1>2, <2>1, <2>2 DEF Key
<1>3. CASE pc[f] # "idle"
  <2>1. Oldest(batch[f])' = Oldest(batch[f])
    BY <1>1 DEF Oldest, Before
  <2>2. OneOf(Oldest(batch[f])) \in batch[f]
    <3>1. Oldest(batch[f]) # {}
      BY <1>3, OldestExists DEF TypeOK, Working
    <3>. QED  BY <3>1 DEF OneOf, Oldest
  <2>3. CurTeam(f)' = CurTeam(f)
    BY <1>1, <2>1, <2>2 DEF CurTeam
  <2>4. CurRows(f)' = CurRows(f)
    BY <1>1, <2>3 DEF CurRows
  <2>5. Listed(CurRows(f))' = Listed(CurRows(f))
    <3>1. \A r \in CurRows(f) : r \in RowIds /\ rowTeam[r] \in Teams
      BY DEF CurRows, Working, TypeOK
    <3>2. {r \in CurRows(f) : Cardinality({q \in CurRows(f) : Before(q, r)'}) < Lines[CurRows(f)]}
             = Listed(CurRows(f))
      BY <3>1, ListedStands
    <3>. QED  BY <2>4, <3>2 DEF Listed, Leading
  <2>. QED  BY <2>3, <2>4, <2>5 DEF Key
<1>. QED  BY <1>2, <1>3

(* A flusher somebody else's step leaves alone stays as it was.            *)
LEMMA Frame ==
  ASSUME TypeOK, NEW f \in Flushers, Working(f), Onward, SameFor(f)
  PROVE  Working(f)'
<1>1. CurRows(f)' = CurRows(f) /\ \A x : Key(f, x)' = Key(f, x)
  BY SameRows DEF SameFor
<1>2. Reached(f) => Reached(f)'
  BY <1>1 DEF Reached, Onward
<1>3. \A r \in batch[f] : rowTeam'[r] \in Teams
  BY DEF TypeOK, Working, Onward
<1>. QED  BY <1>1, <1>2, <1>3 DEF Working, SameFor, Onward

(* The attempt log's own invariant, of the log a flush composes.           *)
LEMMA LedgerInit == Ledger!Init => Ledger!IInv
<1>1. Ledger!Init => LP!Init
  BY DEF Ledger!Init, LP!Init
<1>2. LP!Init => LP!IInv
  BY LP!InitIInv, NoKeyAssumption, MaxPostsAssumption
<1>3. LP!IInv => Ledger!IInv
  BY DEF Ledger!IInv, LP!IInv, Ledger!TypeOK, LP!TypeOK, Ledger!HoldersDistinct,
         LP!HoldersDistinct, Ledger!HeldIsPending, LP!HeldIsPending, Ledger!PostsBudget,
         LP!PostsBudget, Ledger!UnclaimedUntouched, LP!UnclaimedUntouched,
         Ledger!SingleSenderBound, LP!SingleSenderBound, Ledger!SuccessWasDelivered,
         LP!SuccessWasDelivered, LP!Stages, Ledger!Stages, Ledger!Outcomes, LP!Outcomes
<1>. QED  BY <1>1, <1>2, <1>3

(* Nor does a step of the log break it, or release a key.                  *)
LEMMA LedgerStep ==
  ASSUME Ledger!IInv, [Ledger!Next]_Ledger!vars
  PROVE  /\ Ledger!IInv'
         /\ \A k \in AttemptKeys : attempts[k] # "absent" => attempts'[k] # "absent"
<1>1. [LP!Next]_LP!vars
  BY DEF Ledger!Next, LP!Next, Ledger!vars, LP!vars, Ledger!Claim, LP!Claim, Ledger!TakeRow,
         LP!TakeRow, Ledger!AlreadyClaimed, LP!AlreadyClaimed, Ledger!ClaimOutcomeLost,
         LP!ClaimOutcomeLost, Ledger!Post, LP!Post, Ledger!Finalize, LP!Finalize,
         Ledger!FinalizeFails, LP!FinalizeFails, Ledger!Stop, LP!Stop, Ledger!Release,
         LP!Release, Ledger!Outcome, LP!Outcome
<1>2. LP!IInv
  BY DEF Ledger!IInv, LP!IInv, Ledger!TypeOK, LP!TypeOK, Ledger!HoldersDistinct,
         LP!HoldersDistinct, Ledger!HeldIsPending, LP!HeldIsPending, Ledger!PostsBudget,
         LP!PostsBudget, Ledger!UnclaimedUntouched, LP!UnclaimedUntouched,
         Ledger!SingleSenderBound, LP!SingleSenderBound, Ledger!SuccessWasDelivered,
         LP!SuccessWasDelivered, LP!Stages, Ledger!Stages, Ledger!Outcomes, LP!Outcomes
<1>3. LP!IInv'
  BY <1>1, <1>2, LP!StepIInv, NoKeyAssumption, MaxPostsAssumption
<1>4. LP!IInv' => Ledger!IInv'
  BY DEF Ledger!IInv, LP!IInv, Ledger!TypeOK, LP!TypeOK, Ledger!HoldersDistinct,
         LP!HoldersDistinct, Ledger!HeldIsPending, LP!HeldIsPending, Ledger!PostsBudget,
         LP!PostsBudget, Ledger!UnclaimedUntouched, LP!UnclaimedUntouched,
         Ledger!SingleSenderBound, LP!SingleSenderBound, Ledger!SuccessWasDelivered,
         LP!SuccessWasDelivered, LP!Stages, Ledger!Stages, Ledger!Outcomes, LP!Outcomes
<1>5. \A k \in AttemptKeys : attempts[k] # "absent" => attempts'[k] # "absent"
  BY <1>1, <1>2, LP!RowsAdvanceStep, NoKeyAssumption, MaxPostsAssumption
<1>. QED  BY <1>3, <1>4, <1>5

-----------------------------------------------------------------------------
(* Every step of a flush is one step of the attempt log, or none.          *)
LEMMA Simulation ==
  ASSUME FlushInv, [Next]_vars
  PROVE  [Ledger!Next]_Ledger!vars
<1>1. ASSUME NEW f \in Flushers, NEW x \in Users \cup Teams,
             ClaimRecipient(f, x) \/ SkipRecipient(f, x) \/ ClaimFails(f, x)
      PROVE  [Ledger!Next]_Ledger!vars
  <2>1. Key(f, x) \in AttemptKeys
    BY <1>1, InHandFacts DEF FlushInv, ClaimRecipient, SkipRecipient, ClaimFails
  <2>. QED  BY <1>1, <2>1 DEF ClaimRecipient, SkipRecipient, ClaimFails, Ledger!Next,
                              Ledger!vars, ledgerVars
<1>2. ASSUME NEW f \in Flushers, NEW accepted \in BOOLEAN, NEW answer \in {"ok", "rejected", "retryable"},
             PostDigest(f, accepted, answer)
      PROVE  [Ledger!Next]_Ledger!vars
  BY <1>2 DEF PostDigest, Ledger!Next
<1>3. ASSUME NEW f \in Flushers, FinalizeDigest(f) \/ FinalizeDigestFails(f) \/ Crash(f)
      PROVE  [Ledger!Next]_Ledger!vars
  BY <1>3 DEF FinalizeDigest, FinalizeDigestFails, Crash, Ledger!Next, Ledger!vars, ledgerVars
<1>4. CASE UNCHANGED ledgerVars
  BY <1>4 DEF ledgerVars, Ledger!vars
<1>5. ASSUME NEW f \in Flushers,
             \/ StartFlush(f) \/ NoRecipients(f) \/ SaveInApp(f) \/ SaveInAppFails(f)
             \/ StartExternal(f) \/ LookupFails(f) \/ EndExternal(f) \/ DeleteRows(f)
             \/ DeleteFails(f)
      PROVE  UNCHANGED ledgerVars
  BY <1>5 DEF StartFlush, NoRecipients, SaveInApp, SaveInAppFails, StartExternal, LookupFails,
              EndExternal, DeleteRows, DeleteFails
<1>6. (\E t \in Teams : Enqueue(t)) \/ (\E u \in Users : ChangeMembers(u)) \/ UNCHANGED vars
         => UNCHANGED ledgerVars
  BY DEF Enqueue, ChangeMembers, vars
<1>. QED  BY <1>1, <1>2, <1>3, <1>4, <1>5, <1>6 DEF Next, Progress, Fault

(* A step that deletes nothing and writes no message keeps what is stored.   *)
LEMMA StoredKept ==
  ASSUME TypeOK, Stored, Onward, UNCHANGED <<gone, inbox>>
  PROVE  Stored'
  BY DEF TypeOK, Stored, Onward

(* What a message lists stands, and a new one lists what its body holds.   *)
LEMMA ComposedKept ==
  ASSUME Composed, Onward, TypeOK,
         \A m \in (inbox' \cup mailed') \ (inbox \cup mailed) :
            m.lists = Listed(m.rows) /\ \A r \in m.rows : r \in RowIds /\ rowTeam[r] \in Teams
  PROVE  Composed'
<1>1. \A m \in inbox' \cup mailed' :
         m.lists = Listed(m.rows) /\ \A r \in m.rows : r \in RowIds /\ rowTeam[r] \in Teams
  BY DEF Composed
<1>2. \A m \in inbox' \cup mailed' :
         m.lists = Listed(m.rows)' /\ \A r \in m.rows : r \in RowIds /\ rowTeam'[r] \in Teams
  <2>1. TAKE m \in inbox' \cup mailed'
  <2>2. \A r \in m.rows : r \in RowIds /\ rowTeam[r] \in Teams
    BY <1>1
  <2>3. Listed(m.rows)' = Listed(m.rows)
    BY <2>2, ListedStands DEF Listed, Leading
  <2>. QED  BY <1>1, <2>2, <2>3 DEF Onward
<1>. QED  BY <1>2 DEF Composed

(* Mails are never taken back.                                             *)
LEMMA MailedKept ==
  ASSUME DeletedWasCounted, Onward, UNCHANGED gone
  PROVE  DeletedWasCounted'
  BY DEF DeletedWasCounted, Onward

(* On to the next team, with whatever the step stored or deleted.           *)
LEMMA NextTeamStep ==
  ASSUME FlushInv, Ledger!TypeOK', NEW f \in Flushers, pc[f] # "idle", NextTeam(f),
         UNCHANGED <<mode, teamOf, rowTeam, created>>,
         UNCHANGED <<stage, holding>>, stage[f] = "idle",
         gone \subseteq gone', gone' \subseteq RowIds, inbox \subseteq inbox', mailed' = mailed,
         inbox' \subseteq InAppMessages,
         disturbances' \in 0..MaxDisturbances, disturbances <= disturbances'
  PROVE  /\ TypeOK' /\ Onward /\ Working(f)'
         /\ \A g \in Flushers \ {f} : SameFor(g)
<1> USE DEF NextTeam
<1>1. TypeOK'
  BY DEF FlushInv, TypeOK, NoTally
<1>2. Onward
  BY DEF Onward
<1>3. \A g \in Flushers \ {f} : SameFor(g)
  BY DEF FlushInv, TypeOK, SameFor
<1>4. /\ batch'[f] = batch[f] \ CurRows(f) /\ todo'[f] = {} /\ tally'[f] = NoTally
      /\ pc'[f] = IF batch[f] = CurRows(f) THEN "idle" ELSE "in_app"
  BY DEF FlushInv, TypeOK
<1>5. CurRows(f) \in SUBSET batch[f]
  BY DEF CurRows
<1>6. Working(f)'
  <2>1. batch'[f] = {} <=> batch[f] = CurRows(f)
    BY <1>4, <1>5
  <2>2. \A r \in batch'[f] : rowTeam'[r] \in Teams
    BY <1>4 DEF FlushInv, Working
  <2>3. pc'[f] \in {"idle", "in_app"} /\ (pc'[f] = "idle" <=> batch'[f] = {})
    BY <1>4, <2>1
  <2>. QED  BY <1>4, <2>2, <2>3 DEF Working, NoTally
<1>. QED  BY <1>1, <1>2, <1>3, <1>6

(* A team is given up, or done with: what it deletes was mailed.           *)
LEMMA GiveUpStep ==
  ASSUME FlushInv, Ledger!TypeOK', NEW f \in Flushers,
         NoRecipients(f) \/ LookupFails(f) \/ DeleteFails(f) \/ DeleteRows(f)
  PROVE  StepOf(f)
<1>1. /\ pc[f] \in {"in_app", "external", "delete"} /\ NextTeam(f) /\ stage[f] = "idle"
      /\ UNCHANGED <<mode, teamOf, rowTeam, created, stage, holding, inbox, mailed>>
  BY DEF NoRecipients, LookupFails, DeleteFails, DeleteRows, FlushInv, Working, ledgerVars
<1>2. disturbances' \in 0..MaxDisturbances /\ disturbances <= disturbances'
  <2>1. UNCHANGED disturbances \/ Disturb
    BY DEF NoRecipients, LookupFails, DeleteFails, DeleteRows
  <2>. QED  BY <2>1, MaxDisturbancesAssumption DEF Disturb, FlushInv, TypeOK
<1>3. /\ CurRows(f) \in SUBSET RowIds
      /\ \A r \in CurRows(f) : rowTeam[r] \in Teams
      /\ pc[f] = "delete" /\ mode # "none" => Reached(f)
  BY <1>1, InHandFacts DEF FlushInv, Working
<1>4. gone' = gone \/ (pc[f] = "delete" /\ gone' = gone \cup CurRows(f))
  BY DEF NoRecipients, LookupFails, DeleteFails, DeleteRows, Doomed
<1>5. gone \subseteq gone' /\ gone' \subseteq RowIds
  BY <1>3, <1>4 DEF FlushInv, TypeOK
<1>6. /\ inbox' \subseteq InAppMessages
      /\ inbox \subseteq inbox'
  BY <1>1 DEF FlushInv, TypeOK
<1>7. TypeOK' /\ Onward /\ Working(f)' /\ \A g \in Flushers \ {f} : SameFor(g)
  BY <1>1, <1>2, <1>5, <1>6, NextTeamStep
<1>8. Stored'
  BY <1>1, <1>3, <1>4 DEF FlushInv, Stored
<1>9. DeletedWasCounted'
  BY <1>1, <1>3, <1>4 DEF FlushInv, DeletedWasCounted, Reached
<1>10. Composed'
  BY <1>1, <1>7, ComposedKept DEF FlushInv
<1>. QED  BY <1>7, <1>8, <1>9, <1>10 DEF StepOf

(* A flush starts with rows: the oldest is among the first BatchMax.       *)
LEMMA StartStep ==
  ASSUME FlushInv, Ledger!TypeOK', NEW f \in Flushers, StartFlush(f)
  PROVE  StepOf(f)
<1>1. /\ batch'[f] # {} /\ batch'[f] \in SUBSET Pending
      /\ batch' = [batch EXCEPT ![f] = batch'[f]]
  <2> DEFINE B == {r \in Pending : Cardinality({q \in Pending : Before(q, r)}) < BatchMax}
  <2>1. batch'[f] = B /\ batch' = [batch EXCEPT ![f] = B]
    BY DEF StartFlush, Leading, FlushInv, TypeOK
  <2>2. PICK r \in Pending : \A q \in Pending : ~ Before(q, r)
    <3>1. Pending \in SUBSET RowIds /\ Pending # {}
      BY DEF Pending, StartFlush
    <3>. QED  BY <3>1, OldestExists DEF Oldest, FlushInv, TypeOK
  <2>3. {q \in Pending : Before(q, r)} = {}
    BY <2>2
  <2>4. r \in B
    BY <2>3, FS_EmptySet, BatchMaxAssumption
  <2>. QED  BY <2>1, <2>4
<1>2. disturbances' \in 0..MaxDisturbances /\ disturbances <= disturbances'
  <2>1. UNCHANGED disturbances \/ Disturb
    BY DEF StartFlush
  <2>. QED  BY <2>1, MaxDisturbancesAssumption DEF Disturb, FlushInv, TypeOK
<1>3. pc' = [pc EXCEPT ![f] = "in_app"] /\ pc'[f] = "in_app" /\ pc[f] = "idle"
  BY DEF StartFlush, Goto, FlushInv, TypeOK
<1>4. UNCHANGED <<mode, teamOf, rowTeam, created, gone, inbox, mailed, todo, tally, ledgerVars>>
  BY DEF StartFlush
<1>5. TypeOK'
  BY <1>1, <1>2, <1>3, <1>4 DEF FlushInv, TypeOK, Pending
<1>6. Onward
  BY <1>2, <1>4 DEF Onward
<1>7. \A g \in Flushers \ {f} : SameFor(g)
  BY <1>1, <1>3, <1>4 DEF FlushInv, TypeOK, SameFor, ledgerVars
<1>8. Stored' /\ Composed' /\ DeletedWasCounted'
  BY <1>4, <1>6, StoredKept, ComposedKept, MailedKept DEF FlushInv
<1>9. Working(f)'
  <2>1. \A r \in batch'[f] : rowTeam[r] \in Teams
    BY <1>1 DEF Pending, Queued, FlushInv, TypeOK
  <2>2. tally[f] = NoTally /\ todo[f] = {} /\ stage[f] = "idle"
    BY <1>3 DEF FlushInv, Working
  <2>. QED  BY <1>1, <1>3, <1>4, <2>1, <2>2 DEF Working, NoTally, ledgerVars
<1>. QED  BY <1>5, <1>6, <1>7, <1>8, <1>9 DEF StepOf

(* In-app messages are stored under their rows' digest, failed or not.     *)
LEMMA InAppStep ==
  ASSUME FlushInv, Ledger!TypeOK', NEW f \in Flushers, SaveInApp(f) \/ SaveInAppFails(f)
  PROVE  StepOf(f)
<1>1. PICK audience \in SUBSET Users : inbox' = inbox \cup NewMessages(f, audience)
  BY DEF SaveInApp, SaveInAppFails, Members
<1>2. /\ pc[f] = "in_app" /\ stage[f] = "idle"
      /\ UNCHANGED <<mode, teamOf, rowTeam, created, gone, mailed, stage, holding>>
  BY DEF SaveInApp, SaveInAppFails, FlushInv, Working, ledgerVars
<1>3. CurRows(f) \in SUBSET RowIds /\ CurRows(f) # {} /\ Anchor(CurRows(f)) \in RowIds
  BY <1>2, InHandFacts DEF FlushInv
<1>4. \A n \in inbox' \ inbox :
         /\ n \in InAppMessages
         /\ n.rows # {} /\ n.anchor = Anchor(n.rows)
         /\ n.rows = CurRows(f) /\ n.lists = Listed(CurRows(f))
  <2>1. Listed(CurRows(f)) \in SUBSET RowIds
    BY <1>3 DEF Listed, Leading
  <2>. QED  BY <1>1, <1>3, <2>1 DEF NewMessages, InAppMessages
<1>5. /\ inbox \subseteq inbox'
      /\ inbox' \subseteq InAppMessages
  BY <1>1, <1>4 DEF FlushInv, TypeOK
<1>6. disturbances' \in 0..MaxDisturbances /\ disturbances <= disturbances'
  <2>1. UNCHANGED disturbances \/ Disturb
    BY DEF SaveInApp, SaveInAppFails
  <2>. QED  BY <2>1, MaxDisturbancesAssumption DEF Disturb, FlushInv, TypeOK
<1>7. TypeOK' /\ Onward /\ Working(f)' /\ \A g \in Flushers \ {f} : SameFor(g)
  <2>1. CASE SaveInApp(f)
    <3>1. /\ pc'[f] \in {"delete", "external"} /\ pc' = [pc EXCEPT ![f] = pc'[f]]
          /\ pc'[f] = "delete" => mode = "none"
          /\ UNCHANGED <<batch, todo, tally>>
      BY <2>1 DEF SaveInApp, Goto, FlushInv, TypeOK
    <3>2. TypeOK'
      BY <1>2, <1>5, <1>6, <3>1 DEF FlushInv, TypeOK
    <3>3. Onward
      BY <1>2, <1>5, <1>6 DEF Onward
    <3>4. \A g \in Flushers \ {f} : SameFor(g)
      BY <1>2, <3>1 DEF FlushInv, TypeOK, SameFor
    <3>5. Working(f)'
      BY <1>2, <3>1 DEF FlushInv, Working, NoTally
    <3>. QED  BY <3>2, <3>3, <3>4, <3>5
  <2>2. CASE SaveInAppFails(f)
    BY <1>2, <1>5, <1>6, <2>2, NextTeamStep DEF SaveInAppFails, FlushInv, TypeOK
  <2>. QED  BY <2>1, <2>2
<1>8. Stored'
  BY <1>2, <1>4 DEF FlushInv, Stored
<1>9. DeletedWasCounted'
  BY <1>2, <1>7, MailedKept DEF FlushInv
<1>10. Composed'
  <2>1. \A r \in CurRows(f) : r \in RowIds /\ rowTeam[r] \in Teams
    BY <1>2, InHandFacts DEF FlushInv
  <2>. QED  BY <1>2, <1>4, <1>7, <2>1, ComposedKept DEF FlushInv
<1>. QED  BY <1>7, <1>8, <1>9, <1>10 DEF StepOf

(* The external delivery starts with somebody to send to.                  *)
LEMMA StartExternalStep ==
  ASSUME FlushInv, Ledger!TypeOK', NEW f \in Flushers, StartExternal(f)
  PROVE  StepOf(f)
<1>1. /\ pc[f] = "external" /\ stage[f] = "idle" /\ tally[f] = NoTally
      /\ pc' = [pc EXCEPT ![f] = "send"] /\ pc'[f] = "send"
      /\ UNCHANGED <<mode, teamOf, rowTeam, created, gone, inbox, mailed, batch, tally,
                     disturbances, ledgerVars>>
  BY DEF StartExternal, Goto, FlushInv, Working, TypeOK
<1>2. CurTeam(f) \in Teams
  BY <1>1, InHandFacts DEF FlushInv
<1>3. /\ todo'[f] # {} /\ todo'[f] \in SUBSET (Users \cup Teams)
      /\ todo' = [todo EXCEPT ![f] = todo'[f]]
  BY <1>2 DEF StartExternal, FlushInv, TypeOK, Members
<1>4. TypeOK'
  BY <1>1, <1>3 DEF FlushInv, TypeOK
<1>5. Onward
  BY <1>1 DEF Onward, FlushInv, TypeOK
<1>6. \A g \in Flushers \ {f} : SameFor(g)
  BY <1>1, <1>3 DEF FlushInv, TypeOK, SameFor, ledgerVars
<1>7. Stored' /\ Composed' /\ DeletedWasCounted'
  BY <1>1, <1>5, StoredKept, ComposedKept, MailedKept DEF FlushInv
<1>8. Working(f)'
  BY <1>1, <1>3 DEF FlushInv, Working, NoTally, ledgerVars
<1>. QED  BY <1>4, <1>5, <1>6, <1>7, <1>8 DEF StepOf

(* Within the external delivery of one digest.                             *)
LEMMA SendStep ==
  ASSUME FlushInv, Ledger!TypeOK', NEW f \in Flushers, pc[f] = "send",
         UNCHANGED <<mode, teamOf, rowTeam, created, gone, inbox, pc, batch>>,
         todo'[f] \in SUBSET todo[f], todo' = [todo EXCEPT ![f] = todo'[f]],
         tally'[f] \in [recorded : BOOLEAN, skipped : BOOLEAN, error : BOOLEAN],
         tally' = [tally EXCEPT ![f] = tally'[f]],
         mailed \subseteq mailed',
         mailed' \subseteq ExternalMessages,
         disturbances' \in 0..MaxDisturbances, disturbances <= disturbances',
         \A g \in Flushers \ {f} : stage'[g] = stage[g] /\ holding'[g] = holding[g],
         \/ todo'[f] # {} \/ stage'[f] # "idle"
         \/ tally'[f].recorded \/ tally'[f].skipped \/ tally'[f].error,
         stage'[f] # "idle" => \E x \in (Users \cup Teams) \ todo'[f] : holding'[f] = Key(f, x),
         tally'[f].recorded \/ stage'[f] = "ok" =>
            \E m \in mailed' : m.ok /\ m.rows = CurRows(f),
         \A m \in mailed' \ mailed : m.rows = CurRows(f) /\ m.lists = Listed(CurRows(f))
  PROVE  StepOf(f)
<1>1. TypeOK'
  BY DEF FlushInv, TypeOK
<1>2. Onward
  BY DEF Onward
<1>3. \A g \in Flushers \ {f} : SameFor(g)
  BY DEF FlushInv, TypeOK, SameFor
<1>4. Stored' /\ Composed' /\ DeletedWasCounted'
  <2>1. \A r \in CurRows(f) : r \in RowIds /\ rowTeam[r] \in Teams
    BY InHandFacts DEF FlushInv
  <2>2. Composed'
    BY <1>2, <2>1, ComposedKept DEF FlushInv
  <2>. QED  BY <1>2, <2>2, StoredKept, MailedKept DEF FlushInv
<1>5. CurRows(f)' = CurRows(f) /\ \A x : Key(f, x)' = Key(f, x)
  BY <1>2, SameRows DEF FlushInv
<1>6. tally'[f].recorded \/ stage'[f] = "ok" => Reached(f)'
  BY <1>5 DEF Reached
<1>7. stage'[f] # "idle" => \E x \in (Users \cup Teams) \ todo'[f] : holding'[f] = Key(f, x)'
  BY <1>5
<1>8. Working(f)'
  BY <1>6, <1>7 DEF FlushInv, Working
<1>. QED  BY <1>1, <1>2, <1>3, <1>4, <1>8 DEF StepOf

(* A recipient is claimed, skipped, or counted as an error.                *)
LEMMA ClaimStep ==
  ASSUME FlushInv, Ledger!TypeOK', NEW f \in Flushers, NEW x \in Users \cup Teams,
         ClaimRecipient(f, x) \/ SkipRecipient(f, x) \/ ClaimFails(f, x)
  PROVE  StepOf(f)
<1>1. /\ stage \in [Flushers -> Ledger!Stages]
      /\ todo \in [Flushers -> SUBSET (Users \cup Teams)]
      /\ holding \in [Flushers -> AttemptKeys \cup {NoKey}]
      /\ tally \in [Flushers -> [recorded : BOOLEAN, skipped : BOOLEAN, error : BOOLEAN]]
      /\ disturbances \in 0..MaxDisturbances
  BY DEF FlushInv, TypeOK, Ledger!TypeOK
<1>2. /\ pc[f] = "send" /\ stage[f] = "idle" /\ x \in todo[f]
      /\ UNCHANGED <<mode, teamOf, rowTeam, created, gone, inbox, mailed, pc, batch>>
  BY DEF ClaimRecipient, SkipRecipient, ClaimFails, Ledger!Claim, Ledger!AlreadyClaimed
<1>3. /\ todo'[f] = todo[f] \ {x} /\ todo' = [todo EXCEPT ![f] = todo'[f]]
      /\ todo'[f] \in SUBSET todo[f] /\ x \notin todo'[f]
  BY <1>1 DEF ClaimRecipient, SkipRecipient, ClaimFails
<1>4. disturbances' \in 0..MaxDisturbances /\ disturbances <= disturbances'
  <2>1. UNCHANGED disturbances \/ Disturb
    BY DEF ClaimRecipient, SkipRecipient, ClaimFails
  <2>. QED  BY <1>1, <2>1, MaxDisturbancesAssumption DEF Disturb
<1>5. /\ tally'[f] \in [recorded : BOOLEAN, skipped : BOOLEAN, error : BOOLEAN]
      /\ tally' = [tally EXCEPT ![f] = tally'[f]]
      /\ tally'[f].recorded => tally[f].recorded
      /\ ClaimRecipient(f, x) \/ tally'[f].skipped \/ tally'[f].error
  <2>1. CASE ClaimRecipient(f, x)
    BY <1>1, <2>1 DEF ClaimRecipient
  <2>2. CASE SkipRecipient(f, x) \/ ClaimFails(f, x)
    <3>1. PICK field \in {"skipped", "error"} : tally' = [tally EXCEPT ![f][field] = TRUE]
      BY <2>2 DEF SkipRecipient, ClaimFails, Count
    <3>. QED  BY <1>1, <3>1
  <2>. QED  BY <2>1, <2>2
<1>6. /\ \A g \in Flushers \ {f} : stage'[g] = stage[g] /\ holding'[g] = holding[g]
      /\ \/ ~ ClaimRecipient(f, x) /\ stage'[f] = "idle"
         \/ ClaimRecipient(f, x) /\ stage'[f] = "claimed" /\ holding'[f] = Key(f, x)
  BY <1>1, <1>2 DEF ClaimRecipient, SkipRecipient, ClaimFails, Ledger!Claim, Ledger!TakeRow,
              Ledger!AlreadyClaimed, Ledger!vars, Ledger!ClaimOutcomeLost, ledgerVars
<1>7. \/ todo'[f] # {} \/ stage'[f] # "idle"
      \/ tally'[f].recorded \/ tally'[f].skipped \/ tally'[f].error
  BY <1>5, <1>6
<1>8. stage'[f] # "idle" => \E y \in (Users \cup Teams) \ todo'[f] : holding'[f] = Key(f, y)
  BY <1>3, <1>6
<1>9. tally'[f].recorded \/ stage'[f] = "ok" => \E m \in mailed' : m.ok /\ m.rows = CurRows(f)
  BY <1>2, <1>5, <1>6 DEF FlushInv, Working, Reached
<1>10. mailed' \subseteq ExternalMessages
  BY <1>2 DEF FlushInv, TypeOK
<1>. QED  BY <1>2, <1>3, <1>4, <1>5, <1>6, <1>7, <1>8, <1>9, <1>10, SendStep

(* An acknowledged post carries the rows in hand.                          *)
LEMMA PostStep ==
  ASSUME FlushInv, Ledger!TypeOK', NEW f \in Flushers, NEW accepted \in BOOLEAN,
         NEW answer \in {"ok", "rejected", "retryable"}, PostDigest(f, accepted, answer)
  PROVE  StepOf(f)
<1>1. /\ stage \in [Flushers -> Ledger!Stages]
      /\ todo \in [Flushers -> SUBSET (Users \cup Teams)]
      /\ tally \in [Flushers -> [recorded : BOOLEAN, skipped : BOOLEAN, error : BOOLEAN]]
      /\ disturbances \in 0..MaxDisturbances
      /\ mailed \subseteq ExternalMessages
  BY DEF FlushInv, TypeOK, Ledger!TypeOK
<1>2. /\ pc[f] = "send" /\ stage[f] = "claimed"
      /\ UNCHANGED <<mode, teamOf, rowTeam, created, gone, inbox, pc, batch, todo, tally>>
  BY DEF PostDigest, Ledger!Post, flusherVars
<1>3. /\ \A g \in Flushers \ {f} : stage'[g] = stage[g] /\ holding'[g] = holding[g]
      /\ stage'[f] \in {"claimed", "ok", "failed"} /\ holding' = holding
      /\ stage'[f] = "ok" => answer = "ok" /\ accepted
  BY <1>1 DEF PostDigest, Ledger!Post
<1>4. /\ \E y \in (Users \cup Teams) \ todo[f] : holding[f] = Key(f, y)
      /\ holding[f] \in AttemptKeys /\ CurRows(f) \in SUBSET RowIds
  BY <1>2, InHandFacts DEF FlushInv, Working
<1>5. /\ mailed \subseteq mailed'
      /\ mailed' \subseteq ExternalMessages
      /\ accepted /\ answer = "ok" => \E m \in mailed' : m.ok /\ m.rows = CurRows(f)
      /\ \A m \in mailed' \ mailed : m.rows = CurRows(f) /\ m.lists = Listed(CurRows(f))
  <2> DEFINE new == Sent(f, answer = "ok")
  <2>1. new \in ExternalMessages
    BY <1>4 DEF Sent, ExternalMessages, Listed, Leading
  <2>2. mailed' = IF accepted THEN mailed \cup {new} ELSE mailed
    BY DEF PostDigest
  <2>3. new.rows = CurRows(f) /\ (new.ok <=> answer = "ok") /\ new.lists = Listed(CurRows(f))
    BY DEF Sent
  <2> HIDE DEF new
  <2>. QED  BY <1>1, <2>1, <2>2, <2>3
<1>6. disturbances' \in 0..MaxDisturbances /\ disturbances <= disturbances'
  <2>1. UNCHANGED disturbances \/ Disturb
    BY DEF PostDigest
  <2>. QED  BY <1>1, <2>1, MaxDisturbancesAssumption DEF Disturb
<1>7. tally'[f].recorded \/ stage'[f] = "ok" => \E m \in mailed' : m.ok /\ m.rows = CurRows(f)
  BY <1>2, <1>3, <1>5 DEF FlushInv, Working, Reached
<1>8. /\ todo'[f] \in SUBSET todo[f] /\ todo' = [todo EXCEPT ![f] = todo'[f]]
      /\ tally'[f] \in [recorded : BOOLEAN, skipped : BOOLEAN, error : BOOLEAN]
      /\ tally' = [tally EXCEPT ![f] = tally'[f]]
  BY <1>1, <1>2
<1>9. stage'[f] # "idle" => \E y \in (Users \cup Teams) \ todo'[f] : holding'[f] = Key(f, y)
  BY <1>2, <1>3, <1>4
<1>. QED  BY <1>2, <1>3, <1>5, <1>6, <1>7, <1>8, <1>9, SendStep

(* A success is counted only of an acknowledged post.                      *)
LEMMA FinalizeStep ==
  ASSUME FlushInv, Ledger!TypeOK', NEW f \in Flushers,
         FinalizeDigest(f) \/ FinalizeDigestFails(f)
  PROVE  StepOf(f)
<1>1. /\ stage \in [Flushers -> Ledger!Stages]
      /\ todo \in [Flushers -> SUBSET (Users \cup Teams)]
      /\ holding \in [Flushers -> AttemptKeys \cup {NoKey}]
      /\ tally \in [Flushers -> [recorded : BOOLEAN, skipped : BOOLEAN, error : BOOLEAN]]
      /\ disturbances \in 0..MaxDisturbances
      /\ mailed \subseteq ExternalMessages
  BY DEF FlushInv, TypeOK, Ledger!TypeOK
<1>2. /\ pc[f] = "send"
      /\ UNCHANGED <<mode, teamOf, rowTeam, created, gone, inbox, mailed, pc, batch, todo>>
  BY DEF FinalizeDigest, FinalizeDigestFails
<1>3. /\ \A g \in Flushers \ {f} : stage'[g] = stage[g] /\ holding'[g] = holding[g]
      /\ stage'[f] = "idle"
  BY <1>1 DEF FinalizeDigest, FinalizeDigestFails, Ledger!Finalize, Ledger!FinalizeFails,
              Ledger!Release
<1>4. PICK field \in {"recorded", "error"} :
         tally' = [tally EXCEPT ![f][field] = TRUE] /\ (field = "recorded" => stage[f] = "ok")
  BY DEF FinalizeDigest, FinalizeDigestFails, Count
<1>5. /\ tally'[f] \in [recorded : BOOLEAN, skipped : BOOLEAN, error : BOOLEAN]
      /\ tally' = [tally EXCEPT ![f] = tally'[f]]
      /\ tally'[f].recorded => tally[f].recorded \/ stage[f] = "ok"
      /\ tally'[f].recorded \/ tally'[f].error
  BY <1>1, <1>4
<1>6. disturbances' \in 0..MaxDisturbances /\ disturbances <= disturbances'
  <2>1. UNCHANGED disturbances \/ Disturb
    BY DEF FinalizeDigest, FinalizeDigestFails
  <2>. QED  BY <1>1, <2>1, MaxDisturbancesAssumption DEF Disturb
<1>7. tally'[f].recorded \/ stage'[f] = "ok" => \E m \in mailed' : m.ok /\ m.rows = CurRows(f)
  BY <1>2, <1>3, <1>5 DEF FlushInv, Working, Reached
<1>8. /\ todo'[f] \in SUBSET todo[f] /\ todo' = [todo EXCEPT ![f] = todo'[f]]
      /\ mailed \subseteq mailed'
      /\ mailed' \subseteq ExternalMessages
  BY <1>1, <1>2
<1>. QED  BY <1>2, <1>3, <1>5, <1>6, <1>7, <1>8, SendStep

(* The external delivery ends: the rows go only if it reached somebody.     *)
LEMMA EndStep ==
  ASSUME FlushInv, Ledger!TypeOK', NEW f \in Flushers, EndExternal(f)
  PROVE  StepOf(f)
<1>1. /\ pc[f] = "send" /\ stage[f] = "idle" /\ todo[f] = {}
      /\ UNCHANGED <<mode, teamOf, rowTeam, created, gone, inbox, mailed, disturbances,
                     ledgerVars>>
      /\ UNCHANGED <<stage, holding>>
  BY DEF EndExternal, ledgerVars
<1>2. CASE NextTeam(f)
  <2>1. /\ gone \subseteq gone' /\ gone' \subseteq RowIds /\ inbox \subseteq inbox'
        /\ inbox' \subseteq InAppMessages
        /\ disturbances' \in 0..MaxDisturbances /\ disturbances <= disturbances'
    BY <1>1, MaxDisturbancesAssumption DEF FlushInv, TypeOK
  <2>2. TypeOK' /\ Onward /\ Working(f)' /\ \A g \in Flushers \ {f} : SameFor(g)
    BY <1>1, <1>2, <2>1, NextTeamStep
  <2>. QED  BY <1>1, <2>2, StoredKept, ComposedKept, MailedKept DEF FlushInv, StepOf
<1>3. CASE ~ ExternalFailed(f)
  <2>1. /\ pc' = [pc EXCEPT ![f] = "delete"] /\ pc'[f] = "delete"
        /\ UNCHANGED <<batch, todo, tally>>
    BY <1>3 DEF EndExternal, Goto, FlushInv, TypeOK
  <2>2. TypeOK'
    BY <1>1, <2>1 DEF FlushInv, TypeOK
  <2>3. Onward
    BY <1>1 DEF Onward, FlushInv, TypeOK
  <2>4. \A g \in Flushers \ {f} : SameFor(g)
    BY <1>1, <2>1 DEF FlushInv, TypeOK, SameFor
  <2>5. Reached(f) /\ CurRows(f)' = CurRows(f)
    BY <1>1, <1>3, <2>1, <2>3, SameRows DEF FlushInv, Working, ExternalFailed
  <2>6. Reached(f)'
    BY <1>1, <2>5 DEF Reached
  <2>7. Working(f)'
    BY <1>1, <2>1, <2>6 DEF FlushInv, Working
  <2>. QED  BY <1>1, <2>2, <2>3, <2>4, <2>7, StoredKept, ComposedKept, MailedKept DEF FlushInv, StepOf
<1>. QED  BY <1>2, <1>3 DEF EndExternal

(* A crashed flusher has nothing in hand; what it mailed stays mailed.     *)
LEMMA CrashStep ==
  ASSUME FlushInv, Ledger!TypeOK', NEW f \in Flushers, Crash(f)
  PROVE  StepOf(f)
<1>1. /\ stage \in [Flushers -> Ledger!Stages]
      /\ holding \in [Flushers -> AttemptKeys \cup {NoKey}]
      /\ disturbances \in 0..MaxDisturbances
      /\ mailed \subseteq ExternalMessages
  BY DEF FlushInv, TypeOK, Ledger!TypeOK
<1>2. /\ \A g \in Flushers \ {f} : stage'[g] = stage[g] /\ holding'[g] = holding[g]
      /\ stage'[f] = "idle"
  BY <1>1 DEF Crash, Ledger!Stop, Ledger!Release, ledgerVars
<1>3. /\ mailed \subseteq mailed'
      /\ mailed' \subseteq ExternalMessages
      /\ \A m \in mailed' \ mailed : m.rows = CurRows(f) /\ m.lists = Listed(CurRows(f))
  <2>1. CASE UNCHANGED mailed
    BY <1>1, <2>1
  <2> DEFINE new == Sent(f, FALSE)
  <2>2. CASE stage[f] # "idle" /\ mailed' = mailed \cup {new}
    <3>1. holding[f] \in AttemptKeys /\ CurRows(f) \in SUBSET RowIds
      BY <2>2, InHandFacts DEF FlushInv, Working
    <3>2. /\ new \in ExternalMessages
          /\ new.rows = CurRows(f) /\ new.lists = Listed(CurRows(f))
      BY <3>1 DEF Sent, ExternalMessages, Listed, Leading
    <3> HIDE DEF new
    <3>. QED  BY <1>1, <2>2, <3>2
  <2>. QED  BY <2>1, <2>2 DEF Crash
<1>4. disturbances' \in 0..MaxDisturbances /\ disturbances <= disturbances'
  BY <1>1, MaxDisturbancesAssumption DEF Crash, Disturb
<1>5. /\ pc'[f] = "idle" /\ batch'[f] = {} /\ todo'[f] = {} /\ tally'[f] = NoTally
      /\ UNCHANGED <<mode, teamOf, rowTeam, created, gone, inbox>>
  BY DEF Crash, FlushInv, TypeOK
<1>6. TypeOK'
  BY <1>3, <1>4 DEF Crash, FlushInv, TypeOK, NoTally
<1>7. Onward
  BY <1>3, <1>4, <1>5 DEF Onward
<1>8. \A g \in Flushers \ {f} : SameFor(g)
  BY <1>2 DEF Crash, FlushInv, TypeOK, SameFor
<1>9. Stored' /\ Composed' /\ DeletedWasCounted'
  <2>1. pc[f] # "idle"
    BY DEF Crash
  <2>2. \A r \in CurRows(f) : r \in RowIds /\ rowTeam[r] \in Teams
    BY <2>1, InHandFacts DEF FlushInv
  <2>3. Composed'
    BY <1>3, <1>5, <1>7, <2>2, ComposedKept DEF FlushInv
  <2>. QED  BY <1>5, <1>7, <2>3, StoredKept, MailedKept DEF FlushInv
<1>10. Working(f)'
  BY <1>2, <1>5 DEF Working, NoTally
<1>. QED  BY <1>6, <1>7, <1>8, <1>9, <1>10 DEF StepOf

(* Rows arrive, accounts change.                                           *)
LEMMA OutsideStep ==
  ASSUME FlushInv, Ledger!TypeOK',
         \/ \E t \in Teams : Enqueue(t)
         \/ \E u \in Users : ChangeMembers(u)
         \/ UNCHANGED vars
  PROVE  /\ TypeOK' /\ Onward /\ Stored' /\ Composed' /\ DeletedWasCounted'
         /\ \A f \in Flushers : SameFor(f)
<1>1. UNCHANGED <<mode, gone, inbox, mailed, flusherVars, ledgerVars>>
  BY DEF Enqueue, ChangeMembers, vars
<1>2. disturbances' \in 0..MaxDisturbances /\ disturbances <= disturbances'
  <2>1. UNCHANGED disturbances \/ Disturb
    BY DEF Enqueue, ChangeMembers, vars
  <2>. QED  BY <2>1, MaxDisturbancesAssumption DEF Disturb, FlushInv, TypeOK
<1>3. /\ teamOf' \in [Users -> Teams \cup {NoTeam}]
      /\ rowTeam' \in [RowIds -> Teams \cup {NoTeam}]
      /\ created' \in [RowIds -> Instants \cup {0}]
  BY DEF Enqueue, ChangeMembers, vars, FlushInv, TypeOK
<1>4. TypeOK'
  BY <1>1, <1>2, <1>3 DEF FlushInv, TypeOK, flusherVars
<1>5. Onward
  <2>1. \A r \in RowIds : rowTeam[r] \in Teams =>
           rowTeam'[r] = rowTeam[r] /\ created'[r] = created[r]
    BY TeamsAssumption DEF Enqueue, ChangeMembers, vars, FlushInv, TypeOK
  <2>. QED  BY <1>1, <1>2, <2>1 DEF Onward
<1>6. \A f \in Flushers : SameFor(f)
  BY <1>1 DEF SameFor, flusherVars, ledgerVars
<1>. QED  BY <1>1, <1>4, <1>5, <1>6, StoredKept, ComposedKept, MailedKept DEF FlushInv

(* Whatever a flusher does, it keeps its own part of the invariant...      *)
LEMMA FlusherStep ==
  ASSUME FlushInv, [Next]_vars, NEW f \in Flushers, Progress(f) \/ Fault(f)
  PROVE  StepOf(f)
<1>1. Ledger!TypeOK'
  <2>1. Ledger!IInv /\ [Ledger!Next]_Ledger!vars
    BY Simulation DEF FlushInv
  <2>. QED  BY <2>1, LedgerStep DEF Ledger!IInv
<1>2. CASE Progress(f)
  BY <1>1, <1>2, StartStep, GiveUpStep, InAppStep, StartExternalStep, ClaimStep, PostStep,
     FinalizeStep, EndStep DEF Progress
<1>3. CASE Fault(f)
  BY <1>1, <1>3, GiveUpStep, InAppStep, ClaimStep, PostStep, FinalizeStep, CrashStep DEF Fault
<1>. QED  BY <1>2, <1>3

(* ...and nobody breaks another's: all of the invariant but Undisturbed.   *)
LEMMA StepIsSafe ==
  ASSUME FlushInv, [Next]_vars
  PROVE  StepSafe /\ Ledger!IInv'
<1>1. Ledger!IInv' /\ Ledger!TypeOK'
  <2>1. Ledger!IInv /\ [Ledger!Next]_Ledger!vars
    BY Simulation DEF FlushInv
  <2>. QED  BY <2>1, LedgerStep DEF Ledger!IInv
<1>2. ASSUME NEW f \in Flushers, Progress(f) \/ Fault(f) PROVE StepSafe
  <2>1. StepOf(f)
    BY <1>2, FlusherStep
  <2>2. \A g \in Flushers \ {f} : Working(g)'
    BY <2>1, Frame DEF StepOf, FlushInv
  <2>. QED  BY <2>1, <2>2 DEF StepOf, StepSafe
<1>3. ASSUME \/ \E t \in Teams : Enqueue(t)
             \/ \E u \in Users : ChangeMembers(u)
             \/ UNCHANGED vars
      PROVE  StepSafe
  BY <1>1, <1>3, OutsideStep, Frame DEF FlushInv, StepSafe
<1>. QED  BY <1>1, <1>2, <1>3 DEF Next
-----------------------------------------------------------------------------
(* The flusher at work is the only one; the others have nothing in hand.   *)
LEMMA OthersIdle ==
  ASSUME StepSafe, Alone, NEW f \in Flushers,
         pc[f] # "idle" \/ \A g \in Flushers : pc[g] = "idle",
         \A g \in Flushers \ {f} : SameFor(g)
  PROVE  /\ Alone'
         /\ \A g \in Flushers \ {f} : pc[g] = "idle" /\ pc'[g] = "idle" /\ Steady(g)'
<1>1. \A g \in Flushers \ {f} : pc[g] = "idle" /\ pc'[g] = "idle"
  BY DEF Alone, SameFor
<1>2. Alone'
  BY <1>1 DEF Alone
<1>3. ASSUME NEW g \in Flushers \ {f} PROVE Steady(g)'
  BY <1>1 DEF StepSafe, Working, Steady, NoTally, Written
<1>. QED  BY <1>1, <1>2, <1>3

(* What is counted stays counted while new messages and mails are of rows    *)
(* still queued.                                                           *)
LEMMA OnceFrame ==
  ASSUME FlushInv, Onward, OnceEach, UNCHANGED <<gone, teamOf>>,
         \A n \in inbox' \ inbox : n.rows \cap gone = {},
         \A n \in mailed' \ mailed : n.rows \cap gone = {}
  PROVE  OnceEach'
<1>1. SUFFICES ASSUME NEW r \in gone, NEW u \in Members(rowTeam[r])
               PROVE  /\ \E n \in inbox' : {m \in inbox' : m.user = u /\ r \in m.rows} = {n}
                      /\ mode = "smtp" => \E n \in mailed' :
                            {m \in mailed' : m.key[2] = u /\ r \in m.rows} = {n}
  <2>1. \A r \in gone : rowTeam'[r] = rowTeam[r]
    BY DEF FlushInv, Stored, TypeOK, Onward
  <2>. QED  BY <2>1 DEF OnceEach, Onward, Members
<1>2. {m \in inbox' : m.user = u /\ r \in m.rows} = {m \in inbox : m.user = u /\ r \in m.rows}
  BY DEF Onward
<1>3. {m \in mailed' : m.key[2] = u /\ r \in m.rows}
         = {m \in mailed : m.key[2] = u /\ r \in m.rows}
  BY DEF Onward
<1>. QED  BY <1>2, <1>3 DEF OnceEach, Onward

(* Before anything is written for the rows in hand, all there is is of rows  *)
(* that are gone.                                                          *)
LEMMA NothingOfOurs ==
  ASSUME FlushInv, Orderly, NEW f \in Flushers, pc[f] \notin {"send", "delete"},
         \A g \in Flushers \ {f} : pc[g] = "idle"
  PROVE  /\ \A m \in mailed : m.rows \subseteq gone
         /\ \A k \in AttemptKeys : attempts[k] # "absent" => k[1] \in gone
         /\ pc[f] # "external" => \A n \in inbox : n.rows \subseteq gone
  BY DEF Orderly, Accounted, InHand, Written

(* The steps of an undisturbed run, one by one.  A new row is queued for a *)
(* later flush.                                                            *)
LEMMA CalmEnqueue ==
  ASSUME FlushInv, StepSafe, Orderly, NEW t \in Teams, Enqueue(t)
  PROVE  Orderly'
<1>1. UNCHANGED <<mode, teamOf, gone, inbox, mailed, flusherVars, ledgerVars>>
  BY DEF Enqueue
<1>2. \A f \in Flushers : /\ CurRows(f)' = CurRows(f)
                          /\ pc[f] # "idle" => CurTeam(f)' = CurTeam(f)
                          /\ \A x : Key(f, x)' = Key(f, x)
                          /\ Listed(CurRows(f))' = Listed(CurRows(f))
  BY <1>1, SameRows DEF FlushInv, StepSafe, flusherVars
<1>3. Alone'
  BY <1>1 DEF Orderly, Alone, flusherVars
<1>4. ASSUME NEW f \in Flushers PROVE Steady(f)'
  <2>1. CASE pc[f] = "idle"
    BY <1>1, <2>1 DEF Orderly, Steady, Written, flusherVars, ledgerVars
  <2>2. CASE pc[f] # "idle"
    <3>1. /\ Members(CurTeam(f))' = Members(CurTeam(f))
          /\ \A u : Message(f, u)' = Message(f, u) /\ Mails(f, u)' = Mails(f, u)
          /\ \A u : Due(f, u)' <=> Due(f, u)
      BY <1>1, <1>2, <2>2 DEF Members, Message, Mails, Due, flusherVars, ledgerVars
    <3>. QED  BY <1>1, <3>1 DEF Orderly, Steady, flusherVars, ledgerVars
  <2>. QED  BY <2>1, <2>2
<1>5. Accounted'
  BY <1>1, <1>2 DEF Orderly, Accounted, InHand, flusherVars, ledgerVars
<1>6. OnceEach'
  BY <1>1, OnceFrame DEF StepSafe, Orderly
<1>. QED  BY <1>3, <1>4, <1>5, <1>6 DEF Orderly

(* A flush starts, or finds nobody to tell: no message is written.         *)
LEMMA CalmStart ==
  ASSUME FlushInv, StepSafe, Orderly, NEW f \in Flushers, \A g \in Flushers \ {f} : SameFor(g),
         \/ StartFlush(f) /\ \A g \in Flushers : pc[g] = "idle"
         \/ NoRecipients(f)
  PROVE  Orderly'
<1>1. pc[f] # "idle" \/ \A g \in Flushers : pc[g] = "idle"
  BY DEF NoRecipients
<1>2. /\ Alone'
      /\ \A g \in Flushers \ {f} : pc[g] = "idle" /\ pc'[g] = "idle" /\ Steady(g)'
  BY <1>1, OthersIdle DEF Orderly
<1>3. pc[f] \in {"idle", "in_app"} /\ pc'[f] \in {"idle", "in_app"}
  BY DEF StartFlush, NoRecipients, NextTeam, Goto, Orderly, Steady, Written, FlushInv, TypeOK
<1>4. /\ UNCHANGED <<mode, teamOf, rowTeam, created, gone, inbox, mailed, ledgerVars>>
      /\ batch'[f] \cap gone = {}
  BY DEF StartFlush, NoRecipients, NextTeam, Orderly, Steady, Leading, Pending,
         Queued, FlushInv, TypeOK
<1>5. Steady(f)'
  BY <1>3, <1>4 DEF Steady, StepSafe, Working, NoTally, Written
<1>6. Accounted'
  BY <1>2, <1>3, <1>4, NothingOfOurs DEF Accounted, ledgerVars
<1>7. OnceEach'
  BY <1>4, OnceFrame DEF StepSafe, Orderly
<1>. QED  BY <1>2, <1>5, <1>6, <1>7 DEF Orderly

(* The rows in hand are in no message yet, so no member is left out as     *)
(* already told.                                                           *)
LEMMA CalmInApp ==
  ASSUME FlushInv, StepSafe, Orderly, NEW f \in Flushers, \A g \in Flushers \ {f} : SameFor(g),
         SaveInApp(f)
  PROVE  Orderly'
<1>1. /\ pc[f] = "in_app" /\ Members(CurTeam(f)) # {}
      /\ UNCHANGED <<mode, teamOf, rowTeam, created, gone, mailed, batch, todo, tally,
                     ledgerVars>>
  BY DEF SaveInApp
<1>2. /\ Alone'
      /\ \A g \in Flushers \ {f} : pc[g] = "idle" /\ pc'[g] = "idle" /\ Steady(g)'
  BY <1>1, OthersIdle DEF Orderly
<1>3. pc'[f] \in {"external", "delete"} /\ (pc'[f] = "delete" => mode = "none")
  BY DEF SaveInApp, Goto, FlushInv, TypeOK
<1>4. /\ CurRows(f) \in SUBSET batch[f] /\ CurRows(f) # {} /\ Anchor(CurRows(f)) \in CurRows(f)
      /\ CurRows(f) \cap gone = {}
  BY <1>1, InHandFacts DEF FlushInv, Orderly, Steady
<1>5. /\ CurRows(f)' = CurRows(f) /\ CurTeam(f)' = CurTeam(f)
      /\ Listed(CurRows(f))' = Listed(CurRows(f))
  BY <1>1, SameRows DEF FlushInv, StepSafe
<1>6. \A n \in inbox : n.anchor # Anchor(CurRows(f))
  <2>1. ASSUME NEW n \in inbox PROVE n.anchor # Anchor(CurRows(f))
    <3>1. n.rows \subseteq gone
      BY <1>1, <1>2, NothingOfOurs
    <3>2. n.anchor \in n.rows
      BY AnchorOf DEF FlushInv, Stored, TypeOK, InAppMessages
    <3>. QED  BY <1>4, <3>1, <3>2
  <2>. QED  BY <2>1
<1>7. inbox' = inbox \cup {Message(f, u) : u \in Members(CurTeam(f))}
  <2>1. {m.user : m \in {n \in inbox : n.anchor = Anchor(CurRows(f))}} = {}
    BY <1>6
  <2> DEFINE Fresh == NewMessages(f, Members(CurTeam(f)))
  <2>2. Fresh = [user : Members(CurTeam(f)), anchor : {Anchor(CurRows(f))}, rows : {CurRows(f)},
               lists : {Listed(CurRows(f))}]
    BY <2>1 DEF NewMessages
  <2>3. \A n \in Fresh : n.user \in Members(CurTeam(f)) /\ n = Message(f, n.user)
    BY <2>2 DEF Message
  <2>4. \A u \in Members(CurTeam(f)) : Message(f, u) \in Fresh
    BY <2>2 DEF Message
  <2>5. inbox' = inbox \cup Fresh
    BY DEF SaveInApp
  <2> HIDE DEF Fresh
  <2>. QED  BY <2>3, <2>4, <2>5
<1>8. Members(CurTeam(f))' = Members(CurTeam(f)) /\ \A u : Message(f, u)' = Message(f, u)
  BY <1>1, <1>5 DEF Members, Message
<1>9. Steady(f)'
  BY <1>1, <1>3, <1>7, <1>8 DEF Orderly, Steady, ledgerVars
<1>10. Accounted'
  <2>1. \A n \in inbox' : n.rows \subseteq gone \/ n.rows = CurRows(f)
    BY <1>1, <1>2, <1>7, NothingOfOurs DEF Message
  <2>2. /\ \A m \in mailed : m.rows \subseteq gone
        /\ \A k \in AttemptKeys : attempts[k] # "absent" => k[1] \in gone
    BY <1>1, <1>2, NothingOfOurs
  <2>. QED  BY <1>1, <1>3, <1>5, <2>1, <2>2 DEF Accounted, InHand, Written, ledgerVars
<1>11. OnceEach'
  <2>1. \A n \in inbox' \ inbox : n.rows \cap gone = {}
    BY <1>4, <1>7 DEF Message
  <2>. QED  BY <1>1, <2>1, OnceFrame DEF StepSafe, Orderly
<1>. QED  BY <1>2, <1>9, <1>10, <1>11 DEF Orderly


(* While its digest is sent, the flusher only adds to what it has sent.      *)
LEMMA CalmSend ==
  ASSUME FlushInv, StepSafe, Orderly, NEW f \in Flushers, \A g \in Flushers \ {f} : SameFor(g),
         pc[f] = "send", pc'[f] \in {"send", "delete"},
         UNCHANGED <<mode, teamOf, rowTeam, created, gone, inbox, batch>>,
         todo'[f] \subseteq todo[f],
         stage'[f] # "failed", ~ tally'[f].error, ~ tally'[f].skipped,
         \A m \in mailed' \ mailed : m.rows = CurRows(f),
         \A k \in AttemptKeys : attempts'[k] # "absent" =>
            \/ attempts[k] # "absent"
            \/ k[1] \in CurRows(f) /\ k[2] \notin todo'[f],
         mode = "smtp" =>
            \A u \in Members(CurTeam(f)) :
               IF Due(f, u)' THEN Mails(f, u)' = {} ELSE \E m \in mailed' : Mails(f, u)' = {m}
  PROVE  Orderly'
<1>1. /\ Alone'
      /\ \A g \in Flushers \ {f} : pc[g] = "idle" /\ pc'[g] = "idle" /\ Steady(g)'
  BY OthersIdle DEF Orderly
<1>2. /\ CurRows(f)' = CurRows(f) /\ CurTeam(f)' = CurTeam(f)
      /\ Members(CurTeam(f))' = Members(CurTeam(f)) /\ \A u : Message(f, u)' = Message(f, u)
  <2>1. /\ CurRows(f)' = CurRows(f) /\ CurTeam(f)' = CurTeam(f)
        /\ Listed(CurRows(f))' = Listed(CurRows(f))
    BY SameRows DEF FlushInv, StepSafe
  <2>. QED  BY <2>1 DEF Members, Message
<1>3. Steady(f)'
  BY <1>2 DEF Orderly, Steady, Written
<1>4. /\ \A n \in inbox : n.rows \subseteq gone \/ n.rows = CurRows(f)
      /\ \A m \in mailed : m.rows \subseteq gone \/ m.rows = CurRows(f)
      /\ \A k \in AttemptKeys : attempts[k] # "absent" =>
            k[1] \in gone \/ (k[1] \in CurRows(f) /\ k[2] \notin todo[f])
  BY <1>1 DEF Orderly, Accounted, InHand, Written
<1>5. Accounted'
  <2>1. \A n \in inbox' : n.rows \subseteq gone' \/ InHand(n.rows, Written)'
    BY <1>2, <1>4 DEF InHand, Written
  <2>2. \A m \in mailed' : m.rows \subseteq gone' \/ InHand(m.rows, {"send", "delete"})'
    BY <1>2, <1>4 DEF InHand
  <2>3. \A k \in AttemptKeys : attempts'[k] # "absent" =>
           k[1] \in gone \/ (k[1] \in CurRows(f) /\ k[2] \notin todo'[f])
    BY <1>4
  <2>. QED  BY <1>2, <2>1, <2>2, <2>3 DEF Accounted
<1>6. OnceEach'
  <2>1. CurRows(f) \cap gone = {}
    BY DEF Orderly, Steady, CurRows
  <2>. QED  BY <2>1, OnceFrame DEF StepSafe, Orderly
<1>. QED  BY <1>1, <1>3, <1>5, <1>6 DEF Orderly

(* Nothing is mailed of these rows yet, and every member is due.           *)
LEMMA CalmStartExternal ==
  ASSUME FlushInv, StepSafe, Orderly, NEW f \in Flushers, \A g \in Flushers \ {f} : SameFor(g),
         StartExternal(f)
  PROVE  Orderly'
<1>1. /\ pc[f] = "external" /\ pc'[f] = "send" /\ todo[f] = {} /\ stage[f] = "idle"
      /\ mode = "smtp" => todo'[f] = Members(CurTeam(f))
      /\ UNCHANGED <<mode, teamOf, rowTeam, created, gone, inbox, mailed, batch, tally,
                     ledgerVars>>
  BY DEF StartExternal, Goto, FlushInv, TypeOK, Working
<1>2. /\ Alone'
      /\ \A g \in Flushers \ {f} : pc[g] = "idle" /\ pc'[g] = "idle" /\ Steady(g)'
  BY <1>1, OthersIdle DEF Orderly
<1>3. /\ CurRows(f)' = CurRows(f) /\ CurTeam(f)' = CurTeam(f)
      /\ Members(CurTeam(f))' = Members(CurTeam(f)) /\ \A u : Message(f, u)' = Message(f, u)
  <2>1. /\ CurRows(f)' = CurRows(f) /\ CurTeam(f)' = CurTeam(f)
        /\ Listed(CurRows(f))' = Listed(CurRows(f))
    BY <1>1, SameRows DEF FlushInv, StepSafe
  <2>. QED  BY <1>1, <2>1 DEF Members, Message
<1>4. CurRows(f) # {} /\ CurRows(f) \cap gone = {}
  BY <1>1, InHandFacts DEF FlushInv, Orderly, Steady
<1>5. /\ \A n \in inbox : n.rows \subseteq gone \/ n.rows = CurRows(f)
      /\ \A m \in mailed : m.rows \subseteq gone
      /\ \A k \in AttemptKeys : attempts[k] # "absent" => k[1] \in gone
  BY <1>1, <1>2, NothingOfOurs DEF Orderly, Accounted, InHand, Written
<1>6. Steady(f)'
  <2>1. \A u : Mails(f, u)' = {}
    BY <1>1, <1>3, <1>4, <1>5 DEF Mails
  <2>2. mode = "smtp" => \A u \in Members(CurTeam(f)) : Due(f, u)'
    BY <1>1 DEF Due
  <2>. QED  BY <1>1, <1>3, <2>1, <2>2 DEF Orderly, Steady, Written, ledgerVars
<1>7. Accounted'
  BY <1>1, <1>3, <1>5 DEF Accounted, InHand, Written, ledgerVars
<1>8. OnceEach'
  BY <1>1, OnceFrame DEF StepSafe, Orderly
<1>. QED  BY <1>2, <1>6, <1>7, <1>8 DEF Orderly

(* The recipient moves from the list to the claim in hand: still due.      *)
LEMMA CalmClaim ==
  ASSUME FlushInv, StepSafe, Orderly, NEW f \in Flushers, \A g \in Flushers \ {f} : SameFor(g),
         NEW x \in Users \cup Teams, ClaimRecipient(f, x)
  PROVE  Orderly'
<1>1. /\ pc[f] = "send" /\ stage[f] = "idle" /\ x \in todo[f] /\ todo'[f] = todo[f] \ {x}
      /\ UNCHANGED <<mode, teamOf, rowTeam, created, gone, inbox, mailed, pc, batch, tally>>
  BY DEF ClaimRecipient, Ledger!Claim, FlushInv, TypeOK
<1>2. /\ Key(f, x) \in AttemptKeys /\ Anchor(CurRows(f)) \in CurRows(f)
      /\ CurRows(f)' = CurRows(f) /\ \A u : Key(f, u)' = Key(f, u)
  BY <1>1, InHandFacts, SameRows DEF FlushInv, StepSafe
<1>3. /\ stage'[f] = "claimed" /\ holding'[f] = Key(f, x)
      /\ attempts' = [attempts EXCEPT ![Key(f, x)] = "pending"]
  BY DEF ClaimRecipient, Ledger!Claim, Ledger!TakeRow, FlushInv, TypeOK, Ledger!TypeOK
<1>4. \A u : (Due(f, u)' <=> Due(f, u)) /\ Mails(f, u)' = Mails(f, u)
  <2>1. \A u : Due(f, u) <=> u \in todo[f]
    BY <1>1 DEF Due
  <2>2. \A u : Key(f, x) = Key(f, u) <=> u = x
    BY DEF Key
  <2>3. \A u : Due(f, u)' <=> u \in todo'[f] \/ u = x
    BY <1>2, <1>3, <2>2 DEF Due
  <2>. QED  BY <1>1, <1>2, <2>1, <2>3 DEF Mails
<1>5. \A k \in AttemptKeys : attempts'[k] # "absent" =>
         attempts[k] # "absent" \/ (k[1] \in CurRows(f) /\ k[2] \notin todo'[f])
  <2>1. Key(f, x)[1] \in CurRows(f) /\ Key(f, x)[2] \notin todo'[f]
    BY <1>1, <1>2 DEF Key
  <2>2. \A k \in AttemptKeys \ {Key(f, x)} : attempts'[k] = attempts[k]
    BY <1>3 DEF FlushInv, TypeOK, Ledger!TypeOK
  <2>. QED  BY <2>1, <2>2
<1>6. mode = "smtp" =>
         \A u \in Members(CurTeam(f)) :
            IF Due(f, u)' THEN Mails(f, u)' = {} ELSE \E m \in mailed' : Mails(f, u)' = {m}
  BY <1>1, <1>4 DEF Orderly, Steady
<1>. QED  BY <1>1, <1>3, <1>5, <1>6, CalmSend DEF Orderly, Steady

(* No key of these rows is taken, so nobody is skipped.                    *)
LEMMA CalmSkip ==
  ASSUME FlushInv, Orderly, NEW f \in Flushers, NEW x \in Users \cup Teams
  PROVE  ~ SkipRecipient(f, x)
<1>1. SUFFICES ASSUME SkipRecipient(f, x) PROVE FALSE
  OBVIOUS
<1>2. pc[f] = "send" /\ x \in todo[f] /\ attempts[Key(f, x)] # "absent"
  BY <1>1 DEF SkipRecipient, Ledger!AlreadyClaimed
<1>3. Key(f, x) \in AttemptKeys /\ Key(f, x)[1] \in batch[f]
  BY <1>2, InHandFacts DEF FlushInv, Key
<1>4. Key(f, x)[1] \notin gone
  BY <1>3 DEF Orderly, Steady
<1>5. Key(f, x)[2] = x
  BY DEF Key
<1>. QED  BY <1>2, <1>3, <1>4, <1>5 DEF Orderly, Accounted, Alone

(* The one claimed recipient gets its one mail.                            *)
LEMMA CalmPost ==
  ASSUME FlushInv, StepSafe, Orderly, NEW f \in Flushers, \A g \in Flushers \ {f} : SameFor(g),
         PostDigest(f, TRUE, "ok")
  PROVE  Orderly'
<1> DEFINE new == Sent(f, TRUE)
<1>1. /\ pc[f] = "send" /\ stage[f] = "claimed" /\ stage'[f] = "ok"
      /\ mailed' = mailed \cup {new}
      /\ UNCHANGED <<mode, teamOf, rowTeam, created, gone, inbox, pc, batch, todo, tally,
                     attempts>>
  BY DEF PostDigest, Ledger!Post, flusherVars, FlushInv, TypeOK, Ledger!TypeOK
<1>2. CurRows(f)' = CurRows(f) /\ \A u : Key(f, u)' = Key(f, u)
  BY <1>1, SameRows DEF FlushInv, StepSafe
<1>3. PICK y \in (Users \cup Teams) \ todo[f] : holding[f] = Key(f, y)
  BY <1>1 DEF FlushInv, Working
<1>4. new.key[2] = y /\ new.rows = CurRows(f)
  BY <1>3 DEF Key, Sent
<1> HIDE DEF new
<1>5. ASSUME mode = "smtp", NEW u \in Members(CurTeam(f))
      PROVE  IF Due(f, u)' THEN Mails(f, u)' = {} ELSE \E m \in mailed' : Mails(f, u)' = {m}
  <2>1. Due(f, u)' <=> u \in todo[f]
    BY <1>1 DEF Due
  <2>2. Due(f, u) <=> u \in todo[f] \/ u = y
    BY <1>1, <1>3 DEF Due, Key
  <2>3. Mails(f, u)' = IF u = y THEN Mails(f, u) \cup {new} ELSE Mails(f, u)
    BY <1>1, <1>2, <1>4 DEF Mails
  <2>4. IF Due(f, u) THEN Mails(f, u) = {} ELSE \E m \in mailed : Mails(f, u) = {m}
    BY <1>1, <1>5 DEF Orderly, Steady
  <2>5. CASE u = y
    BY <1>1, <1>3, <2>1, <2>2, <2>3, <2>4, <2>5
  <2>6. CASE u # y
    BY <1>1, <2>1, <2>2, <2>3, <2>4, <2>6
  <2>. QED  BY <2>5, <2>6
<1>. QED  BY <1>1, <1>4, <1>5, CalmSend DEF Orderly, Steady

(* Recording the outcome mails nobody.                                     *)
LEMMA CalmFinalize ==
  ASSUME FlushInv, StepSafe, Orderly, NEW f \in Flushers, \A g \in Flushers \ {f} : SameFor(g),
         FinalizeDigest(f)
  PROVE  Orderly'
<1>1. /\ pc[f] = "send" /\ stage[f] = "ok" /\ stage'[f] = "idle"
      /\ UNCHANGED <<mode, teamOf, rowTeam, created, gone, inbox, mailed, pc, batch, todo>>
  BY DEF FinalizeDigest, Ledger!Finalize, Ledger!Release, FlushInv, TypeOK, Ledger!TypeOK,
         Orderly, Steady
<1>2. tally'[f].error = tally[f].error /\ tally'[f].skipped = tally[f].skipped
  BY <1>1 DEF FinalizeDigest, Count, FlushInv, TypeOK
<1>3. \A k \in AttemptKeys : attempts'[k] # "absent" => attempts[k] # "absent"
  BY DEF FinalizeDigest, Ledger!Finalize, FlushInv, TypeOK, Ledger!TypeOK
<1>4. \A u : (Due(f, u)' <=> Due(f, u)) /\ Mails(f, u)' = Mails(f, u)
  <2>1. CurRows(f)' = CurRows(f)
    BY <1>1, SameRows DEF FlushInv, StepSafe
  <2>. QED  BY <1>1, <2>1 DEF Due, Mails
<1>5. mode = "smtp" =>
         \A u \in Members(CurTeam(f)) :
            IF Due(f, u)' THEN Mails(f, u)' = {} ELSE \E m \in mailed' : Mails(f, u)' = {m}
  BY <1>1, <1>4 DEF Orderly, Steady
<1>. QED  BY <1>1, <1>2, <1>3, <1>5, CalmSend DEF Orderly, Steady

(* Nothing was skipped and nothing failed: the rows go.                    *)
LEMMA CalmEnd ==
  ASSUME FlushInv, StepSafe, Orderly, NEW f \in Flushers, \A g \in Flushers \ {f} : SameFor(g),
         EndExternal(f)
  PROVE  Orderly'
<1>1. ~ ExternalFailed(f)
  BY DEF Orderly, Steady, ExternalFailed
<1>2. /\ pc[f] = "send" /\ stage[f] = "idle" /\ todo[f] = {} /\ pc'[f] = "delete"
      /\ UNCHANGED <<mode, teamOf, rowTeam, created, gone, inbox, mailed, batch, todo, tally>>
      /\ UNCHANGED <<attempts, stage, holding>>
  BY <1>1 DEF EndExternal, Goto, FlushInv, TypeOK, ledgerVars
<1>3. \A u : (Due(f, u)' <=> Due(f, u)) /\ Mails(f, u)' = Mails(f, u)
  <2>1. CurRows(f)' = CurRows(f)
    BY <1>2, SameRows DEF FlushInv, StepSafe
  <2>. QED  BY <1>2, <2>1 DEF Due, Mails
<1>4. mode = "smtp" =>
         \A u \in Members(CurTeam(f)) :
            IF Due(f, u)' THEN Mails(f, u)' = {} ELSE \E m \in mailed' : Mails(f, u)' = {m}
  BY <1>2, <1>3 DEF Orderly, Steady
<1>. QED  BY <1>2, <1>4, CalmSend DEF Orderly, Steady

(* The rows leave the queue: they are the ones every member was told and     *)
(* mailed of, once.                                                        *)
LEMMA CalmDelete ==
  ASSUME FlushInv, StepSafe, Orderly, NEW f \in Flushers, \A g \in Flushers \ {f} : SameFor(g),
         DeleteRows(f)
  PROVE  Orderly'
<1>1. /\ pc[f] = "delete" /\ pc'[f] \in {"idle", "in_app"} /\ todo[f] = {} /\ stage[f] = "idle"
      /\ gone' = gone \cup CurRows(f) /\ batch'[f] = batch[f] \ CurRows(f)
      /\ UNCHANGED <<mode, teamOf, rowTeam, created, inbox, mailed, ledgerVars>>
  BY DEF DeleteRows, NextTeam, Doomed, FlushInv, TypeOK, Working
<1>2. /\ Alone'
      /\ \A g \in Flushers \ {f} : pc[g] = "idle" /\ pc'[g] = "idle" /\ Steady(g)'
  BY <1>1, OthersIdle DEF Orderly
<1>3. /\ CurRows(f) \in SUBSET batch[f] /\ CurRows(f) \cap gone = {}
      /\ \A r \in CurRows(f) : rowTeam[r] = CurTeam(f)
  BY <1>1, InHandFacts DEF FlushInv, Orderly, Steady
<1>4. Steady(f)'
  BY <1>1 DEF Orderly, Steady, StepSafe, Working, NoTally, Written
<1>5. /\ \A n \in inbox : n.rows \subseteq gone \/ n.rows = CurRows(f)
      /\ \A m \in mailed : m.rows \subseteq gone \/ m.rows = CurRows(f)
      /\ \A k \in AttemptKeys : attempts[k] # "absent" => k[1] \in gone \/ k[1] \in CurRows(f)
  BY <1>2 DEF Orderly, Accounted, InHand, Written
<1>6. Accounted'
  BY <1>1, <1>5 DEF Accounted, ledgerVars
<1>7. ASSUME NEW r \in CurRows(f), NEW u \in Members(CurTeam(f))
      PROVE  /\ {m \in inbox : m.user = u /\ r \in m.rows} = {Message(f, u)}
             /\ Message(f, u) \in inbox
  <2>1. Message(f, u) \in inbox
    BY <1>1 DEF Orderly, Steady, Written
  <2>2. Message(f, u).user = u /\ r \in Message(f, u).rows
    BY DEF Message
  <2>3. ASSUME NEW m \in inbox, m.user = u, r \in m.rows PROVE m = Message(f, u)
    <3>1. m.rows = CurRows(f)
      BY <1>3, <1>5, <2>3
    <3>2. m.anchor = Anchor(CurRows(f))
      BY <3>1 DEF FlushInv, Stored
    <3>3. m \in InAppMessages
      BY DEF FlushInv, TypeOK
    <3>4. m.lists = Listed(CurRows(f))
      BY <3>1 DEF FlushInv, Composed
    <3>. QED  BY <2>3, <3>1, <3>2, <3>3, <3>4 DEF Message, InAppMessages
  <2>. QED  BY <2>1, <2>2, <2>3
<1>8. ASSUME NEW r \in CurRows(f), NEW u \in Members(CurTeam(f)), mode = "smtp"
      PROVE  \E n \in mailed : {m \in mailed : m.key[2] = u /\ r \in m.rows} = {n}
  <2>1. \E n \in mailed : Mails(f, u) = {n}
    BY <1>1, <1>8 DEF Orderly, Steady, Due
  <2>2. {m \in mailed : m.key[2] = u /\ r \in m.rows} = Mails(f, u)
    BY <1>3, <1>5 DEF Mails
  <2>. QED  BY <2>1, <2>2
<1>9. OnceEach'
  <2>1. SUFFICES ASSUME NEW r \in gone', NEW u \in Members(rowTeam[r])
                 PROVE  /\ \E n \in inbox : {m \in inbox : m.user = u /\ r \in m.rows} = {n}
                        /\ mode = "smtp" =>
                             \E n \in mailed :
                                {m \in mailed : m.key[2] = u /\ r \in m.rows} = {n}
    BY <1>1 DEF OnceEach, Members
  <2>2. CASE r \in gone
    BY <2>2 DEF Orderly, OnceEach
  <2>3. CASE r \in CurRows(f)
    BY <1>3, <1>7, <1>8, <2>3
  <2>. QED  BY <1>1, <2>2, <2>3
<1>. QED  BY <1>2, <1>4, <1>6, <1>9 DEF Orderly

(* Faults, membership changes and overlaps all count as disturbances.      *)
LEMMA StepUndisturbed ==
  ASSUME FlushInv, [Next]_vars, StepSafe, disturbances' = 0
  PROVE  Orderly'
<1>1. disturbances = 0 /\ ~ Disturb
  BY MaxDisturbancesAssumption DEF StepSafe, Onward, Disturb, FlushInv, TypeOK
<1>2. Orderly
  BY <1>1 DEF FlushInv, Undisturbed
<1>3. CASE \E t \in Teams : Enqueue(t)
  BY <1>2, <1>3, CalmEnqueue
<1>4. ASSUME NEW u \in Users, ChangeMembers(u) PROVE FALSE
  BY <1>1, <1>4 DEF ChangeMembers
<1>5. ASSUME NEW f \in Flushers, Progress(f) PROVE Orderly'
  <2>1. \A g \in Flushers \ {f} : SameFor(g)
    BY <1>5, FlusherStep DEF StepOf
  <2>2. CASE StartFlush(f)
    BY <1>1, <1>2, <2>1, <2>2, CalmStart DEF StartFlush
  <2>3. CASE NoRecipients(f)
    BY <1>2, <2>1, <2>3, CalmStart
  <2>4. CASE SaveInApp(f)
    BY <1>2, <2>1, <2>4, CalmInApp
  <2>5. CASE StartExternal(f)
    BY <1>2, <2>1, <2>5, CalmStartExternal
  <2>6. CASE \E x \in Users \cup Teams : ClaimRecipient(f, x) \/ SkipRecipient(f, x)
    BY <1>2, <2>1, <2>6, CalmClaim, CalmSkip
  <2>7. CASE PostDigest(f, TRUE, "ok")
    BY <1>2, <2>1, <2>7, CalmPost
  <2>8. CASE FinalizeDigest(f)
    BY <1>2, <2>1, <2>8, CalmFinalize
  <2>9. CASE EndExternal(f)
    BY <1>2, <2>1, <2>9, CalmEnd
  <2>10. CASE DeleteRows(f)
    BY <1>2, <2>1, <2>10, CalmDelete
  <2>. QED  BY <1>5, <2>2, <2>3, <2>4, <2>5, <2>6, <2>7, <2>8, <2>9, <2>10 DEF Progress
<1>6. ASSUME NEW f \in Flushers, Fault(f) PROVE FALSE
  BY <1>1, <1>6 DEF Fault, SaveInAppFails, LookupFails, FinalizeDigestFails, DeleteFails,
                    ClaimFails, PostDigest, Crash
<1>7. CASE UNCHANGED vars
  <2>1. /\ UNCHANGED <<mode, teamOf, rowTeam, created, gone, inbox, mailed>>
        /\ UNCHANGED <<pc, batch, todo, tally, attempts, stage, holding>>
    BY <1>7 DEF vars, flusherVars, ledgerVars
  <2>2. /\ Alone' <=> Alone
        /\ \A f \in Flushers : Steady(f)' <=> Steady(f)
        /\ Accounted' <=> Accounted
        /\ OnceEach' <=> OnceEach
    BY <2>1 DEF Alone, Steady, Accounted, OnceEach, Members, CurTeam, CurRows, Oldest, Before,
                OneOf, Listed, Leading, Message, Mails, Due, Key, InHand, Written, Anchor
  <2>. QED  BY <1>2, <2>2 DEF Orderly
<1>. QED  BY <1>3, <1>4, <1>5, <1>6, <1>7 DEF Next
-----------------------------------------------------------------------------
(* The invariant holds of an empty queue.                                  *)
LEMMA InitFlushInv ==
  ASSUME Init
  PROVE  FlushInv
<1>1. Ledger!IInv
  BY LedgerInit DEF Init
<1>2. TypeOK
  BY <1>1, TeamsAssumption, MaxDisturbancesAssumption DEF Init, TypeOK, NoTally, Ledger!IInv
<1>3. /\ \A f \in Flushers : /\ pc[f] = "idle" /\ batch[f] = {} /\ todo[f] = {}
                             /\ tally[f] = NoTally /\ stage[f] = "idle"
      /\ gone = {} /\ inbox = {} /\ mailed = {}
      /\ \A k \in AttemptKeys : attempts[k] = "absent"
  BY DEF Init, Ledger!Init
<1>4. \A f \in Flushers : Working(f)
  BY <1>3 DEF Working, NoTally
<1>5. Orderly
  BY <1>3 DEF Orderly, Alone, Steady, Accounted, OnceEach, NoTally, Written
<1>. QED  BY <1>1, <1>2, <1>3, <1>4, <1>5
          DEF FlushInv, Stored, Composed, DeletedWasCounted, Undisturbed

(* Rows enqueued, members moving, flushes overlapping, faults and crashes in*)
(* any order: FlushInv holds throughout (digest_flush.py).                 *)
THEOREM FlushInvariant == Spec => []FlushInv
<1>1. ASSUME FlushInv, [Next]_vars PROVE FlushInv'
  BY <1>1, StepIsSafe, StepUndisturbed DEF StepSafe, FlushInv, Undisturbed
<1>. QED  BY InitFlushInv, <1>1, PTL DEF Spec

(* A flush claims, posts and finalizes through the attempt log only as the *)
(* log's own specification allows, so its promises hold of digests too     *)
(* (digest_flush.py, _deliver_digest_external).                            *)
THEOREM FlushImplementsLedger == Spec => LedgerSpec
<1>1. Init => Ledger!Init
  BY DEF Init
<1>2. FlushInv /\ [Next]_vars => [Ledger!Next]_Ledger!vars
  BY Simulation
<1>. QED  BY <1>1, <1>2, FlushInvariant, PTL DEF Spec, LedgerSpec, Ledger!Spec

(* A message announces every row it counts: it lists the first of them, as  *)
(* many as its body holds (_truncate_body_lines).                          *)
LEMMA CountedIsAnnounced ==
  ASSUME FlushInv, NEW m \in inbox \cup mailed, NEW r \in m.rows
  PROVE  Announces(m, r)
<1>1. m.lists = Listed(m.rows) /\ m.rows \in SUBSET RowIds
  BY DEF FlushInv, Composed
<1>2. Lines[m.rows] \in Nat /\ IsFiniteSet({q \in m.rows : Before(q, r)})
  <2>1. IsFiniteSet(m.rows)
    BY <1>1, RowIdsAssumption, FS_Subset
  <2>. QED  BY <1>1, <2>1, FS_Subset, LinesAssumption
<1>3. Cardinality({q \in m.rows : Before(q, r)}) \in Nat
  BY <1>2, FS_CardinalityType
<1>. QED  BY <1>1, <1>2, <1>3 DEF Announces, Listed, Leading

(* With an external channel, run_digest_flush deletes no row before a       *)
(* message that announces it was acknowledged: crashes, lost claims and a   *)
(* second flusher included.  The row may be one the message only counts,   *)
(* behind a full body.                                                     *)
THEOREM DeletedRowsWereMailed == Spec => []DeletedWasMailed
<1>1. FlushInv => DeletedWasMailed
  BY CountedIsAnnounced DEF FlushInv, DeletedWasCounted, DeletedWasMailed
<1>. QED  BY <1>1, FlushInvariant, PTL

(* Without a disturbance a row that is gone was announced to each member of *)
(* its team in exactly one message and, over SMTP, in exactly one mail: no  *)
(* digest id is used twice and no claim is in the way.                     *)
THEOREM UndisturbedDigests == Spec => []UndisturbedExactlyOnce
<1>1. ASSUME FlushInv, NEW received \in SUBSET (inbox \cup mailed), NEW r,
             \E n \in received : {m \in received : r \in m.rows} = {n}
      PROVE  AnnouncedOnce(received, r)
  <2>1. PICK n \in received : {m \in received : r \in m.rows} = {n}
    BY <1>1
  <2>2. Cardinality({n}) = 1
    BY FS_Singleton
  <2>3. Announces(n, r)
    BY <1>1, <2>1, CountedIsAnnounced
  <2>. QED  BY <2>1, <2>2, <2>3 DEF AnnouncedOnce
<1>2. FlushInv => UndisturbedExactlyOnce
  <2>1. SUFFICES ASSUME FlushInv, disturbances = 0, NEW r \in gone, NEW u \in Members(rowTeam[r])
                 PROVE  /\ AnnouncedOnce({m \in inbox : m.user = u}, r)
                        /\ mode = "smtp" => AnnouncedOnce({m \in mailed : m.key[2] = u}, r)
    BY DEF UndisturbedExactlyOnce
  <2> DEFINE Shown == {m \in inbox : m.user = u}
             Got == {m \in mailed : m.key[2] = u}
  <2>2. /\ \E n \in inbox : {m \in inbox : m.user = u /\ r \in m.rows} = {n}
        /\ mode = "smtp" => \E n \in mailed : {m \in mailed : m.key[2] = u /\ r \in m.rows} = {n}
    BY <2>1 DEF FlushInv, Undisturbed, Orderly, OnceEach
  <2>3. /\ {m \in Shown : r \in m.rows} = {m \in inbox : m.user = u /\ r \in m.rows}
        /\ {m \in Got : r \in m.rows} = {m \in mailed : m.key[2] = u /\ r \in m.rows}
    OBVIOUS
  <2>4. \E n \in Shown : {m \in Shown : r \in m.rows} = {n}
    <3>1. PICK n : {m \in Shown : r \in m.rows} = {n}
      BY <2>2, <2>3
    <3>. QED  BY <3>1
  <2>5. mode = "smtp" => \E n \in Got : {m \in Got : r \in m.rows} = {n}
    <3>1. CASE mode = "smtp"
      <4>1. PICK n : {m \in Got : r \in m.rows} = {n}
        BY <2>2, <2>3, <3>1
      <4>. QED  BY <4>1
    <3>. QED  BY <3>1
  <2>6. Shown \in SUBSET (inbox \cup mailed) /\ Got \in SUBSET (inbox \cup mailed)
    OBVIOUS
  <2> HIDE DEF Shown, Got
  <2>7. AnnouncedOnce(Shown, r) /\ (mode = "smtp" => AnnouncedOnce(Got, r))
    BY <1>1, <2>1, <2>4, <2>5, <2>6
  <2>. QED  BY <2>7 DEF Shown, Got
<1>. QED  BY <1>2, FlushInvariant, PTL
=============================================================================
