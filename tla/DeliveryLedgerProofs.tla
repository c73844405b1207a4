------------------------ MODULE DeliveryLedgerProofs ------------------------
(***************************************************************************)
(* For any number of executions, any keys and any MaxPosts: the attempt log *)
(* admits one sender per key, so a message is accepted at most MaxPosts     *)
(* times, and exactly-once-or-never over a transport that posts once.      *)
(***************************************************************************)
EXTENDS DeliveryLedger, TLAPS

-----------------------------------------------------------------------------
(* The initial state: nothing claimed, nothing sent. *)
LEMMA InitIInv == Init => IInv
  BY MaxPostsAssumption, NoKeyAssumption
     DEF Init, IInv, TypeOK, HoldersDistinct, HeldIsPending, PostsBudget,
         UnclaimedUntouched, SingleSenderBound, SuccessWasDelivered, Stages

(* Winning the INSERT: the key was free, so nobody holds it and nothing was *)
(* accepted for it; the claim starts with its whole budget of posts.       *)
LEMMA ClaimStep ==
  ASSUME IInv, NEW s \in Senders, NEW k \in Keys, Claim(s, k)
  PROVE  IInv'
<1> USE DEF Claim, TakeRow
<1>1. TypeOK'
  BY DEF IInv, TypeOK, Stages
<1>2. \A t \in Senders : holding[t] # k
  BY NoKeyAssumption DEF IInv, TypeOK, HeldIsPending
<1>3. HoldersDistinct'
  BY <1>2 DEF IInv, TypeOK, HoldersDistinct
<1>4. HeldIsPending'
  BY <1>2, NoKeyAssumption DEF IInv, TypeOK, HeldIsPending, Stages
<1>5. PostsBudget'
  BY <1>2, NoKeyAssumption, MaxPostsAssumption
     DEF IInv, TypeOK, PostsBudget, HeldIsPending, UnclaimedUntouched, Stages
<1>6. UnclaimedUntouched' /\ SingleSenderBound' /\ SuccessWasDelivered'
  BY DEF IInv, TypeOK, UnclaimedUntouched, SingleSenderBound, SuccessWasDelivered
<1>. QED  BY <1>1, <1>3, <1>4, <1>5, <1>6 DEF IInv

(* A claim whose commit was applied but not acknowledged: a pending row that *)
(* no execution holds.                                                     *)
LEMMA ClaimLostStep ==
  ASSUME IInv, NEW s \in Senders, NEW k \in Keys, ClaimOutcomeLost(s, k)
  PROVE  IInv'
  BY NoKeyAssumption
     DEF ClaimOutcomeLost, IInv, TypeOK, HoldersDistinct, HeldIsPending, PostsBudget,
         UnclaimedUntouched, SingleSenderBound, SuccessWasDelivered, Outcomes

(* A request to the provider touches only the key its sender holds, and is  *)
(* paid for from that sender's budget.                                     *)
LEMMA PostStep ==
  ASSUME IInv, NEW s \in Senders, NEW accepted \in BOOLEAN,
         NEW answer \in {"ok", "retryable", "rejected"}, Post(s, accepted, answer)
  PROVE  IInv'
<1> DEFINE h == holding[s]
<1>1. h \in Keys /\ attempts[h] = "pending" /\ posts[s] < MaxPosts /\ deliveries[h] <= posts[s]
  BY NoKeyAssumption DEF Post, IInv, TypeOK, HeldIsPending, PostsBudget
<1>2. /\ posts'[s] = posts[s] + 1 /\ posts[s] \in Nat /\ posts'[s] \in Nat
      /\ posts'[s] <= MaxPosts
      /\ \A t \in Senders : t # s => posts'[t] = posts[t] /\ stage'[t] = stage[t]
  BY <1>1, MaxPostsAssumption DEF Post, IInv, TypeOK
<1>3. /\ deliveries'[h] <= posts'[s]
      /\ deliveries' \in [Keys -> Nat]
      /\ \A k \in Keys : k # h => deliveries'[k] = deliveries[k]
      /\ deliveries[h] <= deliveries'[h]
      /\ answer = "ok" => deliveries'[h] > 0
  BY <1>1, <1>2 DEF Post, IInv, TypeOK
<1>4. /\ stage'[s] \in {"claimed", "ok", "failed"}
      /\ stage'[s] = "claimed" => posts[s] + 1 < MaxPosts
      /\ stage'[s] = "ok" => answer = "ok"
      /\ stage' \in [Senders -> Stages]
  BY DEF Post, IInv, TypeOK, Stages
<1>5. holding' = holding /\ attempts' = attempts
  BY DEF Post
<1>6. TypeOK'
  BY <1>2, <1>3, <1>4, <1>5 DEF IInv, TypeOK, Post
<1>7. HoldersDistinct'
  BY <1>5 DEF IInv, HoldersDistinct
<1>8. HeldIsPending'
  <2>1. stage[s] # "idle"
    BY DEF Post
  <2>. QED  BY <1>1, <1>2, <1>4, <1>5, <2>1 DEF IInv, HeldIsPending, Stages
<1>9. PostsBudget'
  <2>1. \A t \in Senders : t # s /\ holding[t] # NoKey => holding[t] # h /\ holding[t] \in Keys
    BY <1>1, NoKeyAssumption DEF IInv, HoldersDistinct, TypeOK
  <2>2. ASSUME NEW t \in Senders, t # s
        PROVE  /\ stage'[t] = "idle" => posts'[t] = 0
               /\ stage'[t] = "claimed" => posts'[t] < MaxPosts
               /\ posts'[t] <= MaxPosts
               /\ holding'[t] # NoKey => deliveries'[holding'[t]] <= posts'[t]
               /\ stage'[t] = "ok" => deliveries'[holding'[t]] > 0
    BY <2>1, <2>2, <1>2, <1>3, <1>5 DEF IInv, PostsBudget, HeldIsPending, TypeOK
  <2>3. /\ stage'[s] = "idle" => posts'[s] = 0
        /\ stage'[s] = "claimed" => posts'[s] < MaxPosts
        /\ posts'[s] <= MaxPosts
        /\ holding'[s] # NoKey => deliveries'[holding'[s]] <= posts'[s]
        /\ stage'[s] = "ok" => deliveries'[holding'[s]] > 0
    BY <1>2, <1>3, <1>4, <1>5
  <2>. QED  BY <2>2, <2>3 DEF PostsBudget
<1>10. UnclaimedUntouched'
  BY <1>1, <1>3, <1>5 DEF IInv, UnclaimedUntouched
<1>11. SingleSenderBound'
  BY <1>1, <1>2, <1>3, MaxPostsAssumption DEF IInv, SingleSenderBound, TypeOK
<1>12. SuccessWasDelivered'
  BY <1>1, <1>3, <1>5 DEF IInv, SuccessWasDelivered, TypeOK
<1>. QED  BY <1>6, <1>7, <1>8, <1>9, <1>10, <1>11, <1>12 DEF IInv

(* Giving the claim up, with the row finalized or left pending. *)
LEMMA ReleaseStep ==
  ASSUME IInv, NEW s \in Senders, Finalize(s) \/ FinalizeFails(s)
  PROVE  IInv'
<1> USE DEF Finalize, FinalizeFails, Release, Outcome
<1>1. holding[s] \in Keys /\ attempts[holding[s]] = "pending"
  BY NoKeyAssumption DEF IInv, TypeOK, HeldIsPending
<1>2. /\ deliveries' = deliveries
      /\ \A k \in Keys : k # holding[s] => attempts'[k] = attempts[k]
      /\ attempts'[holding[s]] # "absent"
      /\ attempts'[holding[s]] = "success" => deliveries[holding[s]] > 0
  BY <1>1 DEF IInv, TypeOK, PostsBudget
<1>3. TypeOK'
  BY <1>1 DEF IInv, TypeOK, Stages, Outcomes
<1>4. HoldersDistinct'
  BY DEF IInv, TypeOK, HoldersDistinct
<1>5. HeldIsPending'
  BY <1>1, <1>2 DEF IInv, TypeOK, HeldIsPending, HoldersDistinct
<1>6. PostsBudget'
  BY <1>2, MaxPostsAssumption DEF IInv, TypeOK, PostsBudget
<1>7. UnclaimedUntouched' /\ SingleSenderBound' /\ SuccessWasDelivered'
  BY <1>1, <1>2 DEF IInv, UnclaimedUntouched, SingleSenderBound, SuccessWasDelivered
<1>. QED  BY <1>3, <1>4, <1>5, <1>6, <1>7 DEF IInv

(* Dying with a claim held: a request still in flight was budgeted for. *)
LEMMA StopStep ==
  ASSUME IInv, NEW s \in Senders, NEW accepted \in BOOLEAN, Stop(s, accepted)
  PROVE  IInv'
<1> USE DEF Stop, Release
<1> DEFINE h == holding[s]
<1>1. /\ h \in Keys /\ attempts[h] = "pending"
      /\ accepted => posts[s] < MaxPosts
      /\ deliveries[h] <= posts[s] /\ posts[s] <= MaxPosts
  BY NoKeyAssumption DEF IInv, TypeOK, HeldIsPending, PostsBudget
<1>2. /\ deliveries' \in [Keys -> Nat]
      /\ deliveries'[h] <= MaxPosts
      /\ deliveries[h] <= deliveries'[h]
      /\ \A k \in Keys : k # h => deliveries'[k] = deliveries[k]
  BY <1>1, MaxPostsAssumption DEF IInv, TypeOK
<1>3. TypeOK'
  BY <1>2 DEF IInv, TypeOK, Stages
<1>4. HoldersDistinct'
  BY DEF IInv, TypeOK, HoldersDistinct
<1>5. HeldIsPending'
  BY DEF IInv, TypeOK, HeldIsPending
<1>6. PostsBudget'
  BY <1>1, <1>2, MaxPostsAssumption, NoKeyAssumption
     DEF IInv, TypeOK, PostsBudget, HoldersDistinct, HeldIsPending
<1>7. UnclaimedUntouched' /\ SingleSenderBound' /\ SuccessWasDelivered'
  BY <1>1, <1>2, MaxPostsAssumption
     DEF IInv, TypeOK, UnclaimedUntouched, SingleSenderBound, SuccessWasDelivered
<1>. QED  BY <1>3, <1>4, <1>5, <1>6, <1>7 DEF IInv

LEMMA StepIInv == IInv /\ [Next]_vars => IInv'
<1> SUFFICES ASSUME IInv, [Next]_vars PROVE IInv'
  OBVIOUS
<1>1. CASE UNCHANGED vars
  BY <1>1 DEF vars, IInv, TypeOK, HoldersDistinct, HeldIsPending, PostsBudget,
              UnclaimedUntouched, SingleSenderBound, SuccessWasDelivered
<1>2. ASSUME NEW s \in Senders, NEW k \in Keys, Claim(s, k) PROVE IInv'
  BY <1>2, ClaimStep
<1>3. ASSUME NEW s \in Senders, NEW k \in Keys, ClaimOutcomeLost(s, k) PROVE IInv'
  BY <1>3, ClaimLostStep
<1>4. ASSUME NEW s \in Senders, NEW accepted \in BOOLEAN,
             NEW answer \in {"ok", "retryable", "rejected"}, Post(s, accepted, answer)
      PROVE  IInv'
  BY <1>4, PostStep
<1>5. ASSUME NEW s \in Senders, Finalize(s) \/ FinalizeFails(s) PROVE IInv'
  BY <1>5, ReleaseStep
<1>6. ASSUME NEW s \in Senders, NEW accepted \in BOOLEAN, Stop(s, accepted) PROVE IInv'
  BY <1>6, StopStep
<1>7. ASSUME NEW s \in Senders, NEW k \in Keys, AlreadyClaimed(s, k) PROVE IInv'
  BY <1>7, <1>1 DEF AlreadyClaimed
<1>. QED  BY <1>1, <1>2, <1>3, <1>4, <1>5, <1>6, <1>7 DEF Next

(* The inductive invariant holds of every reachable state. *)
THEOREM LedgerInvariant == Spec => []IInv
<1>1. Init => IInv  BY InitIInv
<1>2. IInv /\ [Next]_vars => IInv'  BY StepIInv
<1>. QED  BY <1>1, <1>2, PTL DEF Spec

(* No key's message is accepted more often than one send posts, whatever    *)
(* the number of concurrent or repeated executions.                        *)
THEOREM SingleSender == Spec => []SingleSenderBound
<1>1. IInv => SingleSenderBound  BY DEF IInv
<1>. QED  BY <1>1, LedgerInvariant, PTL

(* A success row was accepted by the provider. *)
THEOREM SuccessRowsAreTrue == Spec => []SuccessWasDelivered
<1>1. IInv => SuccessWasDelivered  BY DEF IInv
<1>. QED  BY <1>1, LedgerInvariant, PTL

(* external.py:25's at-most-once promise, for a transport that posts once. *)
THEOREM SmtpAtMostOnce ==
  ASSUME MaxPosts = 1
  PROVE  Spec => []AtMostOnce
<1>1. IInv => AtMostOnce  BY DEF IInv, SingleSenderBound, AtMostOnce
<1>. QED  BY <1>1, LedgerInvariant, PTL

(* A claim is for ever, and so is an outcome. *)
LEMMA RowsAdvanceStep ==
  ASSUME IInv, [Next]_vars
  PROVE  \A k \in Keys : /\ attempts[k] # "absent" => attempts'[k] # "absent"
                         /\ attempts[k] \in Outcomes => attempts'[k] = attempts[k]
<1> DEFINE Advance ==
      \A k \in Keys : /\ attempts[k] # "absent" => attempts'[k] # "absent"
                      /\ attempts[k] \in Outcomes => attempts'[k] = attempts[k]
<1>1. ASSUME NEW s \in Senders, NEW k \in Keys, Claim(s, k) \/ ClaimOutcomeLost(s, k)
      PROVE  Advance
  BY <1>1 DEF Claim, TakeRow, ClaimOutcomeLost, IInv, TypeOK, Outcomes
<1>2. ASSUME NEW s \in Senders, NEW accepted \in BOOLEAN,
             NEW answer \in {"ok", "retryable", "rejected"},
             Post(s, accepted, answer) \/ Stop(s, accepted) \/ FinalizeFails(s)
      PROVE  Advance
  BY <1>2 DEF Post, Stop, FinalizeFails
<1>3. ASSUME NEW s \in Senders, Finalize(s) PROVE Advance
  <2>1. holding[s] \in Keys /\ attempts[holding[s]] = "pending"
    BY <1>3, NoKeyAssumption DEF Finalize, IInv, TypeOK, HeldIsPending
  <2>. QED  BY <1>3, <2>1 DEF Finalize, Outcome, IInv, TypeOK, Outcomes
<1>4. ASSUME NEW s \in Senders, NEW accepted \in BOOLEAN, Stop(s, accepted) PROVE Advance
  BY <1>4 DEF Stop
<1>5. ASSUME NEW s \in Senders, FinalizeFails(s) PROVE Advance
  BY <1>5 DEF FinalizeFails
<1>6. CASE UNCHANGED vars
  BY <1>6 DEF vars
<1>7. ASSUME NEW s \in Senders, NEW k \in Keys, AlreadyClaimed(s, k) PROVE Advance
  BY <1>7 DEF AlreadyClaimed, vars
<1>. QED  BY <1>1, <1>2, <1>3, <1>4, <1>5, <1>6, <1>7 DEF Next

(* Rows only advance: absent, pending, one terminal outcome. *)
THEOREM LogIsMonotone == Spec => RowsOnlyAdvance
<1>1. IInv /\ [Next]_vars => [\A k \in Keys :
                                 /\ attempts[k] # "absent" => attempts'[k] # "absent"
                                 /\ attempts[k] \in Outcomes => attempts'[k] = attempts[k]]_vars
  BY RowsAdvanceStep
<1>. QED  BY <1>1, LedgerInvariant, PTL DEF Spec, RowsOnlyAdvance
=============================================================================
