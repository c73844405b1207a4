-------------------------- MODULE RouteNotifyProofs --------------------------
(***************************************************************************)
(* Proofs about the routing of one run.  For any number of executions, any  *)
(* items, any team and any cap: the notifications are sent through the      *)
(* attempt log and so inherit its promise, effects happen once, the cap is  *)
(* shared, severe items go first, and an execution that reports no error    *)
(* dropped nothing.                                                        *)
(***************************************************************************)
EXTENDS RouteNotify, FiniteSetTheorems, WellFoundedInduction, TLAPS

LP == INSTANCE DeliveryLedgerProofs WITH
          Senders <- Executions, Keys <- AttemptKeys

(* Every recipient's send of the item was claimed, by whichever execution.  *)
Claimed(k) == attempts[k] # "absent"
Taken(i) == \A x \in Recipients : Claimed(<<i, x>>)

(* Nothing has gone wrong for e: it reports no error, or none can happen.   *)
Sound(e) == ~ failed[e] \/ (faults = 0 /\ Members # {})

(* Where an execution stands and what it has in hand agree.                *)
Placed(e) ==
    /\ pc[e] = "start" => matched[e] = {}
    /\ pc[e] \in {"external", "send"} =>
           mode # "none" /\ slice[e] # {} /\ slice[e] \subseteq Slice(e)
    /\ pc[e] = "send" => todo[e] \subseteq Recipients
    /\ stage[e] # "idle" => pc[e] = "send"

Past == {"digest", "audit_check", "audit_add", "done"}

(* What has left the slice was claimed for every recipient.                *)
WorkedOff(e) ==
    Sound(e) =>
        /\ pc[e] \in {"external", "send"} => \A i \in Slice(e) \ slice[e] : Taken(i)
        /\ pc[e] = "send" => \A x \in Recipients \ todo[e] : Claimed(Key(e, x))
        /\ pc[e] \in Past /\ mode # "none" => \A i \in Slice(e) : Taken(i)

(* Without an error: all inboxes are written, the cap cuts nothing, and the *)
(* routine items are on their way to a digest.                             *)
Kept(e) ==
    ~ failed[e] =>
        /\ pc[e] \in Past \cup {"external", "send"} =>
               /\ \A i \in Urgent(e), u \in Members : inbox[<<i, u>>] > 0
               /\ Slice(e) = Urgent(e)
        /\ pc[e] \in Past \ {"digest"} => \A i \in Routine(e) : i \in digest \/ digested[i] > 0

(* A step that is not f's.                                                 *)
SameFor(f) ==
    /\ pc'[f] = pc[f] /\ matched'[f] = matched[f] /\ slice'[f] = slice[f]
    /\ todo'[f] = todo[f] /\ failed'[f] = failed[f] /\ stage'[f] = stage[f]

(* What no step undoes.                                                    *)
Onward ==
    /\ config' = config
    /\ faults <= faults'
    /\ \A k \in AttemptKeys : Claimed(k) => Claimed(k)'
    /\ \A k \in Items \X Users : inbox[k] > 0 => inbox'[k] > 0
    /\ \A i \in Items : i \in digest \/ digested[i] > 0 => i \in digest' \/ digested'[i] > 0

Once == applied <= 1 /\ \A k \in Items \X Users : inbox[k] <= 1

(* What one step of e does. *)
StepOf(e) ==
    /\ TypeOK' /\ Onward /\ Once'
    /\ \A f \in Executions \ {e} : SameFor(f)
    /\ pc[e] = "start" \/ matched'[e] = matched[e]
    /\ \A k \in AttemptKeys : Claimed(k)' /\ ~ Claimed(k) => pc[e] = "send" /\ k[1] = Current(e)

LedgerOn == Ledger!TypeOK' /\ \A k \in AttemptKeys : Claimed(k) => Claimed(k)'

(* What was tried is in somebody's slice.                                  *)
TriedInSlice == \A i \in Items : Tried(i) => \E e \in Executions : i \in Slice(e)

RInv ==
    /\ TypeOK
    /\ Ledger!IInv
    /\ \A e \in Executions : Placed(e) /\ WorkedOff(e) /\ Kept(e)
    /\ Once
    /\ TriedInSlice
    /\ SevereFirst

-----------------------------------------------------------------------------
(* The least and the greatest of a set of numbers.                          *)
NatLess == {p \in Nat \X Nat : p[1] < p[2]}

LEMMA LeastExists ==
  ASSUME NEW S \in SUBSET Nat, S # {}
  PROVE  \E x \in S : \A y \in S : x <= y
<1>1. IsWellFoundedOn(NatLess, Nat)
  BY NatLessThanWellFounded DEF OpToRel, NatLess
<1>2. PICK x \in S : \A y \in S : ~ (<<y, x>> \in NatLess)
  BY <1>1, WFMin
<1>3. \A y \in S : ~ (y < x)
  BY <1>2 DEF NatLess
<1>. QED  BY <1>3

LEMMA MinOfSet ==
  ASSUME NEW S \in SUBSET Nat, S # {}
  PROVE  Min(S) \in S /\ \A y \in S : Min(S) <= y
  BY LeastExists DEF Min

LEMMA GreatestExists ==
  ASSUME NEW S \in SUBSET Nat, IsFiniteSet(S), S # {}
  PROVE  \E x \in S : \A y \in S : y <= x
<1> DEFINE Above(x) == {y \in S : x < y}
<1> DEFINE Sizes == {Cardinality(Above(x)) : x \in S}
<1>1. \A x \in S : IsFiniteSet(Above(x)) /\ Cardinality(Above(x)) \in Nat
  <2>1. TAKE x \in S
  <2>2. IsFiniteSet(Above(x))
    BY FS_Subset
  <2>. QED  BY <2>2, FS_CardinalityType
<1>2. PICK n \in Sizes : \A m \in Sizes : n <= m
  <2>1. Sizes \in SUBSET Nat /\ Sizes # {}
    BY <1>1
  <2>. QED  BY <2>1, LeastExists
<1>3. PICK x \in S : n = Cardinality(Above(x))
  BY <1>2
<1>4. SUFFICES ASSUME NEW y \in S, ~ (y <= x) PROVE FALSE
  OBVIOUS
<1>5. x < y
  BY <1>4
<1>6. Above(y) \in SUBSET Above(x) /\ Above(y) # Above(x)
  <2>1. y \in Above(x) /\ y \notin Above(y)
    BY <1>5
  <2>2. \A z \in Above(y) : z \in Above(x)
    BY <1>5
  <2>. QED  BY <2>1, <2>2
<1>7. Cardinality(Above(y)) < Cardinality(Above(x))
  <2>1. /\ Cardinality(Above(y)) <= Cardinality(Above(x))
        /\ Cardinality(Above(y)) # Cardinality(Above(x))
    BY <1>1, <1>6, FS_Subset
  <2>. QED  BY <2>1, <1>1
<1>8. Cardinality(Above(y)) \in Sizes
  OBVIOUS
<1>9. n <= Cardinality(Above(y)) /\ n = Cardinality(Above(x))
  BY <1>2, <1>3, <1>8
<1>10. Cardinality(Above(x)) \in Nat /\ Cardinality(Above(y)) \in Nat
  BY <1>1
<1> HIDE DEF Above
<1>. QED  BY <1>7, <1>9, <1>10

(* The n most severe of a set: with an item, all that is more severe.       *)
LEMMA LeastIsPrefix ==
  ASSUME NEW S \in SUBSET Items, NEW n \in Nat,
         NEW i \in Least(S, n), NEW j \in S, j < i
  PROVE  j \in Least(S, n)
<1> DEFINE Below(k) == {m \in S : m < k}
<1>1. i \in S /\ Cardinality(Below(i)) < n
  BY DEF Least
<1>2. IsFiniteSet(Below(i)) /\ IsFiniteSet(Below(j))
  BY FS_Subset, ItemsAssumption
<1>3. Below(j) \in SUBSET Below(i)
  <2>1. \A m \in S : m < j => m < i
    BY <1>1, ItemsAssumption
  <2>. QED  BY <2>1
<1>4. Cardinality(Below(j)) <= Cardinality(Below(i))
  BY <1>2, <1>3, FS_Subset
<1>5. Cardinality(Below(j)) < n
  BY <1>1, <1>2, <1>4, FS_CardinalityType
<1>. QED  BY <1>5 DEF Least

(* ... and never more than n: below the last of them there are fewer than n. *)
LEMMA LeastIsBounded ==
  ASSUME NEW S \in SUBSET Items, NEW n \in Nat
  PROVE  IsFiniteSet(Least(S, n)) /\ Cardinality(Least(S, n)) <= n
<1> DEFINE L == Least(S, n)
           Below(k) == {m \in S : m < k}
<1>1. IsFiniteSet(S) /\ IsFiniteSet(L) /\ L \in SUBSET S /\ Cardinality(L) \in Nat
  <2>1. L \in SUBSET S
    BY DEF Least
  <2>2. IsFiniteSet(S)
    BY FS_Subset, ItemsAssumption
  <2>3. IsFiniteSet(L)
    BY <2>1, <2>2, FS_Subset
  <2>. QED  BY <2>1, <2>2, <2>3, FS_CardinalityType
<1>2. CASE L = {}
  BY <1>1, <1>2, FS_EmptySet
<1>3. CASE L # {}
  <2>1. PICK i \in L : \A j \in L : j <= i
    <3>1. L \in SUBSET Nat
      BY <1>1, ItemsAssumption
    <3>. QED  BY <1>1, <1>3, <3>1, GreatestExists
  <2>2. Cardinality(Below(i)) < n /\ i \in S
    BY <2>1 DEF Least
  <2>3. IsFiniteSet(Below(i)) /\ Cardinality(Below(i)) \in Nat
    <3>1. Below(i) \in SUBSET S
      OBVIOUS
    <3>. QED  BY <1>1, <3>1, FS_Subset, FS_CardinalityType
  <2>4. L \ {i} \in SUBSET Below(i)
    <3>1. \A j \in L \ {i} : j \in S /\ j < i
      BY <1>1, <2>1, <2>2, ItemsAssumption
    <3>. QED  BY <3>1
  <2>5. Cardinality(L \ {i}) = Cardinality(L) - 1
    BY <1>1, <2>1, FS_RemoveElement
  <2>6. Cardinality(L \ {i}) <= Cardinality(Below(i))
    BY <2>3, <2>4, FS_Subset
  <2>. QED  BY <1>1, <2>2, <2>3, <2>5, <2>6
<1>. QED  BY <1>1, <1>2, <1>3

LEMMA LeastOfNone ==
  ASSUME NEW n PROVE Least({}, n) = {}
  BY DEF Least
-----------------------------------------------------------------------------
(* The attempt log starts empty, and what is proved of its steps in
   DeliveryLedgerProofs holds of the steps the executions take.             *)
LEMMA LedgerInit == Ledger!Init => Ledger!IInv
<1>1. Ledger!Init => LP!Init
  BY DEF Ledger!Init, LP!Init
<1>2. LP!Init => LP!IInv
  BY LP!InitIInv, NoKeyAssumption, MaxPostsAssumption
<1>3. LP!IInv => Ledger!IInv
  BY DEF Ledger!IInv, LP!IInv, Ledger!TypeOK, LP!TypeOK, Ledger!HoldersDistinct,
         LP!HoldersDistinct, Ledger!HeldIsPending, LP!HeldIsPending, Ledger!PostsBudget,
         LP!PostsBudget, Ledger!UnclaimedUntouched, LP!UnclaimedUntouched,
         Ledger!SingleSenderBound, LP!SingleSenderBound, Ledger!SuccessWasDelivered,
         LP!SuccessWasDelivered, LP!Stages, Ledger!Stages, Ledger!Outcomes, LP!Outcomes
<1>. QED  BY <1>1, <1>2, <1>3

LEMMA LedgerStep ==
  ASSUME Ledger!IInv, [Ledger!Next]_Ledger!vars
  PROVE  /\ Ledger!IInv'
         /\ \A k \in AttemptKeys : attempts[k] # "absent" => attempts'[k] # "absent"
<1>1. [LP!Next]_LP!vars
  BY DEF Ledger!Next, LP!Next, Ledger!vars, LP!vars, Ledger!Claim, LP!Claim, Ledger!TakeRow,
         LP!TakeRow, Ledger!AlreadyClaimed, LP!AlreadyClaimed, Ledger!ClaimOutcomeLost,
         LP!ClaimOutcomeLost, Ledger!Post, LP!Post, Ledger!Finalize, LP!Finalize,
         Ledger!FinalizeFails, LP!FinalizeFails, Ledger!Stop, LP!Stop, Ledger!Release,
         LP!Release, Ledger!Outcome, LP!Outcome
<1>2. LP!IInv
  BY DEF Ledger!IInv, LP!IInv, Ledger!TypeOK, LP!TypeOK, Ledger!HoldersDistinct,
         LP!HoldersDistinct, Ledger!HeldIsPending, LP!HeldIsPending, Ledger!PostsBudget,
         LP!PostsBudget, Ledger!UnclaimedUntouched, LP!UnclaimedUntouched,
         Ledger!SingleSenderBound, LP!SingleSenderBound, Ledger!SuccessWasDelivered,
         LP!SuccessWasDelivered, LP!Stages, Ledger!Stages, Ledger!Outcomes, LP!Outcomes
<1>3. LP!IInv'
  BY <1>1, <1>2, LP!StepIInv, NoKeyAssumption, MaxPostsAssumption
<1>4. LP!IInv' => Ledger!IInv'
  BY DEF Ledger!IInv, LP!IInv, Ledger!TypeOK, LP!TypeOK, Ledger!HoldersDistinct,
         LP!HoldersDistinct, Ledger!HeldIsPending, LP!HeldIsPending, Ledger!PostsBudget,
         LP!PostsBudget, Ledger!UnclaimedUntouched, LP!UnclaimedUntouched,
         Ledger!SingleSenderBound, LP!SingleSenderBound, Ledger!SuccessWasDelivered,
         LP!SuccessWasDelivered, LP!Stages, Ledger!Stages, Ledger!Outcomes, LP!Outcomes
<1>5. \A k \in AttemptKeys : attempts[k] # "absent" => attempts'[k] # "absent"
  BY <1>1, <1>2, LP!RowsAdvanceStep, NoKeyAssumption, MaxPostsAssumption
<1>. QED  BY <1>3, <1>4, <1>5

(* While there is a slice to work off, there is an item to send.            *)
LEMMA CurrentItem ==
  ASSUME TypeOK, NEW e \in Executions, Placed(e), pc[e] \in {"external", "send"}
  PROVE  /\ Current(e) \in slice[e] /\ Current(e) \in Items /\ Current(e) \in Slice(e)
         /\ \A i \in slice[e] : Current(e) <= i
         /\ \A x \in Users \cup {Webhook} : Key(e, x) \in AttemptKeys
<1>1. slice[e] \in SUBSET Nat /\ slice[e] # {} /\ slice[e] \subseteq Items
  BY ItemsAssumption DEF TypeOK, Placed
<1>2. Min(slice[e]) \in slice[e] /\ \A i \in slice[e] : Min(slice[e]) <= i
  BY <1>1, MinOfSet
<1>. QED  BY <1>1, <1>2 DEF Current, Key, AttemptKeys, Placed
-----------------------------------------------------------------------------
(* What an execution does to the attempt log is a step of the log, or none.  *)
LEMMA Simulation ==
  ASSUME RInv, [Next]_vars
  PROVE  [Ledger!Next]_Ledger!vars
<1>1. ASSUME NEW e \in Executions, NEW x \in Members \cup {Webhook},
             ClaimRecipient(e, x) \/ ClaimFails(e, x)
      PROVE  [Ledger!Next]_Ledger!vars
  <2>1. Key(e, x) \in AttemptKeys
    BY <1>1, CurrentItem, MembersAssumption DEF RInv, ClaimRecipient, ClaimFails, Sending
  <2>. QED  BY <1>1, <2>1 DEF ClaimRecipient, ClaimFails, Ledger!Next, Ledger!vars, ledgerVars
<1>2. ASSUME NEW e \in Executions, NEW accepted \in BOOLEAN, NEW answer \in {"ok", "rejected", "retryable"},
             PostItem(e, accepted, answer)
      PROVE  [Ledger!Next]_Ledger!vars
  BY <1>2 DEF PostItem, Ledger!Next
<1>3. ASSUME NEW e \in Executions, FinalizeItem(e) \/ Cancel(e)
      PROVE  [Ledger!Next]_Ledger!vars
  BY <1>3 DEF FinalizeItem, Cancel, Ledger!Next, Ledger!vars, ledgerVars
<1>4. CASE UNCHANGED ledgerVars
  BY <1>4 DEF ledgerVars, Ledger!vars
<1>5. ASSUME NEW e \in Executions,
             \/ Resolve(e) \/ ResolveFails(e) \/ SaveInApp(e) \/ SaveInAppFails(e) \/ StartItem(e)
             \/ SkipItem(e) \/ EndItem(e) \/ EnqueueDigest(e) \/ CheckAudit(e) \/ AddAudit(e)
             \/ AuditFails(e)
      PROVE  UNCHANGED ledgerVars
  BY <1>5 DEF Resolve, ResolveFails, SaveInApp, SaveInAppFails, StartItem, SkipItem, EndItem,
              EnqueueDigest, CheckAudit, AddAudit, AuditFails
<1>6. FlushDigest \/ UNCHANGED vars => UNCHANGED ledgerVars
  BY DEF FlushDigest, vars
<1>. QED  BY <1>1, <1>2, <1>3, <1>4, <1>5, <1>6 DEF Next

(* Slices and recipients are what they are called.                         *)
LEMMA SliceInItems ==
  ASSUME TypeOK, NEW e \in Executions
  PROVE  /\ Urgent(e) \in SUBSET Items /\ Routine(e) \in SUBSET Items
         /\ Slice(e) \in SUBSET Urgent(e)
         /\ Recipients \in SUBSET (Users \cup {Webhook})
  BY MembersAssumption DEF TypeOK, Urgent, Routine, Slice, Least, Recipients

(* An execution that makes no step keeps what is invariant about it.       *)
LEMMA Frame ==
  ASSUME TypeOK, NEW f \in Executions, Placed(f), WorkedOff(f), Kept(f), Onward, SameFor(f),
         faults \in Nat, faults' \in Nat
  PROVE  Placed(f)' /\ WorkedOff(f)' /\ Kept(f)'
<1>1. /\ Slice(f)' = Slice(f) /\ Urgent(f)' = Urgent(f) /\ Routine(f)' = Routine(f)
      /\ Recipients' = Recipients /\ Members' = Members
      /\ \A x : Key(f, x)' = Key(f, x)
  BY DEF SameFor, Onward, config, Slice, Urgent, Routine, Recipients, Key, Current
<1>2. Placed(f)'
  BY <1>1 DEF Placed, SameFor, Onward, config
<1>3. Sound(f)' => Sound(f)
  BY DEF Sound, SameFor, Onward
<1>4. \A i \in Slice(f) : Taken(i) => Taken(i)'
  BY <1>1, SliceInItems DEF Taken, Claimed, Onward, AttemptKeys
<1>5. pc[f] = "send" => \A x \in Recipients : Key(f, x) \in AttemptKeys
  BY CurrentItem, SliceInItems
<1>6. pc[f] = "send" => \A x \in Recipients : Claimed(Key(f, x)) => Claimed(Key(f, x))'
  BY <1>1, <1>5 DEF Claimed, Onward
<1>7. WorkedOff(f)'
  BY <1>1, <1>3, <1>4, <1>6 DEF WorkedOff, SameFor, Onward, config
<1>8. Kept(f)'
  BY <1>1, SliceInItems, MembersAssumption DEF Kept, SameFor, Onward
<1>. QED  BY <1>2, <1>7, <1>8

(* The decisions are made, or cannot be.                                   *)
LEMMA DecideStep ==
  ASSUME RInv, LedgerOn, NEW e \in Executions, Resolve(e) \/ ResolveFails(e)
  PROVE  StepOf(e) /\ Placed(e)' /\ WorkedOff(e)' /\ Kept(e)'
<1> USE DEF Resolve, ResolveFails, Goto, ReportIf, Fault
<1>1. StepOf(e)
  <2>1. TypeOK'
    <3>1. faults' \in 0..MaxFaults
      BY MaxFaultsAssumption DEF RInv, TypeOK
    <3>3. failed' \in [Executions -> BOOLEAN]
      BY DEF RInv, TypeOK
    <3>2. pc' \in [Executions -> Places] /\ matched' \in [Executions -> SUBSET Items]
      BY DEF RInv, TypeOK, Places
    <3>. QED  BY <3>1, <3>2, <3>3 DEF RInv, TypeOK, LedgerOn, config
  <2>2. Onward
    BY MaxFaultsAssumption DEF RInv, TypeOK, Onward, LedgerOn
  <2>3. Once'
    BY MaxFaultsAssumption DEF RInv, Once
  <2>4. \A f \in Executions \ {e} : SameFor(f)
    BY MaxFaultsAssumption DEF RInv, TypeOK, SameFor, ledgerVars
  <2>5. /\ pc[e] = "start" \/ matched'[e] = matched[e]
        /\ \A k \in AttemptKeys : Claimed(k)' => Claimed(k)
    BY DEF Claimed, ledgerVars
  <2>. QED  BY <2>1, <2>2, <2>3, <2>4, <2>5 DEF StepOf
<1>2. pc[e] = "start" /\ stage[e] = "idle" /\ stage' = stage
  BY DEF RInv, Placed, ledgerVars
<1>3. Placed(e)'
  BY <1>2 DEF Placed, RInv, TypeOK
<1>4. Urgent(e)' = {} \/ pc'[e] \in {"in_app"}
  BY DEF RInv, TypeOK, Urgent, Placed
<1>5. Slice(e)' \subseteq Urgent(e)'
  BY DEF Slice, Least
<1>6. WorkedOff(e)'
  BY <1>4, <1>5 DEF WorkedOff, RInv, TypeOK, Past
<1>7. Kept(e)'
  BY <1>4, <1>5 DEF Kept, RInv, TypeOK, Past, Routine, Placed
<1>. QED  BY <1>1, <1>3, <1>6, <1>7

(* The inboxes are written: if no error is reported, everybody's, and the   *)
(* cap cuts nothing off.                                                   *)
LEMMA InAppStep ==
  ASSUME RInv, LedgerOn, NEW e \in Executions, SaveInApp(e) \/ SaveInAppFails(e)
  PROVE  StepOf(e) /\ Placed(e)' /\ WorkedOff(e)' /\ Kept(e)'
<1> USE DEF SaveInApp, SaveInAppFails, Goto, ReportIf, Fault
<1>1. PICK audience \in SUBSET Members : Tell(e, audience) /\ (SaveInApp(e) => audience = Members)
  BY DEF SaveInApp, SaveInAppFails
<1>2. /\ inbox' \in [Items \X Users -> Nat]
      /\ \A k \in Items \X Users : inbox'[k] <= 1 /\ (inbox[k] > 0 => inbox'[k] > 0)
      /\ \A i \in Urgent(e), u \in audience : inbox'[<<i, u>>] > 0
  <2>1. \A i \in Urgent(e), u \in audience : <<i, u>> \in Items \X Users
    BY MembersAssumption, SliceInItems DEF RInv
  <2>. QED  BY <1>1, <2>1 DEF Tell, Insert, RInv, TypeOK, Once
<1>3. Slice(e)' = Slice(e) /\ Urgent(e)' = Urgent(e) /\ Routine(e)' = Routine(e)
  BY DEF Slice, Urgent, Routine
<1>4. Slice(e) \in SUBSET Immediate
  BY DEF Slice, Urgent, Least
<1>5. pc[e] = "in_app" /\ stage[e] = "idle" /\ stage' = stage /\ config' = config
  BY DEF RInv, Placed, ledgerVars
<1>6. /\ pc' = [pc EXCEPT ![e] = pc'[e]]
      /\ slice' = [slice EXCEPT ![e] = slice'[e]]
      /\ pc'[e] \in {"external", "audit_check", "digest"}
      /\ pc'[e] = "external" => mode # "none" /\ Slice(e) # {} /\ slice'[e] = Slice(e)
      /\ pc'[e] # "external" => (mode = "none" \/ Slice(e) = {}) /\ slice'[e] = slice[e]
      /\ pc'[e] = "audit_check" => Routine(e) = {}
  BY DEF StartExternal, AfterExternal, RInv, TypeOK
<1>7. StepOf(e)
  <2>1. TypeOK'
    <3>1. faults' \in 0..MaxFaults
      BY MaxFaultsAssumption DEF RInv, TypeOK
    <3>3. failed' \in [Executions -> BOOLEAN]
      BY DEF RInv, TypeOK
    <3>2. pc' \in [Executions -> Places] /\ slice' \in [Executions -> SUBSET Immediate]
      BY <1>4, <1>6 DEF RInv, TypeOK, Places
    <3>. QED  BY <1>2, <3>1, <3>2, <3>3 DEF RInv, TypeOK, LedgerOn, config
  <2>2. Onward
    BY <1>2, <1>4, <1>5, <1>6, MaxFaultsAssumption DEF RInv, TypeOK, Onward, LedgerOn
  <2>3. Once'
    BY <1>2, <1>4, <1>5, <1>6, MaxFaultsAssumption DEF RInv, Once
  <2>4. \A f \in Executions \ {e} : SameFor(f)
    BY <1>2, <1>4, <1>5, <1>6, MaxFaultsAssumption DEF RInv, TypeOK, SameFor, ledgerVars
  <2>5. /\ pc[e] = "start" \/ matched'[e] = matched[e]
        /\ \A k \in AttemptKeys : Claimed(k)' => Claimed(k)
    BY DEF Claimed, ledgerVars
  <2>. QED  BY <2>1, <2>2, <2>3, <2>4, <2>5 DEF StepOf
<1>8. Placed(e)'
  BY <1>3, <1>5, <1>6 DEF Placed, config
<1>9. WorkedOff(e)'
  BY <1>3, <1>5, <1>6 DEF WorkedOff, config, Past
<1>10. Kept(e)'
  <2>1. ~ failed'[e] => audience = Members /\ Slice(e) = Urgent(e)
    BY <1>1 DEF RInv, TypeOK
  <2>. QED  BY <1>2, <1>3, <1>6, <2>1 DEF Kept, Past
<1>. QED  BY <1>7, <1>8, <1>9, <1>10

(* The next item's recipients are looked up.                               *)
LEMMA StartItemStep ==
  ASSUME RInv, LedgerOn, NEW e \in Executions, StartItem(e)
  PROVE  StepOf(e) /\ Placed(e)' /\ WorkedOff(e)' /\ Kept(e)'
<1> USE DEF StartItem, Goto
<1>1. Recipients \subseteq Members \cup {Webhook} /\ Recipients' = Recipients
  BY DEF Recipients, config
<1>2. StepOf(e)
  <2>1. TypeOK'
    BY <1>1 DEF RInv, TypeOK, Places, LedgerOn, config
  <2>2. Onward
    BY <1>1 DEF RInv, TypeOK, Onward, LedgerOn
  <2>3. Once'
    BY <1>1 DEF RInv, Once
  <2>4. \A f \in Executions \ {e} : SameFor(f)
    BY <1>1 DEF RInv, TypeOK, SameFor, ledgerVars
  <2>5. /\ pc[e] = "start" \/ matched'[e] = matched[e]
        /\ \A k \in AttemptKeys : Claimed(k)' => Claimed(k)
    BY DEF Claimed, ledgerVars
  <2>. QED  BY <2>1, <2>2, <2>3, <2>4, <2>5 DEF StepOf
<1>3. /\ Slice(e)' = Slice(e) /\ Urgent(e)' = Urgent(e) /\ stage' = stage /\ attempts' = attempts
      /\ pc'[e] = "send" /\ todo'[e] = Recipients /\ slice' = slice /\ mode' = mode
      /\ pc[e] = "external"
  BY DEF Slice, Urgent, ledgerVars, config, RInv, TypeOK
<1>4. Placed(e)'
  BY <1>1, <1>3 DEF Placed, RInv
<1>5. WorkedOff(e)'
  BY <1>1, <1>3 DEF WorkedOff, Sound, Taken, Claimed, Past, RInv
<1>6. Kept(e)'
  BY <1>3 DEF Kept, RInv, Past
<1>. QED  BY <1>2, <1>4, <1>5, <1>6

(* Done with the current item. *)
LEMMA NextItemStep ==
  ASSUME RInv, LedgerOn, NEW e \in Executions, NextItem(e), pc[e] \in {"external", "send"},
         stage[e] = "idle", Sound(e)' => Sound(e) /\ Taken(Current(e)),
         UNCHANGED <<config, matched, todo, inbox, digest, digested, applied, ledgerVars>>,
         ~ failed'[e] => ~ failed[e], failed' = [failed EXCEPT ![e] = failed'[e]],
         failed'[e] \in BOOLEAN, faults' \in 0..MaxFaults, faults <= faults'
  PROVE  StepOf(e) /\ Placed(e)' /\ WorkedOff(e)' /\ Kept(e)'
<1> USE DEF NextItem, Goto
<1>1. /\ pc' = [pc EXCEPT ![e] = pc'[e]]
      /\ slice' = [slice EXCEPT ![e] = slice[e] \ {Current(e)}]
      /\ slice'[e] = slice[e] \ {Current(e)}
      /\ pc'[e] \in {"external", "audit_check", "digest"}
      /\ pc'[e] = "external" => slice'[e] # {}
      /\ pc'[e] # "external" => slice[e] = {Current(e)}
      /\ pc'[e] = "audit_check" => Routine(e) = {}
  BY DEF AfterExternal, RInv, TypeOK, Placed
<1>2. StepOf(e)
  <2>1. TypeOK'
    BY <1>1 DEF RInv, TypeOK, Places, LedgerOn, config
  <2>2. Onward
    BY <1>1 DEF RInv, TypeOK, Onward, LedgerOn
  <2>3. Once'
    BY <1>1 DEF RInv, Once
  <2>4. \A f \in Executions \ {e} : SameFor(f)
    BY <1>1 DEF RInv, TypeOK, SameFor, ledgerVars
  <2>5. /\ pc[e] = "start" \/ matched'[e] = matched[e]
        /\ \A k \in AttemptKeys : Claimed(k)' => Claimed(k)
    BY DEF Claimed, ledgerVars
  <2>. QED  BY <2>1, <2>2, <2>3, <2>4, <2>5 DEF StepOf
<1>3. /\ Slice(e)' = Slice(e) /\ Urgent(e)' = Urgent(e) /\ Routine(e)' = Routine(e)
      /\ stage' = stage /\ attempts' = attempts /\ mode' = mode /\ Recipients' = Recipients
  BY DEF Slice, Urgent, Routine, ledgerVars, config, Recipients
<1>4. Placed(e)'
  BY <1>1, <1>3 DEF Placed, RInv
<1>5. WorkedOff(e)'
  BY <1>1, <1>3 DEF WorkedOff, Taken, Claimed, Past, RInv
<1>6. Kept(e)'
  BY <1>1, <1>3 DEF Kept, RInv, Past
<1>. QED  BY <1>2, <1>4, <1>5, <1>6

(* An item that is skipped is reported; one that is left has been claimed.  *)
LEMMA PassItemStep ==
  ASSUME RInv, LedgerOn, NEW e \in Executions, SkipItem(e) \/ EndItem(e)
  PROVE  StepOf(e) /\ Placed(e)' /\ WorkedOff(e)' /\ Kept(e)'
<1>1. CASE SkipItem(e)
  <2>1. failed' = [failed EXCEPT ![e] = TRUE] /\ failed'[e] = TRUE
    BY <1>1 DEF SkipItem, ReportIf, RInv, TypeOK
  <2>2. faults' \in 0..MaxFaults /\ faults <= faults' /\ (faults' = 0 => Members = {})
    BY <1>1, MaxFaultsAssumption DEF SkipItem, Fault, RInv, TypeOK
  <2>3. stage[e] = "idle" /\ ~ Sound(e)'
    BY <1>1, <2>1, <2>2 DEF SkipItem, RInv, Placed, Sound
  <2>. QED  BY <1>1, <2>1, <2>2, <2>3, NextItemStep DEF SkipItem
<1>2. CASE EndItem(e)
  <2>1. /\ failed' = failed /\ failed = [failed EXCEPT ![e] = failed[e]] /\ failed[e] \in BOOLEAN
        /\ faults' = faults /\ faults \in 0..MaxFaults /\ faults <= faults
    BY <1>2, MaxFaultsAssumption DEF EndItem, RInv, TypeOK
  <2>2. Sound(e)' => Sound(e) /\ Taken(Current(e))
    BY <1>2, <2>1 DEF EndItem, Sound, RInv, WorkedOff, Taken, Key
  <2>. QED  BY <1>2, <2>1, <2>2, NextItemStep DEF EndItem
<1>. QED  BY <1>1, <1>2

(* Inside an item: a send is claimed, made or finalized. *)
LEMMA SendStep ==
  ASSUME RInv, LedgerOn, NEW e \in Executions, pc[e] = "send",
         UNCHANGED <<config, pc, matched, slice, inbox, digest, digested, applied>>,
         todo'[e] \subseteq todo[e], todo' = [todo EXCEPT ![e] = todo'[e]],
         failed'[e] \in BOOLEAN, failed[e] => failed'[e],
         failed' = [failed EXCEPT ![e] = failed'[e]],
         faults' \in 0..MaxFaults, faults <= faults',
         \A f \in Executions \ {e} : stage'[f] = stage[f],
         Sound(e)' => \A y \in todo[e] : y \in todo'[e] \/ attempts'[Key(e, y)] # "absent",
         \A k \in AttemptKeys : Claimed(k)' /\ ~ Claimed(k) => k[1] = Current(e)
  PROVE  StepOf(e) /\ Placed(e)' /\ WorkedOff(e)' /\ Kept(e)'
<1>1. StepOf(e)
  <2>1. TypeOK'
    BY DEF RInv, TypeOK, LedgerOn, config
  <2>2. Onward
    BY DEF Onward, LedgerOn
  <2>3. Once'
    BY DEF RInv, Once
  <2>4. \A f \in Executions \ {e} : SameFor(f)
    BY DEF RInv, TypeOK, SameFor
  <2>. QED  BY <2>1, <2>2, <2>3, <2>4 DEF StepOf
<1>2. /\ Slice(e)' = Slice(e) /\ Urgent(e)' = Urgent(e) /\ Recipients' = Recipients
      /\ mode' = mode /\ \A x : Key(e, x)' = Key(e, x)
  BY DEF Slice, Urgent, Recipients, Key, Current, config
<1>3. Placed(e)'
  BY <1>2 DEF Placed, RInv
<1>4. Sound(e)' => Sound(e)
  BY DEF Sound, RInv, TypeOK
<1>5. \A i \in Slice(e) : Taken(i) => Taken(i)'
  BY <1>2, SliceInItems DEF Taken, Claimed, LedgerOn, AttemptKeys, RInv
<1>6. \A x \in Recipients : Claimed(Key(e, x)) => Claimed(Key(e, x))'
  <2>1. \A x \in Recipients : Key(e, x) \in AttemptKeys
    BY CurrentItem, SliceInItems DEF RInv
  <2>. QED  BY <1>2, <2>1 DEF Claimed, LedgerOn
<1>7. WorkedOff(e)'
  BY <1>2, <1>4, <1>5, <1>6 DEF WorkedOff, RInv, Past, Claimed
<1>8. Kept(e)'
  BY <1>2 DEF Kept, RInv, Past
<1>. QED  BY <1>1, <1>3, <1>7, <1>8

(* One recipient is claimed, posted to, or finalized.                      *)
LEMMA DeliverStep ==
  ASSUME RInv, LedgerOn, NEW e \in Executions,
         \/ \E x \in Members \cup {Webhook} : ClaimRecipient(e, x) \/ ClaimFails(e, x)
         \/ \E accepted \in BOOLEAN, answer \in {"ok", "rejected", "retryable"} : PostItem(e, accepted, answer)
         \/ FinalizeItem(e)
  PROVE  StepOf(e) /\ Placed(e)' /\ WorkedOff(e)' /\ Kept(e)'
<1>1. /\ attempts \in [AttemptKeys -> {"absent", "pending"} \cup Ledger!Outcomes]
      /\ stage \in [Executions -> Ledger!Stages]
      /\ faults \in 0..MaxFaults /\ failed \in [Executions -> BOOLEAN]
      /\ todo \in [Executions -> SUBSET (Members \cup {Webhook})]
  BY DEF RInv, TypeOK, Ledger!TypeOK
<1>2. ASSUME NEW x \in Members \cup {Webhook}, ClaimRecipient(e, x)
      PROVE  StepOf(e) /\ Placed(e)' /\ WorkedOff(e)' /\ Kept(e)'
  <2>1. Key(e, x) \in AttemptKeys
    BY <1>2, CurrentItem, MembersAssumption DEF RInv, ClaimRecipient, Sending
  <2>2. /\ Claimed(Key(e, x))' /\ Key(e, x)' = Key(e, x)
        /\ \A k \in AttemptKeys : Claimed(k)' /\ ~ Claimed(k) => k = Key(e, x)
        /\ \A f \in Executions \ {e} : stage'[f] = stage[f]
    BY <1>1, <1>2, <2>1 DEF ClaimRecipient, Ledger!Claim, Ledger!TakeRow, Ledger!AlreadyClaimed,
       Ledger!vars, Claimed, Key, Current
  <2>3. /\ todo'[e] = todo[e] \ {x} /\ todo' = [todo EXCEPT ![e] = todo'[e]]
        /\ todo'[e] \subseteq todo[e]
    BY <1>1, <1>2 DEF ClaimRecipient
  <2>4. /\ failed'[e] \in BOOLEAN
        /\ failed[e] => failed'[e]
        /\ failed' = [failed EXCEPT ![e] = failed'[e]]
        /\ faults' \in 0..MaxFaults /\ faults <= faults'
    BY <1>1, <1>2, MaxFaultsAssumption DEF ClaimRecipient
  <2>5. \A y \in todo[e] : y \in todo'[e] \/ attempts'[Key(e, y)] # "absent"
    BY <2>2, <2>3 DEF Claimed
  <2>6. \A k \in AttemptKeys : Claimed(k)' /\ ~ Claimed(k) => k[1] = Current(e)
    BY <2>2 DEF Key
  <2>7. /\ pc[e] = "send"
        /\ UNCHANGED <<config, pc, matched, slice, inbox, digest, digested, applied>>
    BY <1>2 DEF ClaimRecipient, Sending
  <2>8. \A f \in Executions \ {e} : stage'[f] = stage[f]
    BY <2>2
  <2>. QED  BY <2>3, <2>4, <2>5, <2>6, <2>7, <2>8, SendStep
<1>3. ASSUME NEW x \in Members \cup {Webhook}, ClaimFails(e, x)
      PROVE  StepOf(e) /\ Placed(e)' /\ WorkedOff(e)' /\ Kept(e)'
  <2>1. Key(e, x) \in AttemptKeys
    BY <1>3, CurrentItem, MembersAssumption DEF RInv, ClaimFails, Sending
  <2>2. /\ \A k \in AttemptKeys : Claimed(k)' /\ ~ Claimed(k) => k = Key(e, x)
        /\ stage' = stage
    BY <1>1, <1>3, <2>1 DEF ClaimFails, Ledger!ClaimOutcomeLost, Claimed, ledgerVars
  <2>3. /\ todo'[e] = todo[e] \ {x} /\ todo' = [todo EXCEPT ![e] = todo'[e]]
        /\ todo'[e] \subseteq todo[e]
        /\ failed'[e] = TRUE /\ failed' = [failed EXCEPT ![e] = failed'[e]]
    BY <1>1, <1>3 DEF ClaimFails, ReportIf
  <2>4. faults' \in 0..MaxFaults /\ faults <= faults' /\ faults' # 0
    BY <1>1, <1>3, MaxFaultsAssumption DEF ClaimFails, Fault
  <2>5. ~ Sound(e)'
    BY <2>3, <2>4 DEF Sound
  <2>6. \A k \in AttemptKeys : Claimed(k)' /\ ~ Claimed(k) => k[1] = Current(e)
    BY <2>2 DEF Key
  <2>7. /\ pc[e] = "send"
        /\ UNCHANGED <<config, pc, matched, slice, inbox, digest, digested, applied>>
    BY <1>3 DEF ClaimFails, Sending
  <2>. QED  BY <2>2, <2>3, <2>4, <2>5, <2>6, <2>7, SendStep
<1>4. ASSUME NEW accepted \in BOOLEAN, NEW answer \in {"ok", "rejected", "retryable"},
             PostItem(e, accepted, answer)
      PROVE  StepOf(e) /\ Placed(e)' /\ WorkedOff(e)' /\ Kept(e)'
  <2>1. attempts' = attempts /\ \A f \in Executions \ {e} : stage'[f] = stage[f]
    BY <1>1, <1>4 DEF PostItem, Ledger!Post
  <2>2. \A k : Claimed(k)' <=> Claimed(k)
    BY <2>1 DEF Claimed
  <2>3. faults' \in 0..MaxFaults /\ faults <= faults'
    BY <1>1, <1>4, MaxFaultsAssumption DEF PostItem, Fault
  <2>. QED  BY <1>1, <1>4, <2>1, <2>2, <2>3, SendStep DEF PostItem
<1>5. ASSUME FinalizeItem(e)
      PROVE  StepOf(e) /\ Placed(e)' /\ WorkedOff(e)' /\ Kept(e)'
  <2>1. \A f \in Executions \ {e} : stage'[f] = stage[f]
    BY <1>1, <1>5 DEF FinalizeItem, Ledger!Finalize, Ledger!FinalizeFails, Ledger!Release
  <2>2. holding[e] \in AttemptKeys /\ Claimed(holding[e])
    <3>1. stage[e] # "idle"
      BY <1>5 DEF FinalizeItem, Ledger!Finalize, Ledger!FinalizeFails
    <3>2. holding[e] # NoKey /\ attempts[holding[e]] = "pending"
      BY <3>1 DEF RInv, Ledger!IInv, Ledger!HeldIsPending
    <3>3. holding[e] \in AttemptKeys
      BY <3>2 DEF RInv, TypeOK, Ledger!TypeOK
    <3>. QED  BY <3>2, <3>3 DEF Claimed
  <2>3. \A k \in AttemptKeys : Claimed(k)' => Claimed(k)
    BY <1>1, <1>5, <2>2 DEF FinalizeItem, Ledger!Finalize, Ledger!FinalizeFails, Claimed
  <2>4. faults' \in 0..MaxFaults /\ faults <= faults'
    <3>1. UNCHANGED faults \/ Fault
      BY <1>5 DEF FinalizeItem
    <3>. QED  BY <1>1, <3>1, MaxFaultsAssumption DEF Fault
  <2>5. /\ failed'[e] \in BOOLEAN /\ failed' = [failed EXCEPT ![e] = failed'[e]]
        /\ failed[e] => failed'[e]
    BY <1>1, <1>5 DEF FinalizeItem, ReportIf
  <2>. QED  BY <1>1, <1>5, <2>1, <2>3, <2>4, <2>5, SendStep DEF FinalizeItem
<1>. QED  BY <1>2, <1>3, <1>4, <1>5

(* The routine items are queued, or that is reported.                      *)
LEMMA DigestStep ==
  ASSUME RInv, LedgerOn, NEW e \in Executions, EnqueueDigest(e)
  PROVE  StepOf(e) /\ Placed(e)' /\ WorkedOff(e)' /\ Kept(e)'
<1> USE DEF EnqueueDigest, Goto, ReportIf, Fault
<1>1. Routine(e) \in SUBSET (Items \ Immediate)
  BY DEF Routine, RInv, TypeOK
<1>2. /\ digest \subseteq digest' /\ digest' \subseteq Items \ Immediate
      /\ ~ failed'[e] => Routine(e) \subseteq digest' /\ ~ failed[e]
      /\ failed' \in [Executions -> BOOLEAN] /\ failed' = [failed EXCEPT ![e] = failed'[e]]
  BY <1>1 DEF RInv, TypeOK
<1>3. faults' \in 0..MaxFaults /\ faults <= faults'
  BY MaxFaultsAssumption DEF RInv, TypeOK
<1>4. pc'[e] = "audit_check" /\ pc' = [pc EXCEPT ![e] = "audit_check"]
  BY DEF RInv, TypeOK
<1>5. StepOf(e)
  <2>1. TypeOK'
    BY <1>2, <1>3, <1>4 DEF RInv, TypeOK, LedgerOn, config, Places
  <2>2. Onward
    BY <1>2, <1>3 DEF Onward, LedgerOn
  <2>3. Once'
    BY DEF RInv, Once
  <2>4. \A f \in Executions \ {e} : SameFor(f)
    BY <1>2, <1>4 DEF RInv, TypeOK, SameFor, ledgerVars
  <2>5. \A k \in AttemptKeys : Claimed(k)' => Claimed(k)
    BY DEF Claimed, ledgerVars
  <2>. QED  BY <2>1, <2>2, <2>3, <2>4, <2>5 DEF StepOf
<1>6. /\ Slice(e)' = Slice(e) /\ Urgent(e)' = Urgent(e) /\ Routine(e)' = Routine(e)
      /\ stage' = stage /\ attempts' = attempts /\ mode' = mode /\ Recipients' = Recipients
  BY DEF Slice, Urgent, Routine, ledgerVars, config, Recipients
<1>7. Placed(e)'
  BY <1>4, <1>6 DEF Placed, RInv
<1>8. Sound(e)' => Sound(e)
  BY <1>2, <1>3 DEF Sound, RInv, TypeOK
<1>9. WorkedOff(e)'
  BY <1>4, <1>6, <1>8 DEF WorkedOff, Taken, Claimed, Past, RInv
<1>10. Kept(e)'
  BY <1>2, <1>4, <1>6 DEF Kept, RInv, Past
<1>. QED  BY <1>5, <1>7, <1>9, <1>10

(* The audit row is looked for and inserted.                               *)
LEMMA AuditStep ==
  ASSUME RInv, LedgerOn, NEW e \in Executions, CheckAudit(e) \/ AddAudit(e) \/ AuditFails(e)
  PROVE  StepOf(e) /\ Placed(e)' /\ WorkedOff(e)' /\ Kept(e)'
<1> USE DEF CheckAudit, AddAudit, AuditFails, Goto, ReportIf, Fault
<1>1. /\ pc[e] \in {"audit_check", "audit_add"} /\ pc'[e] \in {"audit_add", "done"}
      /\ pc' = [pc EXCEPT ![e] = pc'[e]]
      /\ failed' \in [Executions -> BOOLEAN] /\ failed' = [failed EXCEPT ![e] = failed'[e]]
      /\ ~ failed'[e] => ~ failed[e]
  BY DEF RInv, TypeOK
<1>2. applied' \in Nat /\ applied' <= 1
  BY DEF RInv, TypeOK, Once
<1>3. faults' \in 0..MaxFaults /\ faults <= faults'
  BY MaxFaultsAssumption DEF RInv, TypeOK
<1>4. UNCHANGED <<config, matched, slice, todo, inbox, digest, digested, ledgerVars>>
  OBVIOUS
<1>5. StepOf(e)
  <2>1. TypeOK'
    BY <1>1, <1>2, <1>3, <1>4 DEF RInv, TypeOK, LedgerOn, config, Places
  <2>2. Onward
    BY <1>3, <1>4 DEF Onward, LedgerOn
  <2>3. Once'
    BY <1>2, <1>4 DEF RInv, Once
  <2>4. \A f \in Executions \ {e} : SameFor(f)
    BY <1>1, <1>4 DEF RInv, TypeOK, SameFor, ledgerVars
  <2>5. \A k \in AttemptKeys : Claimed(k)' => Claimed(k)
    BY <1>4 DEF Claimed, ledgerVars
  <2>. QED  BY <1>4, <2>1, <2>2, <2>3, <2>4, <2>5 DEF StepOf
<1>6. /\ Slice(e)' = Slice(e) /\ Urgent(e)' = Urgent(e) /\ Routine(e)' = Routine(e)
      /\ stage' = stage /\ attempts' = attempts /\ mode' = mode /\ Recipients' = Recipients
  BY <1>4 DEF Slice, Urgent, Routine, ledgerVars, config, Recipients
<1>7. Placed(e)'
  BY <1>1, <1>6 DEF Placed, RInv
<1>8. Sound(e)' => Sound(e)
  BY <1>1, <1>3 DEF Sound, RInv, TypeOK
<1>9. WorkedOff(e)'
  BY <1>1, <1>6, <1>8 DEF WorkedOff, Taken, Claimed, Past, RInv
<1>10. Kept(e)'
  BY <1>1, <1>4, <1>6 DEF Kept, RInv, Past
<1>. QED  BY <1>5, <1>7, <1>9, <1>10

(* A cancelled execution promises nothing, and gives its claim up.         *)
LEMMA CancelStep ==
  ASSUME RInv, LedgerOn, NEW e \in Executions, Cancel(e)
  PROVE  StepOf(e) /\ Placed(e)' /\ WorkedOff(e)' /\ Kept(e)'
<1> USE DEF Cancel, Goto, Fault
<1>1. pc' = [pc EXCEPT ![e] = "cancelled"] /\ pc'[e] = "cancelled"
  BY DEF RInv, TypeOK
<1>2. faults' \in 0..MaxFaults /\ faults <= faults'
  BY MaxFaultsAssumption DEF RInv, TypeOK
<1>3. attempts' = attempts /\ \A f \in Executions \ {e} : stage'[f] = stage[f]
  BY DEF Ledger!Stop, Ledger!Release, ledgerVars, RInv, TypeOK, Ledger!TypeOK
<1>4. stage'[e] = "idle"
  BY DEF Ledger!Stop, Ledger!Release, ledgerVars, RInv, TypeOK, Ledger!TypeOK
<1>5. UNCHANGED <<config, matched, slice, todo, failed, inbox, digest, digested, applied>>
  OBVIOUS
<1>6. StepOf(e)
  <2>1. TypeOK'
    BY <1>1, <1>2, <1>5 DEF RInv, TypeOK, LedgerOn, config, Places
  <2>2. Onward
    BY <1>2, <1>5 DEF Onward, LedgerOn
  <2>3. Once'
    BY <1>5 DEF RInv, Once
  <2>4. \A f \in Executions \ {e} : SameFor(f)
    BY <1>1, <1>3, <1>5 DEF RInv, TypeOK, SameFor
  <2>5. \A k \in AttemptKeys : Claimed(k)' => Claimed(k)
    BY <1>3 DEF Claimed
  <2>. QED  BY <1>5, <2>1, <2>2, <2>3, <2>4, <2>5 DEF StepOf
<1>7. Placed(e)' /\ WorkedOff(e)' /\ Kept(e)'
  BY <1>1, <1>4 DEF Placed, WorkedOff, Kept, Past
<1>. QED  BY <1>6, <1>7

-----------------------------------------------------------------------------
(* A new attempt is for the most severe item its execution has left, so all *)
(* that is more severe in its slice was tried before.                       *)
LEMMA OrderStep ==
  ASSUME RInv, NEW e \in Executions, StepOf(e)
  PROVE  TriedInSlice' /\ SevereFirst'
<1>1. \A f \in Executions : matched'[f] = matched[f] \/ matched[f] = {}
  BY DEF StepOf, RInv, Placed, SameFor
<1>2. \A f \in Executions : matched[f] # {} =>
         Slice(f)' = Slice(f) /\ Urgent(f)' = Urgent(f) /\ matched'[f] = matched[f]
  BY <1>1 DEF Slice, Urgent
<1>3. \A i \in Items : Tried(i) => Tried(i)'
  <2>1. \A i \in Items, x \in Users \cup {Webhook} : <<i, x>> \in AttemptKeys
    BY DEF AttemptKeys
  <2>. QED  BY <2>1 DEF Tried, StepOf, Onward, Claimed
<1>4. \A f \in Executions : \A i : i \in Slice(f) => i \in Urgent(f) /\ i \in matched[f]
  BY DEF Slice, Urgent, Least
<1>5. ASSUME NEW i \in Items, Tried(i)', ~ Tried(i)
      PROVE  /\ i \in Slice(e) /\ i \in matched[e]
             /\ faults = 0 /\ Members # {} => \A j \in Urgent(e) : j < i => Tried(j)
  <2>1. pc[e] = "send" /\ i = Current(e)
    <3>1. PICK x \in Users \cup {Webhook} : Claimed(<<i, x>>)'
      BY <1>5 DEF Tried, Claimed
    <3>2. <<i, x>> \in AttemptKeys /\ ~ Claimed(<<i, x>>)
      BY <1>5 DEF Tried, Claimed, AttemptKeys
    <3>. QED  BY <3>1, <3>2 DEF StepOf
  <2>2. i \in Slice(e) /\ \A j \in slice[e] : i <= j
    BY <2>1, CurrentItem DEF RInv
  <2>3. ASSUME faults = 0, Members # {}, NEW j \in Urgent(e), j < i PROVE Tried(j)
    <3>1. j \in Slice(e)
      BY <2>2, <2>3, LeastIsPrefix, SliceInItems, CapAssumption DEF RInv, Slice
    <3>2. j \notin slice[e]
      <4>1. i \in Nat /\ j \in Nat
        BY <1>5, <2>3, ItemsAssumption, SliceInItems DEF RInv
      <4>. QED  BY <2>2, <2>3, <4>1
    <3>3. Taken(j)
      BY <2>1, <2>3, <3>1, <3>2 DEF RInv, WorkedOff, Sound
    <3>4. PICK x \in Recipients : TRUE
      BY <2>3 DEF Recipients
    <3>. QED  BY <3>3, <3>4, SliceInItems DEF Taken, Tried, Claimed, RInv
  <2>. QED  BY <1>4, <2>2, <2>3
<1>6. TriedInSlice'
  <2>1. SUFFICES ASSUME NEW i \in Items, Tried(i)' PROVE \E f \in Executions : i \in Slice(f)'
    BY DEF TriedInSlice
  <2>2. PICK f \in Executions : i \in Slice(f)
    BY <1>5, <2>1 DEF RInv, TriedInSlice
  <2>. QED  BY <1>2, <1>4, <2>2
<1>7. SevereFirst'
  <2>1. SUFFICES ASSUME faults' = 0, Members # {}, NEW i \in Items, Tried(i)'
                 PROVE  \E f \in Executions : /\ i \in matched'[f]
                                              /\ \A j \in Urgent(f)' : j < i => Tried(j)'
    BY DEF SevereFirst
  <2>2. faults = 0
    BY <2>1 DEF StepOf, Onward, RInv, TypeOK
  <2>3. PICK f \in Executions : i \in matched[f] /\ \A j \in Urgent(f) : j < i => Tried(j)
    BY <1>5, <2>1, <2>2 DEF RInv, SevereFirst
  <2>4. Urgent(f) \in SUBSET Items
    BY SliceInItems DEF RInv
  <2>. QED  BY <1>2, <1>3, <2>3, <2>4
<1>. QED  BY <1>6, <1>7

(* A flush moves items from the queue to a digest.                         *)
LEMMA FlushStep ==
  ASSUME RInv, LedgerOn, FlushDigest \/ UNCHANGED vars
  PROVE  /\ TypeOK' /\ Onward /\ Once' /\ TriedInSlice' /\ SevereFirst'
         /\ \A e \in Executions : SameFor(e)
<1> USE DEF FlushDigest, vars, config, ledgerVars
<1>1. TypeOK'
  BY DEF RInv, TypeOK, LedgerOn
<1>2. Onward
  BY DEF RInv, TypeOK, Onward, LedgerOn
<1>3. Once' /\ \A e \in Executions : SameFor(e)
  BY DEF RInv, Once, SameFor
<1>4. UNCHANGED <<attempts, matched, faults>>
  OBVIOUS
<1>5. TriedInSlice'
  BY <1>4 DEF RInv, TriedInSlice, Tried, Slice, Urgent
<1>6. SevereFirst'
  BY <1>4 DEF RInv, SevereFirst, Tried, Urgent
<1>. QED  BY <1>1, <1>2, <1>3, <1>5, <1>6

(* At first nothing is decided, nothing tried.                             *)
LEMMA InitRInv == Init => RInv
<1> SUFFICES ASSUME Init PROVE RInv
  OBVIOUS
<1>1. Ledger!IInv
  BY LedgerInit DEF Init
<1>2. TypeOK
  BY <1>1, MaxFaultsAssumption DEF Init, TypeOK, Ledger!IInv, Places
<1>3. \A e \in Executions : Placed(e) /\ WorkedOff(e) /\ Kept(e)
  BY DEF Init, Ledger!Init, Placed, WorkedOff, Kept, Past
<1>4. Once
  BY DEF Init, Once
<1>5. TriedInSlice /\ SevereFirst
  <2>1. \A i \in Items : ~ Tried(i)
    BY DEF Init, Ledger!Init, Tried, AttemptKeys
  <2>. QED  BY <2>1 DEF TriedInSlice, SevereFirst
<1>. QED  BY <1>1, <1>2, <1>3, <1>4, <1>5 DEF RInv

(* The invariant is kept by every action.                                  *)
LEMMA StepRInv == RInv /\ [Next]_vars => RInv'
<1> SUFFICES ASSUME RInv, [Next]_vars PROVE RInv'
  OBVIOUS
<1>1. Ledger!IInv' /\ LedgerOn
  <2>1. Ledger!IInv /\ [Ledger!Next]_Ledger!vars
    BY Simulation DEF RInv
  <2>. QED  BY <2>1, LedgerStep DEF LedgerOn, Ledger!IInv, Claimed
<1>2. ASSUME NEW e \in Executions, StepOf(e), Placed(e)', WorkedOff(e)', Kept(e)'
      PROVE  RInv'
  <2>1. \A f \in Executions \ {e} : Placed(f)' /\ WorkedOff(f)' /\ Kept(f)'
    BY <1>2, Frame DEF StepOf, RInv, TypeOK
  <2>. QED  BY <1>1, <1>2, <2>1, OrderStep DEF RInv, StepOf
<1>3. CASE FlushDigest \/ UNCHANGED vars
  <2>1. \A e \in Executions : Placed(e)' /\ WorkedOff(e)' /\ Kept(e)'
    BY <1>1, <1>3, FlushStep, Frame DEF RInv, TypeOK
  <2>2. TypeOK' /\ Once' /\ TriedInSlice' /\ SevereFirst'
    BY <1>1, <1>3, FlushStep DEF RInv, TypeOK
  <2>. QED  BY <1>1, <2>1, <2>2 DEF RInv
<1>4. ASSUME NEW e \in Executions, Resolve(e) \/ ResolveFails(e) PROVE RInv'
  BY <1>1, <1>2, <1>4, DecideStep
<1>5. ASSUME NEW e \in Executions, SaveInApp(e) \/ SaveInAppFails(e) PROVE RInv'
  BY <1>1, <1>2, <1>5, InAppStep
<1>6. ASSUME NEW e \in Executions, StartItem(e) PROVE RInv'
  BY <1>1, <1>2, <1>6, StartItemStep
<1>7. ASSUME NEW e \in Executions, SkipItem(e) \/ EndItem(e) PROVE RInv'
  BY <1>1, <1>2, <1>7, PassItemStep
<1>8. ASSUME NEW e \in Executions,
             \/ \E x \in Members \cup {Webhook} : ClaimRecipient(e, x) \/ ClaimFails(e, x)
             \/ \E accepted \in BOOLEAN, answer \in {"ok", "rejected", "retryable"} :
                   PostItem(e, accepted, answer)
             \/ FinalizeItem(e)
      PROVE  RInv'
  BY <1>1, <1>2, <1>8, DeliverStep
<1>9. ASSUME NEW e \in Executions, EnqueueDigest(e) PROVE RInv'
  BY <1>1, <1>2, <1>9, DigestStep
<1>10. ASSUME NEW e \in Executions, CheckAudit(e) \/ AddAudit(e) \/ AuditFails(e) PROVE RInv'
  BY <1>1, <1>2, <1>10, AuditStep
<1>11. ASSUME NEW e \in Executions, Cancel(e) PROVE RInv'
  BY <1>1, <1>2, <1>11, CancelStep
<1>. QED  BY <1>3, <1>4, <1>5, <1>6, <1>7, <1>8, <1>9, <1>10, <1>11 DEF Next

(* The inductive invariant holds of every reachable state.                  *)
THEOREM RouteInvariant == Spec => []RInv
<1>1. Init => RInv  BY InitRInv
<1>2. RInv /\ [Next]_vars => RInv'  BY StepRInv
<1>. QED  BY <1>1, <1>2, PTL DEF Spec

(* The routing's sends implement the attempt log of DeliveryLedger, whose     *)
(* sends may repeat a post: every behaviour of the executions is one of it. *)
THEOREM RouteImplementsLedger == Spec => Ledger!Spec
<1>1. Init => Ledger!Init
  BY DEF Init
<1>2. RInv /\ [Next]_vars => [Ledger!Next]_Ledger!vars
  BY Simulation
<1>. QED  BY <1>1, <1>2, RouteInvariant, PTL DEF Spec, Ledger!Spec
-----------------------------------------------------------------------------
(* Where nothing makes a send repeat its post: one that has posted is over.  *)
PostedOnce ==
    mode # "slack" \/ faults = 0 =>
        /\ \A k \in AttemptKeys : deliveries[k] <= 1
        /\ \A e \in Executions : stage[e] = "claimed" => posts[e] = 0

(* Nothing is taken back: the channel stays, and so do the faults.          *)
LEMMA FaultsStand ==
  ASSUME RInv, [Next]_vars
  PROVE  mode' = mode /\ faults \in Nat /\ (faults' = 0 => faults = 0)
<1>1. faults \in Nat
  BY MaxFaultsAssumption DEF RInv, TypeOK
<1>2. mode' = mode /\ (UNCHANGED faults \/ Fault)
  BY DEF Next, vars, config, Resolve, ResolveFails, SaveInApp, SaveInAppFails, StartItem,
         SkipItem, ClaimRecipient, ClaimFails, PostItem, FinalizeItem, EndItem, EnqueueDigest,
         CheckAudit, AddAudit, AuditFails, Cancel, FlushDigest
<1>. QED  BY <1>1, <1>2 DEF Fault

(* A claim starts with nothing posted; only Slack, after a failure, posts    *)
(* again for the claim it holds.                                           *)
LEMMA PostedOnceStep ==
  ASSUME RInv, PostedOnce, [Next]_vars
  PROVE  PostedOnce'
<1>1. /\ deliveries \in [AttemptKeys -> Nat] /\ posts \in [Executions -> Nat]
      /\ stage \in [Executions -> Ledger!Stages]
      /\ holding \in [Executions -> AttemptKeys \cup {NoKey}]
      /\ Ledger!HeldIsPending /\ Ledger!PostsBudget
  BY DEF RInv, Ledger!IInv, Ledger!TypeOK
<1>2. mode' = mode /\ (faults' = 0 => faults = 0)
  BY FaultsStand
<1>3. SUFFICES ASSUME mode # "slack" \/ faults' = 0
               PROVE  /\ \A k \in AttemptKeys : deliveries'[k] <= 1
                      /\ \A e \in Executions : stage'[e] = "claimed" => posts'[e] = 0
  BY <1>2 DEF PostedOnce
<1>4. /\ \A k \in AttemptKeys : deliveries[k] <= 1
      /\ \A e \in Executions : stage[e] = "claimed" => posts[e] = 0
  BY <1>2, <1>3 DEF PostedOnce
<1>5. ASSUME NEW e \in Executions, stage[e] = "claimed"
      PROVE  holding[e] \in AttemptKeys /\ deliveries[holding[e]] = 0
  <2>1. holding[e] # NoKey
    BY <1>1, <1>5 DEF Ledger!HeldIsPending
  <2>2. holding[e] \in AttemptKeys
    BY <1>1, <2>1
  <2>3. deliveries[holding[e]] <= posts[e] /\ posts[e] = 0
    BY <1>1, <1>4, <1>5, <2>1 DEF Ledger!PostsBudget
  <2>4. deliveries[holding[e]] \in Nat
    BY <1>1, <2>2
  <2>. QED  BY <2>2, <2>3, <2>4
<1>6. CASE UNCHANGED ledgerVars
  BY <1>4, <1>6 DEF ledgerVars
<1>7. ASSUME NEW e \in Executions, NEW x \in Members \cup {Webhook},
             ClaimRecipient(e, x) \/ ClaimFails(e, x)
      PROVE  /\ deliveries' = deliveries
             /\ \A f \in Executions : stage'[f] = "claimed" => posts'[f] = 0
  <2>1. stage[e] = "idle" /\ UNCHANGED <<deliveries, posts>>
    BY <1>7 DEF ClaimRecipient, ClaimFails, Ledger!Claim, Ledger!TakeRow, Ledger!AlreadyClaimed,
                Ledger!vars, Ledger!ClaimOutcomeLost, ledgerVars
  <2>2. \A f \in Executions \ {e} : stage'[f] = stage[f]
    BY <1>1, <1>7 DEF ClaimRecipient, ClaimFails, Ledger!Claim, Ledger!TakeRow,
                      Ledger!AlreadyClaimed, Ledger!vars, Ledger!ClaimOutcomeLost, ledgerVars
  <2>3. posts[e] = 0
    BY <1>1, <2>1 DEF Ledger!PostsBudget
  <2>. QED  BY <1>4, <2>1, <2>2, <2>3
<1>8. ASSUME NEW e \in Executions, NEW accepted \in BOOLEAN,
             NEW answer \in {"ok", "rejected", "retryable"}, PostItem(e, accepted, answer)
      PROVE  /\ \A k \in AttemptKeys : deliveries'[k] <= 1
             /\ \A f \in Executions : stage'[f] = "claimed" => posts'[f] = 0
  <2>1. answer # "retryable"
    <3>1. answer = "retryable" => mode = "slack" /\ faults' = faults + 1
      BY <1>8 DEF PostItem, Fault
    <3>. QED  BY <1>3, <3>1, FaultsStand
  <2>2. /\ stage[e] = "claimed" /\ stage'[e] # "claimed"
        /\ \A f \in Executions \ {e} : stage'[f] = stage[f] /\ posts'[f] = posts[f]
    BY <1>1, <1>8, <2>1 DEF PostItem, Ledger!Post
  <2>3. deliveries' = deliveries \/ deliveries' = [deliveries EXCEPT ![holding[e]] = @ + 1]
    BY <1>8 DEF PostItem, Ledger!Post
  <2>4. \A k \in AttemptKeys : deliveries'[k] <= 1
    BY <1>1, <1>4, <1>5, <2>2, <2>3
  <2>. QED  BY <1>4, <2>2, <2>4
<1>9. ASSUME NEW e \in Executions, FinalizeItem(e)
      PROVE  /\ deliveries' = deliveries
             /\ \A f \in Executions : stage'[f] = "claimed" => posts'[f] = 0
  <2>1. /\ deliveries' = deliveries /\ stage'[e] = "idle"
        /\ \A f \in Executions \ {e} : stage'[f] = stage[f] /\ posts'[f] = posts[f]
    BY <1>1, <1>9 DEF FinalizeItem, Ledger!Finalize, Ledger!FinalizeFails, Ledger!Release
  <2>. QED  BY <1>4, <2>1
<1>10. ASSUME NEW e \in Executions, Cancel(e)
       PROVE  /\ \A k \in AttemptKeys : deliveries'[k] <= 1
              /\ \A f \in Executions : stage'[f] = "claimed" => posts'[f] = 0
  <2>1. CASE UNCHANGED ledgerVars
    BY <1>4, <2>1 DEF ledgerVars
  <2>2. ASSUME NEW accepted \in BOOLEAN, Ledger!Stop(e, accepted)
        PROVE  /\ \A k \in AttemptKeys : deliveries'[k] <= 1
               /\ \A f \in Executions : stage'[f] = "claimed" => posts'[f] = 0
    <3>1. /\ stage'[e] = "idle"
          /\ \A f \in Executions \ {e} : stage'[f] = stage[f] /\ posts'[f] = posts[f]
      BY <1>1, <2>2 DEF Ledger!Stop, Ledger!Release
    <3>2. \/ deliveries' = deliveries
          \/ stage[e] = "claimed" /\ deliveries' = [deliveries EXCEPT ![holding[e]] = @ + 1]
      BY <2>2 DEF Ledger!Stop
    <3>3. \A k \in AttemptKeys : deliveries'[k] <= 1
      BY <1>1, <1>4, <1>5, <3>2
    <3>. QED  BY <1>4, <3>1, <3>3
  <2>. QED  BY <1>10, <2>1, <2>2 DEF Cancel
<1>11. ASSUME NEW e \in Executions,
             \/ Resolve(e) \/ ResolveFails(e) \/ SaveInApp(e) \/ SaveInAppFails(e) \/ StartItem(e)
             \/ SkipItem(e) \/ EndItem(e) \/ EnqueueDigest(e) \/ CheckAudit(e) \/ AddAudit(e)
             \/ AuditFails(e)
      PROVE  UNCHANGED ledgerVars
  BY <1>11 DEF Resolve, ResolveFails, SaveInApp, SaveInAppFails, StartItem, SkipItem, EndItem,
               EnqueueDigest, CheckAudit, AddAudit, AuditFails
<1>12. FlushDigest \/ UNCHANGED vars => UNCHANGED ledgerVars
  BY DEF FlushDigest, vars
<1>. QED  BY <1>4, <1>6, <1>7, <1>8, <1>9, <1>10, <1>11, <1>12 DEF Next

(* One audit row and one inbox row, however many executions route the run;  *)
(* one accepted message over SMTP, and over Slack as many as the posts of   *)
(* one send that met failures (EffectsHappenOnce).                         *)
THEOREM EffectsOnce == Spec => []EffectsHappenOnce
<1>1. RInv /\ PostedOnce => EffectsHappenOnce
  <2>1. SUFFICES ASSUME RInv, PostedOnce, NEW k \in AttemptKeys
                 PROVE  deliveries[k] <= IF mode = "slack" /\ faults > 0 THEN MaxPosts ELSE 1
    BY DEF RInv, Once, EffectsHappenOnce
  <2>2. deliveries[k] <= MaxPosts
    BY <2>1 DEF RInv, Ledger!IInv, Ledger!SingleSenderBound
  <2>3. faults \in Nat
    BY <2>1, MaxFaultsAssumption DEF RInv, TypeOK
  <2>. QED  BY <2>1, <2>2, <2>3 DEF PostedOnce
<1>2. Init => PostedOnce
  BY DEF Init, Ledger!Init, PostedOnce
<1>3. RInv /\ PostedOnce /\ [Next]_vars => PostedOnce'
  BY PostedOnceStep
<1>. QED  BY <1>1, <1>2, <1>3, RouteInvariant, PTL DEF Spec

(* Executions that agree on the decisions try no more than the cap together. *)
THEOREM CapAcrossExecutions == Spec => []BudgetHolds
<1>1. RInv => BudgetHolds
  <2> SUFFICES ASSUME RInv,
                      \A e, f \in Executions :
                         matched[e] = {} \/ matched[f] = {} \/ matched[e] = matched[f]
               PROVE  Cardinality({i \in Items : Tried(i)}) <= Cap
    BY DEF BudgetHolds
  <2> DEFINE T == {i \in Items : Tried(i)}
  <2>1. CASE T = {}
    BY <2>1, FS_EmptySet, CapAssumption
  <2>2. CASE T # {}
    <3>1. PICK e \in Executions : matched[e] # {} /\ T \in SUBSET Slice(e)
      <4>1. \A f \in Executions : Slice(f) # {} => matched[f] # {}
        BY DEF Slice, Urgent, Least
      <4>2. \A i \in T : \E f \in Executions : i \in Slice(f) /\ matched[f] # {}
        BY <4>1 DEF RInv, TriedInSlice
      <4>3. PICK e \in Executions : matched[e] # {}
        BY <2>2, <4>2
      <4>4. \A f \in Executions : matched[f] # {} => Slice(f) = Slice(e)
        BY <4>3 DEF Slice, Urgent
      <4>. QED  BY <4>2, <4>3, <4>4
    <3>2. IsFiniteSet(Slice(e)) /\ Cardinality(Slice(e)) <= Cap
      BY SliceInItems, LeastIsBounded, CapAssumption DEF RInv, Slice
    <3>3. IsFiniteSet(T) /\ Cardinality(T) <= Cardinality(Slice(e))
      BY <3>1, <3>2, FS_Subset
    <3>. QED  BY <3>2, <3>3, FS_CardinalityType, CapAssumption
  <2>. QED  BY <2>1, <2>2
<1>. QED  BY <1>1, RouteInvariant, PTL

(* Nothing is tried ahead of a more severe item.                           *)
THEOREM SevereItemsFirst == Spec => []SevereFirst
<1>1. RInv => SevereFirst  BY DEF RInv
<1>. QED  BY <1>1, RouteInvariant, PTL

(* An execution that ends without an error has dropped nothing.            *)
THEOREM NothingDroppedSilently == Spec => []NoSilentDrop
<1>1. RInv => NoSilentDrop
  BY DEF RInv, NoSilentDrop, Kept, WorkedOff, Sound, Taken, Claimed, Past
<1>. QED  BY <1>1, RouteInvariant, PTL
===============================================================================
