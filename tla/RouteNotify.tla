----------------------------- MODULE RouteNotify -----------------------------
(***************************************************************************)
(* node_route and the notifications it fans out (graph/nodes/route.py,      *)
(* services/notifications/scheduling.py, in_app.py, external.py and         *)
(* enqueue_digest_decisions of digest_flush.py), for one run and one team.  *)
(*                                                                         *)
(* A run's routing may be executed more than once and concurrently: two     *)
(* resume requests that overlap each run the tail of the graph, each with   *)
(* its own classifications, and an execution may be cancelled anywhere.     *)
(* What holds across executions rests on the unique keys of four tables.    *)
(***************************************************************************)
EXTENDS Naturals, FiniteSets, FiniteSetsExt

CONSTANTS
    Executions,     \* executions of node_route for the run
    Items,          \* item urls, numbered in (severity, url) order
    Immediate,      \* those of an immediate severity; the others are for the digest
    Users, Webhook, \* the users, and the recipient descriptor of the Slack channel
    Members,        \* the active members of the team
    NoKey,
    Modes,          \* NOTIFICATIONS_EXTERNAL_CHANNEL values to consider
    Cap,            \* max_external_immediate_per_run
    MaxPosts,       \* posts one Slack send may make: _DEFAULT_ATTEMPTS
    MaxFaults       \* bound: failures in a behaviour

ASSUME ItemsAssumption == Items \subseteq Nat /\ IsFiniteSet(Items) /\ Immediate \subseteq Items
ASSUME MembersAssumption == Members \subseteq Users /\ Webhook \notin Users
ASSUME CapAssumption == Cap \in Nat
ASSUME MaxPostsAssumption == MaxPosts \in Nat \ {0}

VARIABLES
    mode, digestOn,  \* configuration: external channel, NOTIFICATIONS_DIGEST_ENABLED
    pc,              \* [Executions -> its place]
    matched,         \* [Executions -> items its decisions match a rule for]
    slice,           \* [Executions -> items whose external delivery is still to do]
    todo,            \* [Executions -> recipients of the current item still to do]
    failed,          \* [Executions -> it reported an entry in errors]
    inbox,           \* [Items \X Users -> rows in in_app_notifications]
    digest,          \* items in notification_digest_queue
    digested,        \* [Items -> digests a flush sent it in]
    applied,         \* ROUTING_APPLIED rows of the run in audit_events
    faults,
    attempts, deliveries, stage, holding, posts

config == <<mode, digestOn>>
ledgerVars == <<attempts, deliveries, stage, holding, posts>>
vars == <<config, pc, matched, slice, todo, failed, inbox, digest, digested, applied,
          faults, ledgerVars>>

Recipients == IF mode = "smtp" THEN Members ELSE {Webhook}
AttemptKeys == Items \X (Users \cup {Webhook})

ASSUME NoKeyAssumption == NoKey \notin AttemptKeys
ASSUME MaxFaultsAssumption == MaxFaults \in Nat

Ledger == INSTANCE DeliveryLedger WITH
              Senders <- Executions, Keys <- AttemptKeys

Places == {"start", "in_app", "external", "send", "digest", "audit_check", "audit_add",
           "done", "cancelled"}

TypeOK ==
    /\ Ledger!TypeOK
    /\ mode \in Modes /\ digestOn \in BOOLEAN
    /\ pc \in [Executions -> Places]
    /\ matched \in [Executions -> SUBSET Items]
    /\ slice \in [Executions -> SUBSET Immediate]
    /\ todo \in [Executions -> SUBSET (Members \cup {Webhook})]
    /\ failed \in [Executions -> BOOLEAN]
    /\ inbox \in [Items \X Users -> Nat]
    /\ digest \subseteq Items \ Immediate
    /\ digested \in [Items -> Nat]
    /\ applied \in Nat
    /\ faults \in 0..MaxFaults

Init ==
    /\ mode \in Modes /\ digestOn \in BOOLEAN
    /\ pc = [e \in Executions |-> "start"]
    /\ matched = [e \in Executions |-> {}]
    /\ slice = [e \in Executions |-> {}]
    /\ todo = [e \in Executions |-> {}]
    /\ failed = [e \in Executions |-> FALSE]
    /\ inbox = [k \in Items \X Users |-> 0]
    /\ digest = {}
    /\ digested = [i \in Items |-> 0]
    /\ applied = 0
    /\ faults = 0
    /\ Ledger!Init

Fault == faults < MaxFaults /\ faults' = faults + 1
Goto(e, place) == pc' = [pc EXCEPT ![e] = place]
ReportIf(e, bad) == failed' = [failed EXCEPT ![e] = @ \/ bad]
Urgent(e) == matched[e] \cap Immediate
Routine(e) == matched[e] \ Immediate
AfterExternal(e) == IF Routine(e) = {} THEN "audit_check" ELSE "digest"
-----------------------------------------------------------------------------
(* The rules are loaded and applied to the classifications this execution   *)
(* carries; unmatched decisions deliver nothing.  A run with no decision    *)
(* at all is not audited, so an execution here has at least one item.       *)
Resolve(e) ==
    /\ pc[e] = "start"
    /\ \E M \in SUBSET Items :
          /\ matched' = [matched EXCEPT ![e] = M]
          /\ Goto(e, CASE M \cap Immediate # {} -> "in_app"
                       [] M # {} /\ M \cap Immediate = {} -> "digest"
                       [] OTHER -> "audit_check")
    /\ UNCHANGED <<config, slice, todo, failed, inbox, digest, digested, applied, faults,
                   ledgerVars>>

(* The rules cannot be read: no decision, no delivery, one error.           *)
ResolveFails(e) ==
    /\ pc[e] = "start" /\ Fault
    /\ ReportIf(e, TRUE)
    /\ Goto(e, "done")
    /\ UNCHANGED <<config, matched, slice, todo, inbox, digest, digested, applied, ledgerVars>>

(* INSERT ... ON CONFLICT (run_id, item_url, user_id) DO NOTHING. *)
Insert(count) == IF count = 0 THEN 1 ELSE count

Tell(e, audience) ==
    inbox' = [k \in Items \X Users |->
                IF k[1] \in Urgent(e) /\ k[2] \in audience THEN Insert(inbox[k]) ELSE inbox[k]]

(* MUTANT of Least: the decisions are sorted the wrong way round.          *)
Greatest(S, n) == {i \in S : Cardinality({j \in S : j > i}) < n}

(* The n most severe of a set: it is sorted, then cut at n. *)
Least(S, n) == {i \in S : Cardinality({j \in S : j < i}) < n}

(* MUTANT of Slice: what another execution has sent already does not count. *)
SliceOfUnsent(e) ==
    Least({i \in Urgent(e) : \A x \in Recipients : attempts[<<i, x>>] = "absent"}, Cap)

(* The items external delivery is tried for in this execution.              *)
Slice(e) == Least(Urgent(e), Cap)

(* Once the inboxes are written: on to the external deliveries, if any.     *)
StartExternal(e) ==
    IF mode = "none" \/ Slice(e) = {}
      THEN Goto(e, AfterExternal(e)) /\ UNCHANGED slice
      ELSE Goto(e, "external") /\ slice' = [slice EXCEPT ![e] = Slice(e)]

(* enqueue_critical_in_app_for_decisions: one transaction for all items.    *)
SaveInApp(e) ==
    /\ pc[e] = "in_app"
    /\ Tell(e, Members)
    /\ StartExternal(e)
    /\ ReportIf(e, Members = {} \/ Slice(e) # Urgent(e))
    /\ UNCHANGED <<config, matched, todo, digest, digested, applied, faults, ledgerVars>>

(* Some savepoints fail, or the commit does; delivery goes on all the same. *)
SaveInAppFails(e) ==
    /\ pc[e] = "in_app" /\ Fault
    /\ \E audience \in SUBSET Members : Tell(e, audience)
    /\ StartExternal(e)
    /\ ReportIf(e, TRUE)
    /\ UNCHANGED <<config, matched, todo, digest, digested, applied, ledgerVars>>
-----------------------------------------------------------------------------
(* enqueue_external_for_decisions, decision by decision in sorted order.    *)
Current(e) == Min(slice[e])

NextItem(e) ==
    /\ slice' = [slice EXCEPT ![e] = @ \ {Current(e)}]
    /\ Goto(e, IF slice[e] = {Current(e)} THEN AfterExternal(e) ELSE "external")

StartItem(e) ==
    /\ pc[e] = "external" /\ Members # {}
    /\ todo' = [todo EXCEPT ![e] = Recipients]
    /\ Goto(e, "send")
    /\ UNCHANGED <<config, matched, slice, failed, inbox, digest, digested, applied, faults,
                   ledgerVars>>

(* No member to send to, or the lookup raises. *)
SkipItem(e) ==
    /\ pc[e] = "external"
    /\ (Members = {} /\ UNCHANGED faults) \/ Fault
    /\ NextItem(e)
    /\ ReportIf(e, TRUE)
    /\ UNCHANGED <<config, matched, todo, inbox, digest, digested, applied, ledgerVars>>

Key(e, x) == <<Current(e), x>>
Sending(e, x) == pc[e] = "send" /\ x \in todo[e]

ClaimRecipient(e, x) ==
    /\ Sending(e, x)
    /\ Ledger!Claim(e, Key(e, x)) \/ Ledger!AlreadyClaimed(e, Key(e, x))
    /\ todo' = [todo EXCEPT ![e] = @ \ {x}]
    /\ UNCHANGED <<config, pc, matched, slice, failed, inbox, digest, digested, applied, faults>>

ClaimFails(e, x) ==
    /\ Sending(e, x) /\ stage[e] = "idle" /\ Fault
    /\ Ledger!ClaimOutcomeLost(e, Key(e, x)) \/ UNCHANGED ledgerVars
    /\ todo' = [todo EXCEPT ![e] = @ \ {x}]
    /\ ReportIf(e, TRUE)
    /\ UNCHANGED <<config, pc, matched, slice, inbox, digest, digested, applied>>

(* Anything but a 2xx is a fault; only Slack is asked again after one.       *)
PostItem(e, accepted, answer) ==
    /\ pc[e] = "send" /\ (answer = "retryable" => mode = "slack")
    /\ Ledger!Post(e, accepted, answer)
    /\ IF answer = "ok" THEN UNCHANGED faults ELSE Fault
    /\ UNCHANGED <<config, pc, matched, slice, todo, failed, inbox, digest, digested, applied>>

FinalizeItem(e) ==
    /\ pc[e] = "send"
    /\ \/ Ledger!Finalize(e) /\ ReportIf(e, stage[e] = "failed") /\ UNCHANGED faults
       \/ Ledger!FinalizeFails(e) /\ ReportIf(e, TRUE) /\ Fault
    /\ UNCHANGED <<config, pc, matched, slice, todo, inbox, digest, digested, applied>>

EndItem(e) ==
    /\ pc[e] = "send" /\ todo[e] = {} /\ stage[e] = "idle"
    /\ NextItem(e)
    /\ UNCHANGED <<config, matched, todo, failed, inbox, digest, digested, applied, faults,
                   ledgerVars>>
-----------------------------------------------------------------------------
(* MUTANT of EnqueueDigest: with the digest disabled nothing is reported.   *)
EnqueueDigestQuietly(e) ==
    /\ pc[e] = "digest"
    /\ \/ digestOn /\ digest' = digest \cup Routine(e) /\ UNCHANGED <<failed, faults>>
       \/ digestOn /\ Fault /\ ReportIf(e, TRUE) /\ UNCHANGED digest
       \/ ~ digestOn /\ UNCHANGED <<failed, digest, faults>>
    /\ Goto(e, "audit_check")
    /\ UNCHANGED <<config, matched, slice, todo, inbox, digested, applied, ledgerVars>>

(* enqueue_digest_decisions: the rows not queued already; all or nothing.   *)
EnqueueDigest(e) ==
    /\ pc[e] = "digest"
    /\ \/ digestOn /\ digest' = digest \cup Routine(e) /\ UNCHANGED <<failed, faults>>
       \/ digestOn /\ Fault /\ ReportIf(e, TRUE) /\ UNCHANGED digest
       \/ ~ digestOn /\ ReportIf(e, TRUE) /\ UNCHANGED <<digest, faults>>
    /\ Goto(e, "audit_check")
    /\ UNCHANGED <<config, matched, slice, todo, inbox, digested, applied, ledgerVars>>

(* External: a flush of the digest queue (module DigestFlush) sends and     *)
(* deletes what is queued.                                                 *)
FlushDigest ==
    /\ digest # {}
    /\ digest' = {}
    /\ digested' = [i \in Items |-> IF i \in digest THEN digested[i] + 1 ELSE digested[i]]
    /\ UNCHANGED <<config, pc, matched, slice, todo, failed, inbox, applied, faults, ledgerVars>>

(* has_audit_event_for_run *)
CheckAudit(e) ==
    /\ pc[e] = "audit_check"
    /\ Goto(e, IF applied > 0 THEN "done" ELSE "audit_add")
    /\ UNCHANGED <<config, matched, slice, todo, failed, inbox, digest, digested, applied,
                   faults, ledgerVars>>

(* MUTANT of AddAudit: the check is the only protection. *)
AddAuditUnguarded(e) ==
    /\ pc[e] = "audit_add"
    /\ applied' = applied + 1
    /\ Goto(e, "done")
    /\ UNCHANGED <<config, matched, slice, todo, failed, inbox, digest, digested, faults,
                   ledgerVars>>

(* The insert, under the partial unique index: losing to a peer is success. *)
AddAudit(e) ==
    /\ pc[e] = "audit_add"
    /\ applied' = IF applied = 0 THEN 1 ELSE applied
    /\ Goto(e, "done")
    /\ UNCHANGED <<config, matched, slice, todo, failed, inbox, digest, digested, faults,
                   ledgerVars>>

AuditFails(e) ==
    /\ pc[e] \in {"audit_check", "audit_add"} /\ Fault
    /\ ReportIf(e, TRUE)
    /\ Goto(e, "done")
    /\ UNCHANGED <<config, matched, slice, todo, inbox, digest, digested, applied, ledgerVars>>

(* The execution is cancelled (resume timeout, disconnect) or its process dies. *)
Cancel(e) ==
    /\ pc[e] \notin {"done", "cancelled"} /\ Fault
    /\ IF stage[e] = "idle"
         THEN UNCHANGED ledgerVars
         ELSE \E accepted \in BOOLEAN : Ledger!Stop(e, accepted)
    /\ Goto(e, "cancelled")
    /\ UNCHANGED <<config, matched, slice, todo, failed, inbox, digest, digested, applied>>

Next ==
    \/ \E e \in Executions :
          \/ Resolve(e) \/ ResolveFails(e) \/ SaveInApp(e) \/ SaveInAppFails(e)
          \/ StartItem(e) \/ SkipItem(e)
          \/ \E x \in Members \cup {Webhook} : ClaimRecipient(e, x) \/ ClaimFails(e, x)
          \/ \E accepted \in BOOLEAN, answer \in {"ok", "rejected", "retryable"} :
                PostItem(e, accepted, answer)
          \/ FinalizeItem(e) \/ EndItem(e) \/ EnqueueDigest(e)
          \/ CheckAudit(e) \/ AddAudit(e) \/ AuditFails(e) \/ Cancel(e)
    \/ FlushDigest

Spec == Init /\ [][Next]_vars
-----------------------------------------------------------------------------
Tried(i) == \E x \in Users \cup {Webhook} : attempts[<<i, x>>] # "absent"

(***************************************************************************)
(* However many executions route the run, ROUTING_APPLIED is recorded once, *)
(* nobody has an item twice in the inbox, and a recipient is sent it once:  *)
(* over SMTP whatever happens, over Slack unless a post was answered by a   *)
(* failure; the one send that owns the claim then repeats it, and only it.  *)
(***************************************************************************)
EffectsHappenOnce ==
    /\ applied <= 1
    /\ \A k \in Items \X Users : inbox[k] <= 1
    /\ \A k \in AttemptKeys :
          deliveries[k] <= IF mode = "slack" /\ faults > 0 THEN MaxPosts ELSE 1

(***************************************************************************)
(* Executions that agree on the decisions stay within the cap together: the *)
(* second one does not move on to what the first had to leave out.         *)
(***************************************************************************)
BudgetHolds ==
    (\A e, f \in Executions : matched[e] = {} \/ matched[f] = {} \/ matched[e] = matched[f]) =>
        Cardinality({i \in Items : Tried(i)}) <= Cap

(***************************************************************************)
(* An item is never tried externally ahead of a more severe one: by some    *)
(* execution that matched it, everything before it was tried as well,      *)
(* unless something failed.                                                *)
(***************************************************************************)
SevereFirst ==
    faults = 0 /\ Members # {} =>
        \A i \in Items : Tried(i) =>
            \E e \in Executions : i \in matched[e] /\ \A j \in Urgent(e) : j < i => Tried(j)

(***************************************************************************)
(* An execution that ended without reporting an error has dropped nothing:  *)
(* every member has every urgent item, every recipient's send was claimed   *)
(* by somebody, and every routine item is queued for a digest or was in one. *)
(***************************************************************************)
NoSilentDrop ==
    \A e \in Executions : pc[e] = "done" /\ ~ failed[e] =>
        /\ \A i \in Urgent(e), u \in Members : inbox[<<i, u>>] > 0
        /\ mode # "none" => \A i \in Urgent(e), x \in Recipients : attempts[<<i, x>>] # "absent"
        /\ \A i \in Routine(e) : i \in digest \/ digested[i] > 0
=============================================================================
