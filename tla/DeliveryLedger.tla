--------------------------- MODULE DeliveryLedger ---------------------------
(***************************************************************************)
(* The external-delivery attempt log (services/notifications/_attempts.py  *)
(* over db/repositories/notification_delivery_attempts.py) and the two     *)
(* transports that hang off it (adapters/smtp.py, adapters/slack.py).      *)
(*                                                                         *)
(* A sender - an execution of node_route, or a digest flush - claims an    *)
(* idempotency key by inserting a pending row, posts to the provider, and  *)
(* finalizes the row with the outcome.  Every step is a transaction or a   *)
(* network call of its own, so senders interleave and may stop anywhere.   *)
(***************************************************************************)
EXTENDS Naturals

CONSTANTS
    Senders,   \* concurrent executions that may deliver
    Keys,      \* (run_id, item_url, channel, recipient_descriptor)
    NoKey,     \* "holds no claim"
    MaxPosts   \* posts one send may make: 1 over SMTP, _DEFAULT_ATTEMPTS over Slack

ASSUME MaxPostsAssumption == MaxPosts \in Nat \ {0}
ASSUME NoKeyAssumption == NoKey \notin Keys

VARIABLES
    attempts,    \* [Keys -> outcome column, or "absent"]
    deliveries,  \* [Keys -> times the provider accepted the message]
    stage,       \* [Senders -> where its send stands]
    holding,     \* [Senders -> the key it claimed, or NoKey]
    posts        \* [Senders -> posts made by the current send]

vars == <<attempts, deliveries, stage, holding, posts>>

Outcomes == {"success", "failure"}
Stages == {"idle", "claimed", "ok", "failed"}

TypeOK ==
    /\ attempts \in [Keys -> {"absent", "pending"} \cup Outcomes]
    /\ deliveries \in [Keys -> Nat]
    /\ stage \in [Senders -> Stages]
    /\ holding \in [Senders -> Keys \cup {NoKey}]
    /\ posts \in [Senders -> Nat]

Init ==
    /\ attempts = [k \in Keys |-> "absent"]
    /\ deliveries = [k \in Keys |-> 0]
    /\ stage = [s \in Senders |-> "idle"]
    /\ holding = [s \in Senders |-> NoKey]
    /\ posts = [s \in Senders |-> 0]

(* The sender gives its claim up; the row stays as it is. *)
Release(s) ==
    /\ stage' = [stage EXCEPT ![s] = "idle"]
    /\ holding' = [holding EXCEPT ![s] = NoKey]
    /\ posts' = [posts EXCEPT ![s] = 0]

TakeRow(s, k) ==
    /\ attempts' = [attempts EXCEPT ![k] = "pending"]
    /\ stage' = [stage EXCEPT ![s] = "claimed"]
    /\ holding' = [holding EXCEPT ![s] = k]
    /\ UNCHANGED <<deliveries, posts>>

(* MUTANT of Claim: the check-then-insert this protocol replaced. *)
ClaimWithoutConflict(s, k) == stage[s] = "idle" /\ TakeRow(s, k)

(* MUTANT of Claim: a failed attempt may be claimed again. *)
ClaimRetriesFailures(s, k) ==
    stage[s] = "idle" /\ attempts[k] \in {"absent", "failure"} /\ TakeRow(s, k)

(* INSERT ... ON CONFLICT DO NOTHING found no row: the claim is ours. *)
Claim(s, k) == stage[s] = "idle" /\ attempts[k] = "absent" /\ TakeRow(s, k)

(* The row exists: rowcount 0, the caller skips the recipient. *)
AlreadyClaimed(s, k) == stage[s] = "idle" /\ attempts[k] # "absent" /\ UNCHANGED vars

(* The commit raised although the server had applied it: claim_attempt      *)
(* answers (False, error), the caller never sends, the row stays pending.  *)
ClaimOutcomeLost(s, k) ==
    /\ stage[s] = "idle"
    /\ attempts[k] = "absent"
    /\ attempts' = [attempts EXCEPT ![k] = "pending"]
    /\ UNCHANGED <<deliveries, stage, holding, posts>>

(* One request to the provider.  A 2xx answer means it was accepted; after  *)
(* any other answer, or none, it may have been.  The adapter posts again   *)
(* after a retryable answer while it has posts left.                       *)
Post(s, accepted, answer) ==
    /\ stage[s] = "claimed"
    /\ answer = "ok" => accepted
    /\ deliveries' = IF accepted
                       THEN [deliveries EXCEPT ![holding[s]] = @ + 1]
                       ELSE deliveries
    /\ posts' = [posts EXCEPT ![s] = @ + 1]
    /\ stage' = [stage EXCEPT ![s] =
                    CASE answer = "ok" -> "ok"
                      [] answer = "retryable" /\ posts[s] + 1 < MaxPosts -> "claimed"
                      [] OTHER -> "failed"]
    /\ UNCHANGED <<attempts, holding>>

Outcome(s) == IF stage[s] = "ok" THEN "success" ELSE "failure"

(* MUTANT of Finalize: the outcome is written without looking at the send. *)
FinalizeBlindly(s) ==
    /\ stage[s] \in {"ok", "failed"}
    /\ attempts' = [attempts EXCEPT ![holding[s]] = "success"]
    /\ Release(s)
    /\ UNCHANGED deliveries

(* UPDATE ... WHERE outcome = pending, in a session of its own. *)
Finalize(s) ==
    /\ stage[s] \in {"ok", "failed"}
    /\ attempts' = [attempts EXCEPT ![holding[s]] =
                        IF @ = "pending" THEN Outcome(s) ELSE @]
    /\ Release(s)
    /\ UNCHANGED deliveries

FinalizeFails(s) ==
    /\ stage[s] \in {"ok", "failed"}
    /\ Release(s)
    /\ UNCHANGED <<attempts, deliveries>>

(* The process dies, or wait_for cancels the execution.  A request already  *)
(* handed to the SMTP worker thread is not cancelled with it.              *)
Stop(s, accepted) ==
    /\ stage[s] # "idle"
    /\ accepted => stage[s] = "claimed"
    /\ deliveries' = IF accepted
                       THEN [deliveries EXCEPT ![holding[s]] = @ + 1]
                       ELSE deliveries
    /\ Release(s)
    /\ UNCHANGED attempts

Next ==
    \E s \in Senders :
        \/ \E k \in Keys : Claim(s, k) \/ AlreadyClaimed(s, k) \/ ClaimOutcomeLost(s, k)
        \/ \E accepted \in BOOLEAN, answer \in {"ok", "retryable", "rejected"} :
               Post(s, accepted, answer)
        \/ Finalize(s)
        \/ FinalizeFails(s)
        \/ \E accepted \in BOOLEAN : Stop(s, accepted)

Spec == Init /\ [][Next]_vars
-----------------------------------------------------------------------------
(***************************************************************************)
(* However many executions race, stop and are repeated, the provider       *)
(* accepts a key's message at most as often as ONE send posts: nobody but   *)
(* the execution whose INSERT won ever posts for the key.                  *)
(***************************************************************************)
SingleSenderBound == \A k \in Keys : deliveries[k] <= MaxPosts

(***************************************************************************)
(* A row that says success was accepted by the provider, whoever wrote it. *)
(***************************************************************************)
SuccessWasDelivered == \A k \in Keys : attempts[k] = "success" => deliveries[k] > 0

(***************************************************************************)
(* A key is never released: once claimed it never becomes claimable again,  *)
(* and a terminal outcome is never overwritten, so an operator reading the  *)
(* log never sees an outcome that later changes.                           *)
(***************************************************************************)
RowsOnlyAdvance ==
    [][\A k \in Keys :
          /\ attempts[k] # "absent" => attempts'[k] # "absent"
          /\ attempts[k] \in Outcomes => attempts'[k] = attempts[k]]_vars

(***************************************************************************)
(* external.py:25 - "External sends are at-most-once per (run_id, item_url, *)
(* channel, recipient_descriptor)".  True of one post per send.            *)
(***************************************************************************)
AtMostOnce == \A k \in Keys : deliveries[k] <= 1

(***************************************************************************)
(* What makes SingleSenderBound inductive: two executions never hold one   *)
(* key; a held key's row is pending; nothing was accepted for an unclaimed  *)
(* key, and no more than the holder has posted for a held one.             *)
(***************************************************************************)
HoldersDistinct ==
    \A s, t \in Senders : holding[s] = holding[t] /\ holding[s] # NoKey => s = t

HeldIsPending ==
    \A s \in Senders :
        /\ stage[s] = "idle" <=> holding[s] = NoKey
        /\ holding[s] # NoKey => attempts[holding[s]] = "pending"

PostsBudget ==
    \A s \in Senders :
        /\ stage[s] = "idle" => posts[s] = 0
        /\ stage[s] = "claimed" => posts[s] < MaxPosts
        /\ posts[s] <= MaxPosts
        /\ holding[s] # NoKey => deliveries[holding[s]] <= posts[s]
        /\ stage[s] = "ok" => deliveries[holding[s]] > 0

UnclaimedUntouched == \A k \in Keys : attempts[k] = "absent" => deliveries[k] = 0

IInv ==
    /\ TypeOK
    /\ HoldersDistinct
    /\ HeldIsPending
    /\ PostsBudget
    /\ UnclaimedUntouched
    /\ SingleSenderBound
    /\ SuccessWasDelivered
=============================================================================
