----------------------------- MODULE DigestFlush -----------------------------
(***************************************************************************)
(* The digest queue and the job that flushes it                            *)
(* (services/notifications/digest_flush.py, db/repositories/digest_queue.py, *)
(* workers/digest_scheduler.py).                                           *)
(*                                                                         *)
(* A flush reads a batch, groups it by team and, team by team, writes one   *)
(* in-app message per member, sends the external digest through the attempt *)
(* log of DeliveryLedger, and deletes the rows.  Each of these is a         *)
(* transaction of its own: rows are enqueued, members come and go, and      *)
(* the process or the database may fail between any two of them.           *)
(***************************************************************************)
EXTENDS Naturals, FiniteSets

CONSTANTS
    Flushers,        \* processes running a DigestScheduler (one job instance each)
    Teams, Users,
    RowIds,          \* primary keys, uuid4: Nat stands for their string order
    Instants,        \* created_at values to consider
    NoTeam, NoKey,
    Modes,           \* NOTIFICATIONS_EXTERNAL_CHANNEL values to consider
    InitialTeams,    \* [Users -> Teams \cup {NoTeam}]
    BatchMax,        \* digest_flush_batch_max
    Lines,           \* [SUBSET RowIds -> lines of such a digest _MAX_BODY_CHARS leaves room for]
    MaxPosts,        \* posts one Slack send may make: _DEFAULT_ATTEMPTS
    MaxDisturbances  \* bound: faults, membership changes and overlapping flushes

ASSUME RowIdsAssumption == RowIds \subseteq Nat /\ IsFiniteSet(RowIds)
ASSUME InstantsAssumption == Instants \subseteq Nat
ASSUME TeamsAssumption == NoTeam \notin Teams /\ InitialTeams \in [Users -> Teams \cup {NoTeam}]
ASSUME BatchMaxAssumption == BatchMax \in Nat \ {0}
ASSUME LinesAssumption == Lines \in [SUBSET RowIds -> Nat \ {0}]
ASSUME MaxPostsAssumption == MaxPosts \in Nat \ {0}
ASSUME MaxDisturbancesAssumption == MaxDisturbances \in Nat

VARIABLES
    mode,          \* the configured external channel
    teamOf,        \* users.team_slug of the active users, NoTeam for the rest
    rowTeam,       \* [RowIds -> its team, or NoTeam while the id is unused]
    created,       \* [RowIds -> its created_at]
    gone,          \* rows deleted by a flush
    inbox,         \* in_app_notifications: who was told what, under which digest
    mailed,        \* external messages the provider accepted
    pc, batch,     \* per flusher: its place, and the rows of its snapshot still to do
    todo, tally,   \* per flusher: recipients still to do, and what it counted
    disturbances,
    attempts, deliveries, stage, holding, posts

ledgerVars == <<attempts, deliveries, stage, holding, posts>>
flusherVars == <<pc, batch, todo, tally>>
vars == <<mode, teamOf, rowTeam, created, gone, inbox, mailed, flusherVars,
          disturbances, ledgerVars>>

(* A digest's idempotency key: the batch's digest id and the recipient.     *)
AttemptKeys == RowIds \X (Users \cup Teams)

ASSUME NoKeyAssumption == NoKey \notin AttemptKeys

Ledger == INSTANCE DeliveryLedger WITH
              Senders <- Flushers, Keys <- AttemptKeys

(* A digest: the rows it counts, and those its body lists.                  *)
InAppMessages ==
    [user : Users, anchor : RowIds, rows : SUBSET RowIds, lists : SUBSET RowIds]
ExternalMessages ==
    [key : AttemptKeys, rows : SUBSET RowIds, lists : SUBSET RowIds, ok : BOOLEAN]

NoTally == [recorded |-> FALSE, skipped |-> FALSE, error |-> FALSE]

TypeOK ==
    /\ Ledger!TypeOK
    /\ mode \in Modes
    /\ teamOf \in [Users -> Teams \cup {NoTeam}]
    /\ rowTeam \in [RowIds -> Teams \cup {NoTeam}]
    /\ created \in [RowIds -> Instants \cup {0}]
    /\ gone \subseteq RowIds
    /\ inbox \subseteq InAppMessages
    /\ mailed \subseteq ExternalMessages
    /\ pc \in [Flushers -> {"idle", "in_app", "external", "send", "delete"}]
    /\ batch \in [Flushers -> SUBSET RowIds]
    /\ todo \in [Flushers -> SUBSET (Users \cup Teams)]
    /\ tally \in [Flushers -> [recorded : BOOLEAN, skipped : BOOLEAN, error : BOOLEAN]]
    /\ disturbances \in 0..MaxDisturbances

Init ==
    /\ mode \in Modes
    /\ teamOf = InitialTeams
    /\ rowTeam = [r \in RowIds |-> NoTeam]
    /\ created = [r \in RowIds |-> 0]
    /\ gone = {} /\ inbox = {} /\ mailed = {}
    /\ pc = [f \in Flushers |-> "idle"]
    /\ batch = [f \in Flushers |-> {}]
    /\ todo = [f \in Flushers |-> {}]
    /\ tally = [f \in Flushers |-> NoTally]
    /\ disturbances = 0
    /\ Ledger!Init

Disturb == disturbances < MaxDisturbances /\ disturbances' = disturbances + 1
-----------------------------------------------------------------------------
(* list_pending_batch orders by created_at, then by id.  created_at is the    *)
(* time the inserting transaction began: rows share it, and may become      *)
(* visible out of its order.                                               *)
Queued(r) == rowTeam[r] # NoTeam /\ r \notin gone
Pending == {r \in RowIds : Queued(r)}
Before(q, r) == created[q] < created[r] \/ (created[q] = created[r] /\ q < r)
Oldest(S) == {r \in S : \A q \in S : ~ Before(q, r)}
OneOf(S) == CHOOSE r \in S : TRUE
Leading(S, n) == {r \in S : Cardinality({q \in S : Before(q, r)}) < n}

(* _truncate_body_lines: the first rows are listed, for as long as their     *)
(* lines fit, and the rest is "+N more"; the first is cut if it must be.   *)
Listed(S) == Leading(S, Lines[S])

(* The team a flusher is working on, its rows, and the digest they make.    *)
Members(t) == {u \in Users : teamOf[u] = t}
CurTeam(f) == rowTeam[OneOf(Oldest(batch[f]))]
CurRows(f) == {r \in batch[f] : rowTeam[r] = CurTeam(f)}

(* _digest_run_id_for_rows: the digest id is a hash of the least row id.    *)
Anchor(S) == CHOOSE r \in S : \A q \in S : r <= q

(* `continue`: on to the next team of the snapshot, or back to the scheduler *)
NextTeam(f) ==
    /\ batch' = [batch EXCEPT ![f] = @ \ CurRows(f)]
    /\ pc' = [pc EXCEPT ![f] = IF batch[f] = CurRows(f) THEN "idle" ELSE "in_app"]
    /\ todo' = [todo EXCEPT ![f] = {}]
    /\ tally' = [tally EXCEPT ![f] = NoTally]

Goto(f, place) == pc' = [pc EXCEPT ![f] = place]
Count(f, field) == tally' = [tally EXCEPT ![f][field] = TRUE]

(* enqueue_digest_decisions, one row: a fresh uuid4 falls anywhere in the    *)
(* order of ids.                                                           *)
Enqueue(t) ==
    /\ \E r \in RowIds, now \in Instants :
          /\ rowTeam[r] = NoTeam
          /\ rowTeam' = [rowTeam EXCEPT ![r] = t]
          /\ created' = [created EXCEPT ![r] = now]
    /\ UNCHANGED <<mode, teamOf, gone, inbox, mailed, flusherVars, disturbances, ledgerVars>>

(* External: an account moves to another team, or is deactivated.           *)
ChangeMembers(u) ==
    /\ Disturb
    /\ \E t \in (Teams \cup {NoTeam}) \ {teamOf[u]} : teamOf' = [teamOf EXCEPT ![u] = t]
    /\ UNCHANGED <<mode, rowTeam, created, gone, inbox, mailed, flusherVars, ledgerVars>>

(* The interval job fires: the oldest rows, BatchMax of them.  max_instances *)
(* is 1, so two flushes overlap only where two processes run the scheduler. *)
StartFlush(f) ==
    /\ pc[f] = "idle" /\ Pending # {}
    /\ batch' = [batch EXCEPT ![f] = Leading(Pending, BatchMax)]
    /\ Goto(f, "in_app")
    /\ IF \A g \in Flushers : pc[g] = "idle" THEN UNCHANGED disturbances ELSE Disturb
    /\ UNCHANGED <<mode, teamOf, rowTeam, created, gone, inbox, mailed, todo, tally, ledgerVars>>

(* The in-app rows to insert: one per user, unless the user already has one  *)
(* of this digest id (ON CONFLICT DO NOTHING).  The title counts the rows.  *)
NewMessages(f, audience) ==
    LET a == Anchor(CurRows(f))
        told == {m.user : m \in {n \in inbox : n.anchor = a}}
    IN  [user : audience \ told, anchor : {a}, rows : {CurRows(f)},
         lists : {Listed(CurRows(f))}]

(* Nobody to tell: the rows stay queued. *)
NoRecipients(f) ==
    /\ pc[f] \in {"in_app", "external"}
    /\ Members(CurTeam(f)) = {}
    /\ NextTeam(f)
    /\ UNCHANGED <<mode, teamOf, rowTeam, created, gone, inbox, mailed, disturbances, ledgerVars>>

(* MUTANT of SaveInApp: a conflict counts as a failed insert. *)
SaveInAppUnlessTold(f) ==
    /\ pc[f] = "in_app"
    /\ Members(CurTeam(f)) # {}
    /\ inbox' = inbox \cup NewMessages(f, Members(CurTeam(f)))
    /\ IF Cardinality(inbox') < Cardinality(inbox) + Cardinality(Members(CurTeam(f)))
         THEN NextTeam(f)
         ELSE /\ Goto(f, IF mode = "none" THEN "delete" ELSE "external")
              /\ UNCHANGED <<batch, todo, tally>>
    /\ UNCHANGED <<mode, teamOf, rowTeam, created, gone, mailed, disturbances, ledgerVars>>

SaveInApp(f) ==
    /\ pc[f] = "in_app"
    /\ Members(CurTeam(f)) # {}
    /\ inbox' = inbox \cup NewMessages(f, Members(CurTeam(f)))
    /\ Goto(f, IF mode = "none" THEN "delete" ELSE "external")
    /\ UNCHANGED <<mode, teamOf, rowTeam, created, gone, mailed, batch, todo, tally,
                   disturbances, ledgerVars>>

(* Some savepoints fail, or the commit does: whatever was written stays,    *)
(* the team is given up for this flush and its rows stay queued.           *)
SaveInAppFails(f) ==
    /\ pc[f] = "in_app" /\ Disturb
    /\ \E written \in SUBSET Members(CurTeam(f)) :
          inbox' = inbox \cup NewMessages(f, written)
    /\ NextTeam(f)
    /\ UNCHANGED <<mode, teamOf, rowTeam, created, gone, mailed, ledgerVars>>

(* _deliver_digest_external: one email per member, or one webhook post.     *)
StartExternal(f) ==
    /\ pc[f] = "external"
    /\ Members(CurTeam(f)) # {}
    /\ todo' = [todo EXCEPT ![f] = IF mode = "smtp" THEN Members(CurTeam(f)) ELSE {CurTeam(f)}]
    /\ Goto(f, "send")
    /\ UNCHANGED <<mode, teamOf, rowTeam, created, gone, inbox, mailed, batch, tally,
                   disturbances, ledgerVars>>

(* The membership lookup before the external send raises. *)
LookupFails(f) ==
    /\ pc[f] = "external" /\ Disturb
    /\ NextTeam(f)
    /\ UNCHANGED <<mode, teamOf, rowTeam, created, gone, inbox, mailed, ledgerVars>>

Key(f, x) == <<Anchor(CurRows(f)), x>>

(* MUTANT of ClaimRecipient: sends without asking whether the key is taken. *)
ClaimUnchecked(f, x) ==
    /\ pc[f] = "send" /\ x \in todo[f]
    /\ Ledger!ClaimWithoutConflict(f, Key(f, x))
    /\ todo' = [todo EXCEPT ![f] = @ \ {x}]
    /\ UNCHANGED <<mode, teamOf, rowTeam, created, gone, inbox, mailed, pc, batch, tally,
                   disturbances>>

ClaimRecipient(f, x) ==
    /\ pc[f] = "send" /\ x \in todo[f]
    /\ Ledger!Claim(f, Key(f, x))
    /\ todo' = [todo EXCEPT ![f] = @ \ {x}]
    /\ UNCHANGED <<mode, teamOf, rowTeam, created, gone, inbox, mailed, pc, batch, tally,
                   disturbances>>

(* MUTANT of SkipRecipient: a Slack claim somebody else holds counts as sent. *)
SkipSilently(f, x) ==
    /\ pc[f] = "send" /\ x \in todo[f]
    /\ Ledger!AlreadyClaimed(f, Key(f, x))
    /\ todo' = [todo EXCEPT ![f] = @ \ {x}]
    /\ UNCHANGED <<mode, teamOf, rowTeam, created, gone, inbox, mailed, pc, batch, tally,
                   disturbances>>

(* The key was claimed before: skipped over SMTP, an error over Slack.      *)
SkipRecipient(f, x) ==
    /\ pc[f] = "send" /\ x \in todo[f]
    /\ Ledger!AlreadyClaimed(f, Key(f, x))
    /\ todo' = [todo EXCEPT ![f] = @ \ {x}]
    /\ Count(f, IF mode = "smtp" THEN "skipped" ELSE "error")
    /\ UNCHANGED <<mode, teamOf, rowTeam, created, gone, inbox, mailed, pc, batch, disturbances>>

ClaimFails(f, x) ==
    /\ pc[f] = "send" /\ x \in todo[f] /\ stage[f] = "idle" /\ Disturb
    /\ Ledger!ClaimOutcomeLost(f, Key(f, x)) \/ UNCHANGED ledgerVars
    /\ todo' = [todo EXCEPT ![f] = @ \ {x}]
    /\ Count(f, "error")
    /\ UNCHANGED <<mode, teamOf, rowTeam, created, gone, inbox, mailed, pc, batch>>

Sent(f, acknowledged) ==
    [key |-> holding[f], rows |-> CurRows(f), lists |-> Listed(CurRows(f)),
     ok |-> acknowledged]

(* The post carries the digest of the snapshot's rows; anything but a 2xx is  *)
(* a fault, after which Slack may be asked again.                          *)
PostDigest(f, accepted, answer) ==
    /\ pc[f] = "send" /\ (answer = "retryable" => mode = "slack")
    /\ Ledger!Post(f, accepted, answer)
    /\ mailed' = IF accepted
                   THEN mailed \cup {Sent(f, answer = "ok")}
                   ELSE mailed
    /\ IF answer = "ok" THEN UNCHANGED disturbances ELSE Disturb
    /\ UNCHANGED <<mode, teamOf, rowTeam, created, gone, inbox, flusherVars>>

FinalizeDigest(f) ==
    /\ pc[f] = "send"
    /\ Ledger!Finalize(f)
    /\ Count(f, IF stage[f] = "ok" THEN "recorded" ELSE "error")
    /\ UNCHANGED <<mode, teamOf, rowTeam, created, gone, inbox, mailed, pc, batch, todo,
                   disturbances>>

(* _digest_smtp reports the lost outcome; _digest_slack ignores it.         *)
FinalizeDigestFails(f) ==
    /\ pc[f] = "send" /\ Disturb
    /\ Ledger!FinalizeFails(f)
    /\ Count(f, IF mode = "slack" /\ stage[f] = "ok" THEN "recorded" ELSE "error")
    /\ UNCHANGED <<mode, teamOf, rowTeam, created, gone, inbox, mailed, pc, batch, todo>>

(* MUTANT of ExternalFailed: nobody newly reached is not an error.          *)
ExternalErrored(f) == tally[f].error

ExternalFailed(f) == tally[f].error \/ (tally[f].skipped /\ ~ tally[f].recorded)

EndExternal(f) ==
    /\ pc[f] = "send" /\ todo[f] = {} /\ stage[f] = "idle"
    /\ IF ExternalFailed(f)
         THEN NextTeam(f)
         ELSE Goto(f, "delete") /\ UNCHANGED <<batch, todo, tally>>
    /\ UNCHANGED <<mode, teamOf, rowTeam, created, gone, inbox, mailed, disturbances, ledgerVars>>

(* MUTANT of Doomed: the delete takes the team's rows, not the snapshot's.  *)
DoomedByTeam(f) == {r \in RowIds : rowTeam[r] = CurTeam(f)}

Doomed(f) == CurRows(f)

DeleteRows(f) ==
    /\ pc[f] = "delete"
    /\ gone' = gone \cup Doomed(f)
    /\ NextTeam(f)
    /\ UNCHANGED <<mode, teamOf, rowTeam, created, inbox, mailed, disturbances, ledgerVars>>

DeleteFails(f) ==
    /\ pc[f] = "delete" /\ Disturb
    /\ NextTeam(f)
    /\ UNCHANGED <<mode, teamOf, rowTeam, created, gone, inbox, mailed, ledgerVars>>

(* The process dies mid-flush and its scheduler starts afresh.              *)
Crash(f) ==
    /\ pc[f] # "idle" /\ Disturb
    /\ IF stage[f] = "idle"
         THEN UNCHANGED <<ledgerVars, mailed>>
         ELSE \E accepted \in BOOLEAN :
                /\ Ledger!Stop(f, accepted)
                /\ mailed' = IF accepted
                               THEN mailed \cup {Sent(f, FALSE)}
                               ELSE mailed
    /\ pc' = [pc EXCEPT ![f] = "idle"]
    /\ batch' = [batch EXCEPT ![f] = {}]
    /\ todo' = [todo EXCEPT ![f] = {}]
    /\ tally' = [tally EXCEPT ![f] = NoTally]
    /\ UNCHANGED <<mode, teamOf, rowTeam, created, gone, inbox>>

(* What the flusher does when nothing goes wrong. *)
Progress(f) ==
    \/ StartFlush(f) \/ NoRecipients(f) \/ SaveInApp(f) \/ StartExternal(f)
    \/ \E x \in Users \cup Teams : ClaimRecipient(f, x) \/ SkipRecipient(f, x)
    \/ PostDigest(f, TRUE, "ok")
    \/ FinalizeDigest(f) \/ EndExternal(f) \/ DeleteRows(f)

Fault(f) ==
    \/ SaveInAppFails(f) \/ LookupFails(f) \/ FinalizeDigestFails(f) \/ DeleteFails(f)
    \/ \E x \in Users \cup Teams : ClaimFails(f, x)
    \/ \E accepted \in BOOLEAN, answer \in {"rejected", "retryable"} :
           PostDigest(f, accepted, answer)
    \/ Crash(f)

Next ==
    \/ \E t \in Teams : Enqueue(t)
    \/ \E u \in Users : ChangeMembers(u)
    \/ \E f \in Flushers : Progress(f) \/ Fault(f)

Spec == Init /\ [][Next]_vars

(* The interval trigger fires for ever and a flush in progress goes on;     *)
(* nothing obliges rows to arrive, members to change or faults to strike.  *)
FairSpec == Spec /\ \A f \in Flushers : WF_vars(Progress(f))
-----------------------------------------------------------------------------
(* A message announces a row if it lists it, or if its body was full when   *)
(* the row's turn came: then the row is one of those its title counts.     *)
Announces(m, r) ==
    /\ r \in m.rows
    /\ r \in m.lists \/ Cardinality({q \in m.rows : Before(q, r)}) >= Lines[m.rows]

(***************************************************************************)
(* A row leaves the queue only when an external message that announces it   *)
(* was accepted and acknowledged, whenever a channel is configured:        *)
(* crashes, lost claims, failed finalizes and a second flusher included.   *)
(* Rows a full body leaves out go with it: only "+N more" tells of them.   *)
(***************************************************************************)
DeletedWasMailed ==
    mode # "none" => \A r \in gone : \E m \in mailed : m.ok /\ Announces(m, r)

(* One message of those a reader got counts the row, and it announces it.   *)
AnnouncedOnce(received, r) ==
    /\ Cardinality({m \in received : r \in m.rows}) = 1
    /\ \E m \in received : Announces(m, r)

(***************************************************************************)
(* Without faults, membership changes and overlapping flushes, every row    *)
(* that left the queue was announced to every member exactly once in-app,   *)
(* and exactly once by mail over SMTP.                                     *)
(***************************************************************************)
UndisturbedExactlyOnce ==
    disturbances = 0 =>
        \A r \in gone : \A u \in Members(rowTeam[r]) :
            /\ AnnouncedOnce({m \in inbox : m.user = u}, r)
            /\ mode = "smtp" => AnnouncedOnce({m \in mailed : m.key[2] = u}, r)

(***************************************************************************)
(* A flush composes the attempt log as its protocol demands: every step is  *)
(* a step of DeliveryLedger or leaves the log alone.                       *)
(***************************************************************************)
LedgerSpec == Ledger!Spec

(***************************************************************************)
(* With in-app delivery only, every row is eventually deleted once faults   *)
(* stop, provided every team ends up with members.                         *)
(***************************************************************************)
InAppDrains ==
    (mode = "none" /\ <>[](\A t \in Teams : Members(t) # {})) =>
        \A r \in RowIds : Queued(r) ~> (r \in gone)

(***************************************************************************)
(* digest_flush.py:207 - "replay after partial failure does not duplicate   *)
(* in-app rows": no row is listed to anybody in two messages.              *)
(***************************************************************************)
NoDuplicateInApp ==
    \A m, n \in inbox : m.user = n.user /\ m.lists \cap n.lists # {} => m = n

(***************************************************************************)
(* digest_flush.py:205 - "Claim pending rows, deliver batched in-app +      *)
(* external, delete rows": what is deleted was at least counted to        *)
(* somebody.                                                               *)
(***************************************************************************)
DeletedWasShown == \A r \in gone : \E m \in inbox : r \in m.rows
=============================================================================
