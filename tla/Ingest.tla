-------------------------------- MODULE Ingest --------------------------------
(***************************************************************************)
(* Polling one source: execute_poll (services/connectors/poll.py), the      *)
(* fingerprint dedup and persist of db/repositories/ingestion_dedup.py and   *)
(* services/ingestion/persist.py, the health columns of                     *)
(* db/repositories/sources.py, and the hand-off to the graph                *)
(* (graph/post_poll.py).                                                    *)
(*                                                                         *)
(* Nothing keeps a scheduled poll, a manual one and another process's apart. *)
(* A successful poll stores everything in ONE transaction, at READ COMMITTED, *)
(* so it meets the others at two kinds of lock: the source's row, held from  *)
(* its first UPDATE, and the unique key of every fingerprint it inserts.    *)
(***************************************************************************)
EXTENDS Naturals, FiniteSets, Sequences, SequencesExt

CONSTANTS
    Polls,      \* executions of execute_poll
    Documents,  \* what the feed lists, one entry each
    Linkless,   \* the documents whose entry has no link of its own
    NoPoll,
    MaxPatches, \* bound: PATCHes of extra_metadata in a behaviour
    MaxFaults   \* bound: faults in a behaviour

ASSUME NoPollAssumption == NoPoll \notin Polls
ASSUME DocumentsAssumption == Linkless \subseteq Documents /\ IsFiniteSet(Documents)
ASSUME BoundsAssumption == MaxPatches \in Nat /\ MaxFaults \in Nat

VARIABLES
    supported,   \* the source_type has a connector
    enabled,     \* sources.enabled
    meta,        \* sources.extra_metadata: what operators put there, and last_poll_failure
    patches,     \* PATCHes of extra_metadata so far
    raced,       \* one of them fell between a poll's read of a failure and its write
    okCount, failCount, itemCount,  \* poll_attempts_success/_failed, items_ingested_total
    fingerprints,  \* committed source_ingested_fingerprints
    updates,     \* [Items -> committed normalized_updates rows]
    runs,        \* [Items -> runs of the graph its row was handed to]
    lock,        \* the poll whose open transaction holds the source's row
    pc,          \* [Polls -> its place]
    left,        \* [Polls -> fetched items not yet deduplicated, in feed order]
    new,         \* [Polls -> items its open transaction inserted, then its hand-off]
    seen,        \* [Polls -> extra_metadata as clear_poll_failure read it]
    last,        \* how the last poll that recorded its outcome ended
    overlap,     \* two polls have been in progress at once
    faults

health == <<okCount, failCount, itemCount>>
stored == <<fingerprints, updates>>
vars == <<supported, enabled, meta, patches, raced, health, stored, runs, lock, pc, left, new,
          seen, last, overlap, faults>>

(* MUTANT of Fingerprint: the position of every entry is hashed.            *)
FingerprintOfPlace(feed, k) == <<feed[k], k>>

(* The hash is over the entry's text and its url, and an entry without a    *)
(* link gets a url made of its position in the feed.                       *)
Fingerprint(feed, k) == <<feed[k], IF feed[k] \in Linkless THEN k ELSE 0>>

Items == (Documents \ Linkless) \X {0} \cup Linkless \X (1..Cardinality(Documents))

NoMeta == [note |-> 0, failure |-> FALSE]
Metas == [note : 0..MaxPatches, failure : BOOLEAN]
Places == {"idle", "fetch", "clear", "flush", "dedup", "failing", "handoff", "done"}

TypeOK ==
    /\ supported \in BOOLEAN /\ enabled \in BOOLEAN /\ overlap \in BOOLEAN /\ raced \in BOOLEAN
    /\ meta \in Metas /\ patches \in 0..MaxPatches
    /\ okCount \in Nat /\ failCount \in Nat /\ itemCount \in Nat
    /\ fingerprints \subseteq Items
    /\ updates \in [Items -> Nat] /\ runs \in [Items -> Nat]
    /\ lock \in Polls \cup {NoPoll}
    /\ pc \in [Polls -> Places]
    /\ left \in [Polls -> Seq(Items)]
    /\ new \in [Polls -> SUBSET Items]
    /\ seen \in [Polls -> Metas]
    /\ last \in {"ok", "failed"}
    /\ faults \in 0..MaxFaults

(* The source may have been polled before, with either outcome; the counters *)
(* and the stored items are those of this behaviour.                       *)
Init ==
    /\ supported \in BOOLEAN /\ enabled = TRUE /\ overlap = FALSE
    /\ \E f \in BOOLEAN : meta = [note |-> 0, failure |-> f] /\ last = IF f THEN "failed" ELSE "ok"
    /\ patches = 0 /\ raced = FALSE
    /\ okCount = 0 /\ failCount = 0 /\ itemCount = 0
    /\ fingerprints = {}
    /\ updates = [i \in Items |-> 0] /\ runs = [i \in Items |-> 0]
    /\ lock = NoPoll
    /\ pc = [p \in Polls |-> "idle"]
    /\ left = [p \in Polls |-> <<>>]
    /\ new = [p \in Polls |-> {}]
    /\ seen = [p \in Polls |-> NoMeta]
    /\ faults = 0

Goto(p, place) == pc' = [pc EXCEPT ![p] = place]
Fault == faults < MaxFaults /\ faults' = faults + 1
Polling(p) == pc[p] \notin {"idle", "handoff", "done"}
MayWrite(p) == lock \in {NoPoll, p}
-----------------------------------------------------------------------------
(* The source is read: a disabled one is skipped.                           *)
Load(p) ==
    /\ pc[p] = "idle"
    /\ Goto(p, IF enabled THEN "fetch" ELSE "done")
    /\ overlap' = (overlap \/ (enabled /\ \E q \in Polls : Polling(q)))
    /\ UNCHANGED <<supported, enabled, meta, patches, raced, health, stored, runs, lock, left, new,
                   seen, last, faults>>

(* record_poll_failure: one UPDATE of the counter and the marker.            *)
CountFailure ==
    /\ failCount' = failCount + 1
    /\ meta' = [meta EXCEPT !.failure = TRUE]
    /\ last' = "failed"

(* A type without a connector: the failure and the disabling, one commit.   *)
RejectType(p) ==
    /\ pc[p] = "fetch" /\ ~ supported /\ MayWrite(p)
    /\ CountFailure
    /\ enabled' = FALSE
    /\ Goto(p, "done")
    /\ UNCHANGED <<supported, patches, raced, okCount, itemCount, stored, runs, lock, left, new, seen,
                   overlap, faults>>

(* External: the feed answers with some documents, in some order, from the   *)
(* primary or the fallback url.  Entries beyond MAX_RSS_ENTRIES, entries    *)
(* that do not parse and repetitions are as if they had not been listed.    *)
Fetch(p) ==
    /\ pc[p] = "fetch" /\ supported
    /\ \E S \in SUBSET Documents : \E feed \in SetToSeqs(S) :
          left' = [left EXCEPT ![p] = [k \in DOMAIN feed |-> Fingerprint(feed, k)]]
    /\ Goto(p, "clear")
    /\ UNCHANGED <<supported, enabled, meta, patches, raced, health, stored, runs, lock, new, seen,
                   last, overlap, faults>>

FetchFails(p) ==
    /\ pc[p] = "fetch" /\ supported /\ Fault
    /\ Goto(p, "failing")
    /\ UNCHANGED <<supported, enabled, meta, patches, raced, health, stored, runs, lock, left, new,
                   seen, last, overlap>>

(* The failure is recorded in a transaction of its own.                     *)
RecordFailure(p) ==
    /\ pc[p] = "failing" /\ MayWrite(p)
    /\ CountFailure
    /\ Goto(p, "done")
    /\ UNCHANGED <<supported, enabled, patches, raced, okCount, itemCount, stored, runs, lock, left,
                   new, seen, overlap, faults>>
-----------------------------------------------------------------------------
(* The success transaction: clear the failure, dedup, persist, count.       *)

(* clear_poll_failure reads the row ...                                     *)
ReadMeta(p) ==
    /\ pc[p] = "clear"
    /\ seen' = [seen EXCEPT ![p] = meta]
    /\ Goto(p, "flush")
    /\ UNCHANGED <<supported, enabled, meta, patches, raced, health, stored, runs, lock, left, new,
                   last, overlap, faults>>

(* ... and if it saw a failure the next statement flushes its whole          *)
(* extra_metadata without it, which takes the row's lock until the commit.  *)
FlushMeta(p) ==
    /\ pc[p] = "flush"
    /\ IF seen[p].failure THEN MayWrite(p) /\ lock' = p ELSE UNCHANGED lock
    /\ Goto(p, "dedup")
    /\ UNCHANGED <<supported, enabled, meta, patches, raced, health, stored, runs, left, new, seen,
                   last, overlap, faults>>

Taken(p, i) == \E q \in Polls \ {p} : i \in new[q] /\ pc[q] = "dedup"

(* MUTANT of Duplicate: a peer's uncommitted rows go unnoticed. *)
NeverDuplicate(i) == FALSE

Duplicate(i) == i \in fingerprints

(* INSERT ... ON CONFLICT DO NOTHING, row by row: it waits while another     *)
(* open transaction has inserted the same fingerprint.                     *)
InsertFingerprint(p) ==
    /\ pc[p] = "dedup" /\ left[p] # <<>>
    /\ LET i == Head(left[p]) IN
          /\ ~ Taken(p, i)
          /\ new' = IF Duplicate(i) THEN new ELSE [new EXCEPT ![p] = @ \cup {i}]
    /\ left' = [left EXCEPT ![p] = Tail(@)]
    /\ UNCHANGED <<supported, enabled, meta, patches, raced, health, stored, runs, lock, pc, seen,
                   last, overlap, faults>>

(* persist_new_items_after_dedup: a capture and an update for each.         *)
Persist(items) == updates' = [i \in Items |-> IF i \in items THEN updates[i] + 1 ELSE updates[i]]

(* record_poll_success_metrics *)
CountSuccess(items) == okCount' = okCount + 1 /\ itemCount' = itemCount + Cardinality(items)

(* MUTANT of Cleared: the metadata read at the start is always written.     *)
ClearedAlways(p) == seen[p]

(* What clear_poll_failure leaves in extra_metadata.                        *)
Cleared(p) == IF seen[p].failure THEN [seen[p] EXCEPT !.failure = FALSE] ELSE meta

(* The captures and updates of the new items, the success metrics, COMMIT.  *)
CommitPoll(p) ==
    /\ pc[p] = "dedup" /\ left[p] = <<>> /\ MayWrite(p)
    /\ fingerprints' = fingerprints \cup new[p]
    /\ Persist(new[p])
    /\ CountSuccess(new[p])
    /\ meta' = Cleared(p)
    /\ lock' = NoPoll
    /\ last' = "ok"
    /\ Goto(p, IF new[p] = {} THEN "done" ELSE "handoff")
    /\ UNCHANGED <<supported, enabled, patches, raced, failCount, runs, left, new, seen, overlap, faults>>

(* MUTANT of Rollback: the transaction of a failed poll stays open.         *)
RollbackKeepsLock(p) ==
    /\ new' = [new EXCEPT ![p] = {}]
    /\ left' = [left EXCEPT ![p] = <<>>]
    /\ UNCHANGED lock

Rollback(p) ==
    /\ new' = [new EXCEPT ![p] = {}]
    /\ left' = [left EXCEPT ![p] = <<>>]
    /\ lock' = IF lock = p THEN NoPoll ELSE lock

(* Any statement of the transaction raises, the persist of an item included. *)
StoreFails(p) ==
    /\ pc[p] \in {"clear", "flush", "dedup"} /\ Fault
    /\ Rollback(p)
    /\ Goto(p, "failing")
    /\ UNCHANGED <<supported, enabled, meta, patches, raced, health, stored, runs, seen, last, overlap>>

(* p's transaction waits for one that q has open. *)
Waits(p, q) ==
    \/ pc[p] = "dedup" /\ left[p] # <<>> /\ pc[q] = "dedup" /\ Head(left[p]) \in new[q]
    \/ pc[p] = "dedup" /\ left[p] = <<>> /\ lock = q
    \/ pc[p] = "flush" /\ seen[p].failure /\ lock = q

(* External: PostgreSQL finds a cycle of waiting transactions and aborts one. *)
DeadlockDetected(p) ==
    /\ \E C \in SUBSET Polls : p \in C /\ \A x \in C : \E y \in C \ {x} : Waits(x, y)
    /\ Rollback(p)
    /\ Goto(p, "failing")
    /\ UNCHANGED <<supported, enabled, meta, patches, raced, health, stored, runs, seen, last, overlap,
                   faults>>
-----------------------------------------------------------------------------
(* MUTANT of Handoff: one graph invocation at a time, the others dropped.   *)
HandoffUnlessBusy(p) ==
    /\ pc[p] = "handoff"
    /\ runs' = [i \in Items |-> IF i \in new[p] /\ \A q \in Polls \ {p} : pc[q] # "handoff"
                                  THEN runs[i] + 1 ELSE runs[i]]
    /\ new' = [new EXCEPT ![p] = {}]
    /\ Goto(p, "done")
    /\ UNCHANGED <<supported, enabled, meta, patches, raced, health, stored, lock, left, seen, last,
                   overlap, faults>>

(* The background task: a fresh run_id on the new rows, then the graph.     *)
Handoff(p) ==
    /\ pc[p] = "handoff"
    /\ runs' = [i \in Items |-> IF i \in new[p] THEN runs[i] + 1 ELSE runs[i]]
    /\ new' = [new EXCEPT ![p] = {}]
    /\ Goto(p, "done")
    /\ UNCHANGED <<supported, enabled, meta, patches, raced, health, stored, lock, left, seen, last,
                   overlap, faults>>

(* The poll or its background task ends early: the failure itself cannot be  *)
(* recorded, the run_id cannot be assigned, the request is cancelled, or     *)
(* the process dies.  An open transaction is rolled back.                  *)
Lose(p) ==
    /\ pc[p] \notin {"idle", "done"} /\ Fault
    /\ Rollback(p)
    /\ Goto(p, "done")
    /\ UNCHANGED <<supported, enabled, meta, patches, raced, health, stored, runs, seen, last, overlap>>

(* PATCH /sources/{id} with extra_metadata (replaced whole) or enabled.     *)
PatchMeta ==
    /\ lock = NoPoll /\ patches < MaxPatches
    /\ patches' = patches + 1
    /\ meta' = [note |-> patches + 1, failure |-> FALSE]
    /\ raced' = (raced \/ \E p \in Polls : pc[p] = "flush" /\ seen[p].failure)
    /\ UNCHANGED <<supported, enabled, health, stored, runs, lock, pc, left, new, seen, last,
                   overlap, faults>>

PatchEnabled ==
    /\ lock = NoPoll
    /\ enabled' = ~ enabled
    /\ UNCHANGED <<supported, meta, patches, raced, health, stored, runs, lock, pc, left, new, seen,
                   last, overlap, faults>>

Progress(p) ==
    \/ RejectType(p) \/ Fetch(p) \/ RecordFailure(p) \/ ReadMeta(p) \/ FlushMeta(p)
    \/ InsertFingerprint(p) \/ CommitPoll(p) \/ DeadlockDetected(p) \/ Handoff(p)

Next ==
    \/ \E p \in Polls :
          Load(p) \/ Progress(p) \/ FetchFails(p) \/ StoreFails(p) \/ Lose(p)
    \/ PatchMeta \/ PatchEnabled

Spec == Init /\ [][Next]_vars

(* A poll that has started goes on; none has to be started.                 *)
FairSpec == Spec /\ \A p \in Polls : WF_vars(Progress(p))
-----------------------------------------------------------------------------
(***************************************************************************)
(* However polls overlap, deadlock and fail, and however the feed is         *)
(* reordered between them: a fingerprint is registered if and only if its   *)
(* update was stored, once, the counter on the source agrees with what is   *)
(* stored, and a document with a link of its own is stored once at most.   *)
(***************************************************************************)
StoredOnce ==
    /\ \A f \in Items : updates[f] = IF f \in fingerprints THEN 1 ELSE 0
    /\ itemCount = Cardinality(fingerprints)
    /\ \A d \in Documents \ Linkless : Cardinality({f \in fingerprints : f[1] = d}) <= 1

(***************************************************************************)
(* The metadata tells the truth.  Polls that do not overlap leave a failure  *)
(* marker exactly if the last poll that recorded its outcome failed, unless *)
(* an operator replaced the metadata; and what an operator stored there is  *)
(* lost only to a poll that had read a marker before the PATCH and wrote    *)
(* after it: a poll that found none to clear never touches it.             *)
(***************************************************************************)
HealthIsTruthful ==
    /\ ~ overlap /\ patches = 0 => (meta.failure <=> last = "failed")
    /\ raced \/ meta.note = patches

(***************************************************************************)
(* No transaction waits for ever, and nothing stored is left behind: in the  *)
(* absence of faults every ingested item is handed to exactly one run.      *)
(***************************************************************************)
IngestedIsRouted ==
    [](faults = 0) => \A i \in Items : (i \in fingerprints) ~> [](runs[i] = 1)

EveryPollEnds ==
    \A p \in Polls : (pc[p] = "fetch") ~> (pc[p] = "done")

(***************************************************************************)
(* A stored item is handed to a run at most once, and is left without one   *)
(* only by a poll that ended early: otherwise the poll that stored it is    *)
(* about to hand it off.                                                   *)
(***************************************************************************)
RunAtMostOnce ==
    \A f \in Items :
        /\ runs[f] <= 1
        /\ f \in fingerprints /\ runs[f] = 0 =>
              faults > 0 \/ \E p \in Polls : pc[p] = "handoff" /\ f \in new[p]

=============================================================================
