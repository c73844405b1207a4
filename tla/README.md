# Sentinel Prism: formal models, checks and proofs

This directory is a TLA+ verification project for Sentinel Prism, a
regulatory-monitoring backend (Python, FastAPI, SQLAlchemy async, PostgreSQL,
LangGraph, APScheduler). It models the parts of the program where executions
overlap, processes die, requests race and messages are sent twice, checks them
with TLC on small instances, and proves with TLAPS, for all sizes, every type
invariant, safety invariant and action property that the passing runs check. The
four liveness properties are model-checked only.

Contents: [1. The system](#1-the-system) · [2. Modules](#2-the-modules) ·
[3. Runs](#3-what-each-run-checks) · [4. Bounds and fairness](#4-bounds-and-fairness) ·
[5. Proofs](#5-what-is-proved) · [6. Findings](#6-where-the-code-disagrees-with-what-it-says) ·
[7. Not modelled](#7-what-is-not-modelled) · [8. Plan](#8-plan) ·
[9. Running it](#9-running-it)

Paths below are relative to the Python package `src/sentinel_prism/` unless
they start with something else.

## 1. The system

A *source* (an RSS feed or web page) is polled by a scheduler or by hand, each
fetch with retries and perhaps a fallback. New items are fingerprinted, stored
as raw and normalised updates, and handed to a *run* of a LangGraph pipeline: classify, possibly a human review, brief, route.
Routing notifies the members of a team in-app, sends the urgent items by e-mail
or Slack, and queues the rest for a digest that a second scheduler flushes.
Analysts page through the updates and the inbox of a web console, review, replay
a run's tail and leave feedback. Admins edit sources and routing rules, and two
governed policies (classification, golden set) as drafts that they apply.

| component | state | operations | talks to |
|---|---|---|---|
| Poll scheduler (`workers/poll_scheduler.py`) | one job per enabled source, in memory | start, fire, refresh, remove | calls `execute_poll`; is refreshed by the sources API |
| Source administration (`api/routes/sources.py`, `db/repositories/sources.py`) | `sources` rows: enabled, `extra_metadata` (with the poll-failure marker), counters | create, PATCH, delete, manual poll | poll, poll scheduler |
| Connectors and fetch (`services/connectors/fetch_retry.py`, `rss_fetch.py`, `http_fetch.py`, `html_fallback.py`, `scout_fetch.py`) | none between fetches | attempts with retries at the primary, then at the fallback | poll, scout node |
| Polling and ingestion (`services/connectors/poll.py`, `scout_fetch.py`, `db/repositories/ingestion_dedup.py`, `services/ingestion/persist.py`) | fingerprints, raw and normalised updates, health columns | one poll: load, fetch, dedup, persist, commit, hand off | graph (`graph/post_poll.py`) |
| Graph (`graph/graph.py`, LangGraph, checkpointer) | one thread per run: last checkpoint, interrupt | `ainvoke`, resume | nodes classify, gate, brief, route |
| Scout, normalize, classify, brief (`graph/nodes/`), replay (`graph/replay.py`) | the run's channels: items, classifications, errors, briefing, decisions; the `briefings` row | the nodes; classify's retry; a replay from a chosen node | search tools, LLM, audit |
| Human review (`graph/nodes/human_review_gate.py`, `graph/pipeline_review.py`, `api/routes/runs.py`, `db/repositories/review_queue.py`) | `review_queue_items`, the interrupt in the checkpoint, audit rows | interrupt, list, resume | graph |
| Routing (`graph/nodes/route.py`, `services/routing/resolve.py`) | the `ROUTING_APPLIED` audit row | resolve, notify, audit | routing rules, notifications |
| Routing rules (`api/routes/routing_rules.py`, `db/repositories/routing_rules.py`) | `routing_rules` rows, their audit rows | create, PATCH, delete, the two ordered reads | routing |
| Notifications (`services/notifications/`) | `in_app_notifications`, `notification_delivery_attempts`, `notification_digest_queue` | in-app insert, claim / send / finalize, enqueue, flush | SMTP, Slack |
| Digest scheduler (`workers/digest_scheduler.py`) | one interval job per process | flush | digest flush |
| Governed policies (`db/repositories/classification_policy.py`, `golden_set_policy.py` and their routes) | one row each: active, draft, version; audit rows | put draft, apply | classify reads the active policy |
| Update explorer, inbox, feedback (`db/repositories/updates.py`, `feedback.py`, `api/routes/updates.py`, `notifications.py`, `web/src/pages/Updates.tsx`) | the page's list, selection and form; `update_feedback` rows; read marks | count, page, detail, submit, mark read | read what everything above writes |
| Accounts (`api/routes/auth.py`, `api/deps.py`, `services/auth/`) | `users` rows; tokens are with their holders | register, login, authenticate a call, check its role | every protected route |
| Dashboards, metrics, audit search, search tools, start-up, migrations | see section 7 | | |

**How they interact.** There are no locks and no messages inside the program
beyond `asyncio` tasks of one process and, when several API processes run,
PostgreSQL. Two executions of anything may overlap: two polls of a source
(timer and manual), two resumes of a run (two analysts, or a retry after a
timeout), a replay beside its run, two flushes (two processes), two admins, a
reader and everybody who writes. What keeps them apart is
always one of four things: a unique key with `ON CONFLICT DO NOTHING`, a row
lock, an identity that makes a repetition a no-op (the idempotency key, the
digest id), or nothing.

**What is hard.** (1) Effects outside the database (e-mail, Slack) cannot be
rolled back, so claim, send and record are three steps with a crash possible
between any two. (2) A resume re-executes a node whose effects may already
stand. (3) The database and LangGraph's checkpointer commit separately. (4) A
batch, a dictionary or an ORM object is read in one transaction and written in
another. (5) A digest is identified by its contents, which change. (6) Most
failures are caught and reported in a list, and the next step runs anyway. (7) A page, a form or a snapshot is made of
several statements, each of which sees another table.
`PROJECT.json` lists 40 places where this bites, each with its line.

**What makes each part correct.**

- *Attempt log*: one sender per idempotency key; `success` is said only of what
  the provider accepted; a row never goes back.
- *Digest*: no row is deleted before a message announced it; nobody is told twice; the
  queue drains.
- *Review*: a waiting run can be found; a decision on record was applied; requests
  that do not overlap act as one; a decided run leaves the queue.
- *Routing*: repeated execution adds no effect of its own; the cap on external
  sends holds and prefers the severe; nothing is dropped silently.
- *Fetch*: neither given up too early nor kept up too long; the fallback is asked
  exactly when the primary failed for good.
- *Ingestion*: fingerprint if and only if update; the health signal tells the
  truth; what is stored reaches one run; no poll waits for ever.
- *The run's data*: a retried node leaves no trace of its failed attempts; what
  wanted a review is briefed only with a request's decision on it; the briefing is what was routed; a
  replay changes nothing.
- *Sources*: the scheduler polls what the table says; the fallback pair is
  consistent; a PATCH changes what it names.
- *Routing rules*: one state of the table decides; the audit tells what was there.
- *Policies*: the audit log explains the active policy; no edit is lost; the
  classifier reads a content that somebody applied.
- *Console*: a walk through a changing list misses little; feedback quotes the
  briefing it is about; a handler runs only for who may call it.

## 2. Modules

One module per component, an `MC` module that gives its constants values for
TLC, and a proof module where there are theorems. In a `*.tla` module an
operator under the comment `MUTANT of X` is not part of the specification: it is
`X` as a plausible bug would have written it, and `PROJECT.json` names the
property that fails when it takes `X`'s place. Where a definition close to `X`
serves as the bug, no such operator is written.

| module | models | actions ↔ code |
|---|---|---|
| `DeliveryLedger` | The attempt log as an abstract protocol: any number of executions, any number of keys. `attempts` is the table's `outcome` column, `deliveries` counts what the provider accepted (nobody in the program can see it). | `Claim`, `AlreadyClaimed` and `ClaimOutcomeLost` are the outcomes of `begin_delivery_attempt`; `Post` is one post of an adapter, `MaxPosts` is 1 for SMTP and `_DEFAULT_ATTEMPTS` (3) for Slack; `Finalize` and `FinalizeFails` are `finalize_delivery_attempt_outcome`; `Stop` is a crash anywhere. |
| `DigestFlush` | The queue and its flush, transaction by transaction, for SMTP, Slack and no channel. A row has its team and its `created_at`, an instant that others may share, and is queued until it is `gone`; the snapshot of a flush takes the oldest, ties in any order. A message has the rows it counts (`rows`, its title) and those its body lists (`lists`): `Listed` is `_truncate_body_lines`, with room for `Lines[S]` lines of a digest of the rows `S`. | `Enqueue`, `StartFlush` (snapshot and grouping by team), `SaveInApp` (one transaction), `StartExternal`, `ClaimRecipient`, `PostDigest` (repeated over Slack after a fault), `FinalizeDigest`, `EndExternal` (the decision whether to delete), `DeleteRows`, and a failure of each; `ChangeMembers`, `Crash`. Instantiates `DeliveryLedger` with the digest keys. |
| `RouteNotify` | `node_route` of one run from its decisions to `ROUTING_APPLIED`. | `Resolve`, `SaveInApp`, `StartItem` (severity order, cap), `ClaimRecipient`, `PostItem` (repeated over Slack after a fault), `FinalizeItem`, `EnqueueDigest`, `CheckAudit`, `AddAudit`, a failure of each, `Cancel`; `FlushDigest` is the environment's digest flush. Instantiates `DeliveryLedger` with the item keys. |
| `ReviewResume` | A run's checkpoint and its review-queue row, the gate, and the resume handler. | `Classify`, `GateProjects` (the projection transaction), `GateInterrupts`, `FindRow` / `FindInterrupt` / `Invoke` / `GateResumes` / `CheckAfter` / `Finish` (the resume handler, awaits separated), `Brief`, `Route`, `Abort`, `Restart`. |
| `Fetch` | One fetch: the attempts at a place, the classes of answer, and the fallback. | `StartFetch`, `Attempt` (one turn of `fetch_with_retry`'s loop; an answer is usable or not by the connector it meets), `Forget` (its caller has the result). |
| `Pipeline` (EXTENDS `Fetch`) | The data a run carries through the graph, with the execution that starts it, those that resume it, and a replay. | `ScoutSkips`, `ScoutAsks`, `Scout`, `Normalize`, `Search`, `Classify`, `ClassifyRaises` (LangGraph executes the node again), `Evict` (the cache of searches is the process's and bounded), `Interrupt`, `FindInterrupt` and `Invoke` (a request sees the interrupt, then invokes the graph from the checkpoint there is by then), `Gate` (approve, reject, override), `GatePassed`, `BriefNothing`, `BriefFails`, `Brief`, `Announce` (`BRIEFING_GENERATED`), `Route`, `StartReplay`, `BriefReplayed`, `Die`. |
| `Ingest` | Polls of one source against PostgreSQL at READ COMMITTED. An item is a document and, for an entry without a link, the place its synthetic URL names. | `Load`, `RejectType`, `Fetch`, `FetchFails`, `ReadMeta` and `FlushMeta` (the two halves of `clear_poll_failure`), `InsertFingerprint`, `CommitPoll`, `StoreFails`, `RecordFailure`, `DeadlockDetected`, `Handoff`, `Lose`, `PatchMeta`, `PatchEnabled`. |
| `PolicyDraft` | A governed policy's row, drafts, audit, and its reader. | `LockRow` (`SELECT … FOR UPDATE`), `SaveDraft`, `RefuseDraft` (the merged content does not validate), `ApplyDraft`, `NothingToApply`, `Rollback`, `ReadPolicy` (classify, the GET routes); the two kinds differ in what an omitted field is taken from. |
| `Sources` | A row of `sources` and the scheduler's job for it, under overlapping requests. | `Create`, `LoadForPatch` (with the check of the fallback pair), `CommitPatch`, `PatchOfGone`, `LoadForDelete`, `CommitDelete`, `DeleteRestricted`, `RefreshJob` (from the session's copy), `CommitAnswerLost`, `RestartApp`. |
| `RoutingResolve` | `resolve_routing_decision` and the order of the tables, as operators, with the reference `Explains`. | |
| `RoutingRules` (EXTENDS it) | The rule table under its editors, the audit, and `node_route`'s two reads. | `CreateRule`, `LoadRule`, `CommitPatchRule`, `LoadForRemoval`, `CommitRemoval`, `RollbackEdit`, `ReadTopics`, `ReadSeverities`, `EndReading`. |
| `Explorer` | What the console's pages show while the pipeline writes. | `OpenList`, `CountUpdates`, `PageUpdates`, `PageInbox` (a row beyond the page tells whether there are more); `Select`, `DetailRow`, `DetailShown`, `Submit`, `PostRow`, `PostOverlay`, `PostSaved`, `PostFails`, `PostAnswered`; `MarkRead`; and the writers by what they commit: `StorePoll`, `TagRows`, `QueueReview`, `CloseReview`, `UpsertBriefing`, `Route`, `FlushDigest`. |
| `Accounts` | Users, tokens and one protected call. | `Register`, `Login`, `Arrive`, `GetCurrentUser`, `CheckRole`, `Refuse`, `Answer`; `ChangeByHand` and `Tick` are the environment. |

`DigestFlush` and `RouteNotify` compose with `DeliveryLedger` through
`INSTANCE … WITH` on shared variables: their steps contain its actions. Every behaviour of a flush, and of a routing, is
a behaviour of the log's specification: proved for both (section 5), and
the property `LedgerSpec` of the digest run. `DeliveryLedger` is thus the abstract
specification of what external delivery promises. `Pipeline` runs a whole `Fetch`
inside its scout node. `Admin` puts `Sources` and `RoutingRules` side by side,
`Console` `PolicyDraft`, `Explorer` and `Accounts`: these share no state, so TLC takes
behaviours that move one of them while the others stay as they begin, and a theorem about
one holds of the whole.
The proof modules are `DeliveryLedgerProofs`, `DigestFlushProofs`,
`RouteNotifyProofs`, `ReviewResumeProofs`, `PipelineProofs` (with `Fetch`),
`IngestProofs`, `AdminProofs` and `ConsoleProofs`.

A run is modelled three times, at three depths: `ReviewResume` has its queue row,
its checkpoint and the requests that race for it, and treats its data as one
decision; `Pipeline` has the data and no queue; `RouteNotify` has the fan-out of
its last node.

External parts, modelled from how the code uses them: PostgreSQL (unique keys,
row locks, READ COMMITTED, deadlock detection, a commit whose answer is lost),
the mail and Slack providers (accept or not, answer or not), LangGraph
(checkpoint after each superstep, a node that interrupted is re-executed from
its start on resume, `ainvoke(Command(resume=…))` starts from the thread's
latest checkpoint, and the last checkpoint put is the latest).

## 3. What each run checks

| run | states | properties | what it shows |
|---|---|---|---|
| `ledger` | 561 | `IInv`, `SingleSenderBound`, `SuccessWasDelivered`, `RowsOnlyAdvance` | Three executions race for two keys, three posts per send. A key's message is accepted at most `MaxPosts` times, `success` is true, the log only advances. Also the instance on which the inductive invariant was found. |
| `digest` | 425 970 | `DeletedWasMailed`, `UndisturbedExactlyOnce`, `LedgerSpec` | With a crash, failure, lost claim, membership change or overlapping flush at any two points: a deleted row was announced by a message the provider acknowledged, listed by it or counted behind a full body; without any of them one in-app message, and over SMTP one mail, of each member announces it; every step of a flush, Slack's three posts included, is a step of the attempt log's specification. |
| `digest_drain` | 52 926 | `InAppDrains` | With in-app delivery only, every row is eventually deleted after any two disturbances. Not that it was seen: the case of `digest_unshown` occurs here too. |
| `review` | 582 196 | `WaitingIsListed`, `AuditedIsDecided`, `OneReviewer`, `AuditedLeavesQueue` | Three resume requests at will, two faults, both checkpointers. |
| `route` | 1 055 811 | `EffectsHappenOnce`, `BudgetHolds`, `SevereFirst`, `NoSilentDrop` | Two executions of one run's routing with their own classifications, two faults, every channel with Slack's three posts, digest on and off. |
| `ingest` | 46 520 | `StoredOnce`, `HealthIsTruthful`, `RunAtMostOnce`, `IngestedIsRouted`, `EveryPollEnds` | Two overlapping polls, in any feed order, one entry without a link, with database deadlocks, two faults and a PATCH. |
| `pipeline` | 1 276 680 | `TypeOK`, `FetchIsEarned`, `RetryLeavesNothing`, `ReviewedBeforeBriefed`, `BriefingMatchesRun`, `ReplayLeavesNoTrace` | One run from its fetch to its end, over every feed of at most two updates, with two requests (resumes that overlap in any way, or a replay), a fault, and a cache that may lose any entry. |
| `admin` | 768 603 | `TypeOK`, `JobFollowsRow`, `PairBreaksOnlyByOverlap`, `AuditTellsStory`, `OnlySentColumnsChange`, `OneTableDecides` | Two requests on a source with a lost answer and restarts; two editors of the rule table and a run that reads it. |
| `console` | 1 788 132 | `VisitorsTypeOK`, `IInv`, `AuditExplainsActive`, `DraftKeepsEveryEdit`, `WalkMissesLittle`, `FeedbackQuotesBriefing`, `AccessIsEarned` | Two admins on either policy; a reader of a list, or an author of feedback, with five commits around; accounts, tokens and a call with changes by hand. |
| `ledger_slack`, `digest_duplicate`, `digest_unshown` | | one each | Counterexamples to what the repository says of itself: section 6. |

Some properties deserve a word.

- `DeletedWasMailed` is about a *tally*. A recipient of a digest may be reached,
  fail, or have been claimed by an earlier flush; rows are deleted unless
  something failed, or recipients were skipped and none was newly reached. The
  run shows that this rule never deletes a row no acknowledged message announces,
  although a claim by an earlier, failed flush looks the same as one by a
  successful flush. *Announces* is less than *lists*: a body has 8000 characters,
  rows behind them are deleted with the batch (`digest_flush.py:52`, `:371`), and
  all their reader has of them is "+N more" and the number in the title. The design
  accepts it (`5-4-immediate-vs-digest-scheduling.md:116`); the property says that
  a row that is not listed was counted by a message whose body was full when the row's
  turn came, and `UndisturbedExactlyOnce` says so of every member. `DeletedWasShown` and `NoDuplicateInApp` show that the
  in-app side has no such guarantee.
- `EffectsHappenOnce` excepts what finding 1 is about: over Slack, a fault may make one
  send post up to `MaxPosts` times. Neither a second execution nor a crash adds to that.
- `BudgetHolds` is about executions *together*: the cap is counted per
  execution, over items and not over sends, and holds for the run only because
  an item counts whether or not its send was claimed before. It needs the
  executions to agree on the decisions; two reviewers who override
  differently may exceed it, by design of the key.
- `NoSilentDrop` says an execution with an empty `errors` list has dropped
  nothing, although every step of the fan-out catches its exceptions.
- `WaitingIsListed` holds up to two failures: the projection of the queue row
  and the audit entry that reports the projection's failure must both fail for
  a waiting run to be invisible.
- `AuditedIsDecided` has a boundary: a restart with the memory checkpointer
  loses the thread (`Lost`), the one case in which a decision on record is in
  no checkpoint.
- `StoredOnce` is an equality, not an implication: a fingerprint without an
  update would hide an item for ever, an update without one would be repeated.
  An entry without a link is excepted from "stored once": its URL is its place.
- `HealthIsTruthful` counts what `clear_poll_failure` may do to an admin's PATCH:
  it is lost only to a poll that had read a marker before and writes after.
- `RetryLeavesNothing` excepts what was evicted: the cache is one LRU of 1000 entries for
  the whole process (`classify.py:44-62`), so that a retry of a run with more in-scope
  updates, or beside other runs, searches again for what was dropped. `paid` is what has
  been answered and not evicted since.
- `ReviewedBeforeBriefed` has the edges the code has. An override of one item
  clears the run's flag, and a row nobody corrected goes out still marked. And a
  request that has seen the interrupt may find, when it invokes the graph, that
  another's decision has taken the run past the gate: it goes on from there, and what it
  briefs and routes is decided by the other, its own reject or override notwithstanding.
  So the property names the request `q` whose decision the rows carry (the history
  field `by`) and claims `q` is the request itself only where no two invoked the graph.
- `BriefingMatchesRun` holds of updates whose URL no other update of the run
  shares: `node_brief` keeps the last classification of a URL and `node_route`
  the first.
- `ReplayLeavesNoTrace` is about effects, and about what the replay computes: the
  groups in the graph's channel are the briefing that was stored, if every update has a
  date. The route's answer drops them (`ReplayRunOut`, `runs.py:327-336`, `869-879`).
- `JobFollowsRow` and `PairBreaksOnlyByOverlap` name their exceptions in history
  variables (`drift`, `pairRace`) that only overlap or a lost answer sets: the
  runs show that nothing else breaks the pair or parts the job from its row.
- `OneTableDecides` allows one commit between the two reads. With two, a decision
  may come from a pair of tables that never stood together.
- `WalkMissesLittle` bounds what offset paging skips by what left the part
  already shown: it is not zero, and it is not more.
- `FeedbackQuotesBriefing` distinguishes what was true at submit time from what
  was on the page.

## 4. Bounds and fairness

Every bound is a constant of the module or of its cfg; the guards name it.

| bound | value | why it is enough |
|---|---|---|
| `Senders`, `Keys` (ledger) | 3, 2 | a race needs two; a third sees the loser's side of a race already lost; two keys for one sender holding one while wanting another. Proved for all values. |
| `MaxPosts` | 3 | `_DEFAULT_ATTEMPTS` of the Slack adapter; in all three modules. |
| `Lines` | 1 in `digest`, 2 in the others | a body of one line leaves the younger of two rows to "+1 more"; of two, none. A function of the digest's rows: `LinesAssumption` says at least one line, since the first is cut rather than left out. Proved for all values. |
| `Flushers`, `Teams`, `Users`, rows | 2, 2, 3, 2 | a flush that goes on to a second team after the first failed; a team of two so that one member can be reached and the other not; two rows so that a batch can gain a smaller or a larger uuid and lose its anchor. |
| `Instants` | 1 in `digest`, 2 in `digest_drain` | rows created at one instant are taken in any order, others oldest first; with a batch of the whole queue the order matters to the anchor of the id alone, which is of the least uuid. |
| `BatchMax` | 2 | the whole queue; a smaller batch only delays rows (section 7). |
| `MaxDisturbances` | 2 | faults, membership changes and overlaps: a fault during an overlap, or one flush's failure and a second one's crash. The three counterexamples need one. |
| `MAX_ATTEMPTS` | 4 | the code's. Proved for all values. |
| `Feeds`, `Corrections`, `Dimensions` (pipeline) | see `MCPipeline` | at most two updates: in and out of scope, dated or not, with a shared URL, without text; a patch for one URL or for any; two of the four grouping dimensions, one of which differs between a stored row and the state. |
| `Resumers`, `MaxRequests`, `MaxTries`, `MaxFaults` (pipeline) | 2, 2, 2, 1 | two resumes that overlap, or a resume and a replay beside it; a classify that raises once and succeeds or raises for good; one failed write or lost execution. |
| `Requests`, `MaxFields`, `MaxLost` (admin) | 2, 2, 1 | two PATCHes of half a pair each; a PATCH of a whole one. |
| `Editors`, `RuleIds`, `MaxEdits` | 2, 2, 2 | two edits of one rule, and one rule ahead of another; two commits between the reads. |
| `Updates`, `Runs`, `PageSize`, `MaxWrites`, `MaxFeedback` (console) | 2, 2, 1, 5, 1 | two pages; a store, a tag, two briefings and one more commit between any two statements of a page, a detail or a submit. |
| `People`, `UserIds`, `MaxClock`, `MaxByHand` | 2, 2, 3, 2 | an address given up and taken by somebody else while a token for it lives; expiry at, before and after its minute. |
| `Requests`, `MaxFaults` (review) | 3, 2 | two overlapping requests and one that comes after them; the audit of a failed projection needs the second fault. |
| `Executions`, `Items`, `Immediate`, `Cap` (route) | 2, 3, 2, 1 | two urgent items contend for a cap of one, the third goes to the digest. |
| `Polls`, `Documents`, `MaxPatches`, `MaxFaults` (ingest) | 2, 2 (one linkless), 1, 2 | two fingerprints in opposite orders are the smallest deadlock; a linkless entry that changes its place needs another beside it; a poll recorded as failed whose failure is itself lost needs two faults. Safety proved for all values. |
| `Admins`, `Values`, `MaxVersion` | 2, 2 on 2 fields, 3 | two applies, so that the audit chain has an inner link. Proved for all values, `MaxVersion` any number. |

Symmetry is used in `ledger`, `digest`, `route`, `pipeline`, `admin` and
`console` (safety only), over senders, flushers, executions, members, resumers,
requests, editors, updates and runs, none of which the specification orders.

*Fairness* is weak fairness of each execution's own progress and nothing else:

- `DigestFlush`: the flush of each process goes on and starts again, which is
  APScheduler's interval trigger. No row has to arrive, and no fault to happen.
- `ReviewResume`: an invocation that has begun goes on (an `asyncio` task whose
  awaits return). No analyst has to come: the `FindRow` that opens a request is
  not fair.
- `Ingest`: a poll that has begun goes on, and PostgreSQL breaks a deadlock
  (`deadlock_timeout`). No poll has to be started.

Where a liveness property needs more it says so in its hypothesis: the absence
of faults in `IngestedIsRouted` and `AuditedLeavesQueue`, members in every team
from some point on in `InAppDrains`. `CHECK_DEADLOCK FALSE` is set where an
instance ends by itself (all requests served, all polls over, all ids used);
`ledger` is checked for deadlock; in the others the properties that would
notice one are `EveryPollEnds`, `InAppDrains` and `AuditedLeavesQueue`.

## 5. What is proved

TLAPS checks every proof to the last leaf; nothing is assumed but the named
assumptions on the constants, which TLC evaluates in every run and which say that

- bounds, caps, ids, priorities and instants are natural numbers (`MaxPosts`, `Lines[S]`,
  `MAX_ATTEMPTS`, `MaxTries`, `BatchMax` and `PageSize` positive), and the JWT's
  default lifetime is within its clamp;
- `NoKey`, `NoTeam`, `NoDraft`, `NoAdmin`, `NoUser`, `Omitted`, `Refused`, `None`,
  `NoPoll`, `NoUrl`, `NoJob`, `NoRule`, `NoRun`, `NoLevel`, `NoSeverity`, `Unborn`,
  `Gone`, the team's webhook and the pipeline's own execution are not among what
  they stand beside;
- what the database holds is finite: `Documents`, `Items`, `RowIds`, `RuleIds`,
  `Updates`, and so are the requests that may resume a run (`Resumers`);
- `Members` are users, `Immediate` items are items, every user begins in a team or
  in none, a feed is a sequence of updates and the empty one is a feed, a
  correction names a severity; and there is a request.

**`DeliveryLedgerProofs`**, for any sets of senders and keys and any `MaxPosts`:

- `LedgerInvariant`: `Spec => []IInv`.
- `SingleSender`: a key's message is accepted at most `MaxPosts` times;
  `SmtpAtMostOnce`: at most once when a send is one post.
- `SuccessRowsAreTrue`: a row that says `success` was accepted.
- `LogIsMonotone`: a row never goes back.

The argument: `SingleSenderBound` is not inductive, because a sender that posts
might not be the key's only one. `IInv` adds what excludes that. Two executions
never hold the same key (`HoldersDistinct`) because a held key's row is
`pending` (`HeldIsPending`), which is never what a claim finds; nothing was
accepted for a key no one has claimed (`UnclaimedUntouched`), so a fresh holder
starts from zero; and while a key is held no more was accepted than its holder
has posted (`PostsBudget`). A row claimed by an execution that died has no
holder and stays `pending`: nobody may ever send for it again. There is one
lemma per group of actions, and one step per conjunct it can disturb.

**`RouteNotifyProofs`**, for any executions of one run's routing, any items, any
members, any cap and any `MaxPosts`:

- `RouteImplementsLedger`: every behaviour of `RouteNotify` is one of
  `DeliveryLedger` with the item keys; the ledger's theorems hold of it.
- `EffectsOnce` (`EffectsHappenOnce`), `CapAcrossExecutions` (`BudgetHolds`),
  `SevereItemsFirst` (`SevereFirst`), `NothingDroppedSilently` (`NoSilentDrop`).

The argument: each step is a ledger step or leaves the ledger's variables alone.
`RInv` then says, for every execution, where its work stands: what has left its
slice was claimed for every recipient (`WorkedOff`), and an execution without an
error has written every inbox and has its routine items in the digest or beyond it
(`Kept`). Claims, inbox rows and digested items are never taken back (`Onward`), so
what one execution has done is not undone by another, and one lemma
(`SameFor`, `StepOf`) covers the others in every step. The cap holds for all
executions together because whatever was tried is in somebody's slice
(`TriedInSlice`), and executions that agree on the decisions have equal slices.
`EffectsOnce` adds to the ledger's budget that a holder which has posted once is done
unless the channel is Slack and there was a fault (`PostedOnce`).

**`DigestFlushProofs`**, for any flushers, rows, creation times, teams and users,
any `BatchMax`, any bodies, any `MaxPosts`, and any number of disturbances:

- `FlushImplementsLedger`: every behaviour of a flush is one of `DeliveryLedger`
  (the property `LedgerSpec`).
- `DeletedRowsWereMailed` (`DeletedWasMailed`), `UndisturbedDigests`
  (`UndisturbedExactlyOnce`).

The argument for the first safety property: `Working` ties the tally of a flush to
the messages of the rows it has in hand. A tally that counts a success has an
acknowledged message of exactly these rows (`Reached`), and rows are only deleted
with such a message, however the claims were lost. A message lists what its body holds
(`Composed`), so that a row it counts and does not list stood behind a full body
(`CountedIsAnnounced`): neither theorem says that a deleted row was listed. For the second, with nothing
disturbed: one flusher works at a time (`Alone`), it has told every member and has
mailed whoever it has finished with exactly once (`Steady`), and every message,
mail and claim that exists is of rows that are gone or of those in hand
(`Accounted`). The digest of fresh rows therefore meets no earlier claim, since its
key's anchor is one of them, and `OnceEach` accumulates over deleted rows.

**`ConsoleProofs`**, the three modules of the console.

Policies, for any number of admins, any values and any `MaxVersion`:

- `PolicyInvariant`: `Spec => []IInv`.
- `AuditTrail`: the audit rows form one chain from the seed to the active content,
  and the content a reader has found is one that was active.
- `GoldenSetDraftsMerge`: a golden-set draft holds every edit since the last apply.

Both properties would be broken by a request that writes from a row read before
somebody else's commit. `ReadIsCurrent` says that whoever is between its read and
its write holds the lock and has read the row as it is; it is preserved by
`LockRow` because the lock is free only when no request is in progress, and by
every write because a write ends the request.

Explorer, for any updates, runs, severities and feedback:

- `ExplorerInvariant`, and from it `FeedbackIsQuoted` (`FeedbackQuotesBriefing`).

An update belongs to the run that stored it and never to another, so the run id
that a POST has read stays true while the pipeline writes (`HadRun`). What the
run's briefing says now is among what it has said since the POST began
(`PostSound`), because every commit adds to that set what it makes readers see;
the second `SELECT` reads one of them.

- `PagingInv`, and from it `WalksMissLittle` (`WalkMissesLittle`); with `FormSound`,
  `ExplorerTyped` (`ExplorerTypeOK`).

A page is the entries whose places in the list lie in a range, and a place is one
more than the number of entries ahead, so what is proved of paging is proved of
numbers of entries. No commit reorders what stands in the lists (`ListsSound`,
`WriteKeepsLists`): of the entries that stay listed, one can only move up to a place
already passed when others ahead of it leave (`MovedUp`). Hence, as long as the
walk goes on, the entries that stayed, stand at a place already passed and were not
shown are at most as many as have slipped away (`WalkSound`); a page shows all of
its range (`PageTurned`). What is left beyond the last page is nothing in the inbox,
whose page asks for one row more (`ProbeTells`), and in the explorer at most what
came between the last count and its page (`LastPage`), since what is listed now is
at most what was counted and what has come since.

Accounts, for any people, addresses and settings:

- `AccountsInvariant`, and from it `AccountsTyped` (`AccountsTypeOK`), with
  `ExplorerTyped` the theorem `VisitorsTyped` (`VisitorsTypeOK`), and `AccessEarned`
  (`AccessIsEarned`).

Ids are not given out again, so a token's account is its holder's or gone
(`TokensSound`); what `get_current_user` copied was true when it was copied, and a
call has then earned its answer whatever changes later (`CallSound`).

**`PipelineProofs`**, for any feed, any corrections, any number of resumes, tries
and faults, and any `MAX_ATTEMPTS`:

- `FetchInvariant` and `FetchEarned` for `FetchSpec`; `PipelineFetches`: the fetch
  inside the scout node is a behaviour of `FetchSpec`, so `PipelineFetchEarned`
  (`FetchIsEarned`) holds in the pipeline too.
- `PipelineInvariant`, and from it `PipelineTyped` (`TypeOK`), `RetriesLeaveNothing`
  (`RetryLeavesNothing`), `NothingUnreviewed` (`ReviewedBeforeBriefed`),
  `BriefingIsTheRuns` (`BriefingMatchesRun`), and `ReplaysLeaveNoTrace`
  (`ReplayLeavesNoTrace`).

For the fetch: a place that is being asked has had passing trouble only and has an
attempt left (`Pending`); the primary was given up for good (`Lost`) before the
fallback was asked. For the run, `PipelineInv` has a conjunct per concern.
`InPlaces` says where each execution may be: the requests begin when the first
execution has paused. `Classifying`: the channel is empty until classify returns
and then has a row for each update, in their order; what a failed attempt searched
is in the cache unless evicted, and what is not evicted is not searched again.
`Reviewing`: what the gate has in hand is
what classify returned, and what lies beyond it, the checkpoint and the channels of
late requests included, follows from that and from the body of
the request whose decision it bears (`HasDecided`). A request that is alone in having
invoked the graph bears its own. `BriefedByOne`: the stored briefing is of the rows
of an execution that has passed its node, one announces it, and the
checkpoint of an execution that goes on alone is its own channels (`Sole`,
`Carried`); with overlapping resumes nothing more can be said, and the property
says no more. `Replaying`: the groups a replay has computed are those its rows make,
and no other execution has any. There is one lemma per action and concern; those about
briefing rows (`node_brief` keeps the last of a URL, `node_route` the first) rest on
a few about positions in a sequence.

**`ReviewResumeProofs`**, for any number of requests, any decisions and any
`MaxFaults`, over either checkpointer:

- `ReviewInvariant`, and from it `ReviewTypes`, `WaitingRunsAreListed`
  (`WaitingIsListed`) and `AuditedRunsAreDecided` (`AuditedIsDecided`);
- `OneReviewerDecides` (`OneReviewer`).

The argument: while the checkpoint waits nobody is beyond the gate and nothing is
audited (`PausedAtGate`), and once any request has seen the interrupt the
checkpoint either waits or carries a decision past the gate (`BegunAfterPause`):
whichever execution saves last, however old its state, it carries a decision
(`DecisionCarried`), so that a checkpoint never returns to the gate without one. A run
that is about to wait has its row, its report, or two faults
(`ProjectedIsListed`). One lemma per action, one step per conjunct. For
`OneReviewer`, a run without faults or overlaps is in one of three states
(`OneAtATime`): undecided, carried by one request from the gate to the end with its
own decision in checkpoint and channels (`Carrying`), or settled on that decision
and off the queue (`Settled`).

**`IngestProofs`**, for any number of polls, any finite set of items, linkless
ones among them, in any feed order, and any number of faults and PATCHes:

- `IngestInvariant`, and from it `IngestTypes`, `ItemsAreStoredOnce`
  (`StoredOnce`), `MetadataIsTruthful` (`HealthIsTruthful`) and
  `ItemsAreRoutedOnce` (`RunAtMostOnce`).

The argument: what an open transaction has inserted is nobody else's and not
committed, and what waits for its hand-off is committed and in no run
(`NewIsOwn`); that is what the unique key's lock gives, and makes the commit's
union disjoint, so the counter adds up. A poll that carries a failure marker to
clear either has the metadata as they are or holds the row, unless a PATCH came
between (`MarkerInHand`).

**`AdminProofs`**, for any number of requests and editors, any rows and rules:

- `SourcesInvariant`, and from it `SourcesTyped` (`SourcesTypeOK`), `JobsFollowRows` (`JobFollowsRow`), `PairsAgree`
  (`PairBreaksOnlyByOverlap`) and `OnlySentColumnsAreWritten`
  (`OnlySentColumnsChange`: no column but those sent, and nothing that is gone comes back);
- `RulesInvariant`, and from it `RulesTyped` (`RulesTypeOK`), with the
  former `AdminTyped` (`TypeOK`), and `AuditIsComplete` (`AuditTellsStory`);
- `OneTableRoutes`: `RulesSpec => OneTableDecides`.

The argument for a source: the job may differ from the row only while somebody
has yet to refresh it (`JobInStep`), and a refresh writes from the copy its session
loaded; it is the row as it is if the request has been alone since it began
(`AloneHoldsRow`). A PATCH has checked the pair it leaves, the columns it does not
write included; without an overlap only one request has a part of the pair in hand
(`OneHandOnPair`), so what it checked is what it commits (`PairKept`), and a
request that touches no part of it cannot disturb it. For a rule: what an editor has
loaded is what is in the table unless another has the rule in hand too
(`HeldAsLoaded`, `SharedIsContended`), so an update quotes the right "before"; a
removal records itself in the transaction that removes. For a decision: the places
of the rows of a type are 1 to their number, each taken once, since a map that
parts all rows into as many places leaves none free (`PlacesTaken`); so the first
match of the ordered read is the rule that precedes all other matches
(`FirstMatchWins`), and `resolve_routing_decision` given both reads of one table is
explained by that table (`ResolveExplains`). A commit changes one rule and not its type
(`CommitIsOneApart`), hence one of the two reads at most (`OneReadOrTheOther`): the
other table has seen both.

**Only model-checked.** The four liveness properties `InAppDrains`,
`AuditedLeavesQueue`, `IngestedIsRouted` and `EveryPollEnds`: the prover does not
reason about fairness and `ENABLED`. And the three counterexamples of section 6.

## 6. Where the code disagrees with what it says

Each is a run whose counterexample TLC finds; `PROJECT.json` quotes the lines.

1. `ledger_slack`: external sends are said to be at most once; the Slack
   adapter repeats a post after a time-out, whether or not it was accepted.
2. `digest_duplicate`: the digest id is said to rest on the *oldest* row of the
   batch; it rests on the least uuid. A retry to which a row with a smaller
   uuid has been added has another id and notifies everybody again.
3. `digest_unshown`: the same anchor keeps the id when the batch grows by a
   larger uuid; the in-app insert then conflicts, is skipped, and the new row is
   deleted unseen in-app.

Seen while modelling and not checked by a run of its own, because nothing the
modules keep depends on it or no document promises otherwise:

*Delivery.* "Deferring row deletion" (`services/notifications/digest_flush.py`)
is for ever: a claim is never released, and rows whose claim did not end in a
success block the head of the queue. No property speaks of it: nobody promises
otherwise. The rows that a full body leaves out are deleted with it. After a flush an update that is in no
briefing loses the severity the explorer derives for it, since that is read off
its queue row or its own notification.

*Ingestion.* `clear_poll_failure` writes back the dictionary it has read; a PATCH
in between is lost, though its docstring says other keys are preserved
(`db/repositories/sources.py:197`). A hand-off that fails leaves stored rows
without a run for ever. `rss_fetch.py`'s docstring says that 4xx raise at once,
but 429 is retried; `http_fetch.py` takes the body of a 429 or of any other 4xx
for an item. `rss_fetch.py:44-45` says entries without a link still
collide when reordered; their place is in the URL the fingerprint hashes. No
`source_type` lacks a connector today, so the branch `supported = FALSE` takes
is for a type yet to come, as the `default` entry is for tests.

*The run.* A resume request that comes second is not refused if it has seen the interrupt
before the first one's decision was saved: it runs the tail of the graph with that
decision, and is answered and audited as if its own had been taken. `node_brief` keeps the last classification of a URL and `node_route`
the first. The tables that rank severities for sorting do not know `critical`.
A stored row without a date is grouped by its `created_at`, where a replay, and
`services/briefing/settings.py:17`, say `unknown`. An override of one item clears the
run's flag though others still need review. A replay of a finished run finds
every URL routed and routes none. `BRIEFING_GENERATED` is lost if its write
fails, for no later execution repeats it. A replay needs the Postgres
checkpointer and answers 409 without.

*Admin.* The resume handler's delete of the queue row always reports success
(`session.get` answers from the session's identity map), so its warning for a
row already deleted cannot occur. A classification draft takes the fields a
request omits from the *active* policy and so drops an earlier draft's change to
them, where the golden-set policy merges. Applying a draft does not say which
draft the admin reviewed. The PUT of a draft re-reads the state after its commit through
the same session, so that its assertion that there is a draft cannot fail. Two
PATCHes of one half each of the fallback pair may leave a pair that neither
would have been allowed to write, and of two that overlap the last to refresh
decides the job: `PairBreaksOnlyByOverlap` and `JobFollowsRow` mark these off.

*Console.* The explorer's count and page are two statements, so the total may
disagree with the page and "Next" be offered beyond the end. The lists of the
review queue, of a run's briefings and of the golden set's history order by a
time without a tie-breaker. `Updates.tsx` leaves its feedback form disabled when
the selection moves during a submit;
`_bmad-output/implementation-artifacts/7-1-user-feedback-capture-on-updates.md:49`
calls it fixed, and it is in `components/UpdateExplorer.tsx:214`, which no page
imports.

## 7. What is not modelled

- *Data.* What a message says, beyond which rows a digest lists and counts; parsing;
  scoring by an LLM: any valid answer,
  or an exception, is taken. How long a digest's lines are is left open (`Lines`). The string and date functions of normalisation work
  on one item and are left out. Which rule matches an item is a nondeterministic
  choice in `RouteNotify`, and the decision itself is `RoutingResolve`.
- *Several teams in one run's routing*: `RouteNotify` has one; teams do not
  share rows or keys except the cap, which counts items.
- *Configuration errors* (SMTP without a host, Slack without a URL) and members
  without an address: reported, nothing sent.
- *A digest batch smaller than the queue*: rows beyond `digest_flush_batch_max`
  wait for the next flush; the safety properties hold with `BatchMax` 1 as well.
- *A second API process's scheduler*: `Sources` has one table of jobs. Each process loads
  its own and only the one that serves a request refreshes it, so that the others' jobs are
  stale until their next start; polls that overlap for that reason are in `Ingest`.
- *What fills the cache of searches*: another run, or this one, may have any entry
  evicted at any time (`Evict`); the LRU order and the other runs are left out.
- *Asynchronous durability* of LangGraph checkpoints: a checkpoint is put when
  its superstep ends.
- *In a run*: the error entries of a web search, the audit rows of scout and
  normalize, section texts, two of the four grouping dimensions. A replay that is
  lost half-way (it writes nothing).
- *Deleting a source during a poll*, and the columns of a source nothing else
  reads (name, labels, latency and timestamps).
- *Reads* that are one statement over tables others write: dashboard, metrics,
  audit search, the attempt list, review-queue and briefing lists, the detail of
  a run.
- *Start-up, shutdown, migrations*: wiring and schema. Restarts are the crash
  actions of the modules; the unique keys the migrations create are what the
  models rest on.
- *Tooling*: the skills and planning documents under `.cursor/`, `_bmad/` and
  `_bmad-output/` are a third-party method kit and no part of the program.
- `register_new_items` inserts all fingerprints in one statement; the rows are
  taken one by one here, in the order of the statement, because that is how its
  locks are taken.

## 8. Plan

Done, in this order: `DeliveryLedger` (what everything external rests on) and its
proofs, `DigestFlush`, `ReviewResume`, `RouteNotify`, `Ingest`, `PolicyDraft` and
its proofs; then `Fetch` and its proofs, `Pipeline` (scout, classify with its
retry, review decisions, briefing, replay), `Sources`, `RoutingResolve` and
`RoutingRules`, `Explorer`, `Accounts`, and the proofs of `ReviewResume`,
`Ingest`, `Sources` and `RoutingRules`; then the two refinements of
`DeliveryLedger` and the proofs of `RouteNotify`, `DigestFlush`, `Pipeline`,
`Explorer` with its paging, `Accounts`, of `OneReviewer` and of `OneTableDecides`.

Next, to prove: that the run of `ReviewResume` is one of an abstract review with one
decision, and that the counterexamples of section 6 are impossible where the
adapter posts once or a batch does not grow.

Next, to model: `RoutingResolve` as the choice of `matched` in `RouteNotify`,
several teams in one run, the deletion of a source while it is polled.

## 9. Running it

    tlc -config ledger.cfg MCDeliveryLedger.tla     # and so on, see PROJECT.json
    tlapm DeliveryLedgerProofs.tla
    tlapm DigestFlushProofs.tla
    tlapm RouteNotifyProofs.tla
    tlapm PipelineProofs.tla
    tlapm ConsoleProofs.tla
    tlapm ReviewResumeProofs.tla
    tlapm IngestProofs.tla
    tlapm AdminProofs.tla

The longest run, `console`, takes about two and a half minutes on two workers, each proof
module from a few seconds to about three minutes.
