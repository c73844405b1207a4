------------------------------- MODULE Pipeline -------------------------------
(***************************************************************************)
(* One run through the graph's nodes as they move its data (graph/graph.py, *)
(* graph/nodes/*.py): fetched items, classified updates, the reviewer's      *)
(* decision, the briefing and the routing decisions.  The thread has one     *)
(* checkpoint; the first invocation, the requests that resume it and the     *)
(* replay of a checkpoint (graph/replay.py) each carry a state of their own.  *)
(*                                                                         *)
(* The queue row and the requests' handling are in ReviewResume, the fan-out *)
(* of notifications in RouteNotify, the rules in RoutingResolve.            *)
(***************************************************************************)
EXTENDS Fetch, FiniteSets, SequencesExt

CONSTANTS
    Main,        \* the invocation that starts the run
    Resumers,    \* requests that resume it
    Replayer,    \* the replay of its checkpoint
    Feeds,       \* sequences of updates that a source may give
    Allowed,     \* JURISDICTION_ALLOWLIST
    Severities,  \* with "critical"
    Corrections, \* [url, severity] of the overrides' patches
    Dimensions,  \* BRIEFING_GROUPING_DIMENSIONS, of "date_bucket" and "severity"
    MaxTries,    \* max_attempts of classify's retry policy
    NoSeverity,
    AnyUrl,      \* a patch without item_url
    MaxRequests, \* bound: requests about the run, the replay included
    MaxFaults    \* bound: failed writes and lost executions in a behaviour

ASSUME PipelineAssumption ==
    /\ IsFiniteSet(Resumers)
    /\ Replayer \notin Resumers \cup {Main} /\ Main \notin Resumers
    /\ <<>> \in Feeds /\ \A feed \in Feeds : feed \in Seq(ToSet(feed))
    /\ \A c \in Corrections : c.severity \in Severities
    /\ MaxTries \in Nat \ {0} /\ MaxFaults \in Nat /\ MaxRequests \in Nat
    /\ Dimensions \subseteq {"date_bucket", "severity"}

VARIABLES
    entry,     \* ingestion_entry
    norms,     \* raw_items, then normalized_updates
    at,        \* [execution -> its place in the graph]
    state,     \* [execution -> the channels it carries]
    saved,     \* the thread's checkpoint: the channels, and the next node
    body,      \* [Resumers -> the decision in the request]
    tries,     \* attempts of classify
    cached,    \* URLs whose web context the run has in _web_search_cache
    paid,      \* URLs whose search was answered, the answer not evicted since
    repaid,    \* ... and those for which it was answered again
    audits,    \* [action -> audit rows of the run]
    briefing,  \* the run's row in briefings
    sent,      \* executions that handed decisions to the notifications
    faults

web == <<cached, paid, repaid>>
trace == <<norms, saved, tries, web, audits, briefing, sent>>
pipelineVars == <<entry, at, state, body, faults, trace>>

Writers == Resumers \cup {Main}
Executions == Writers \cup {Replayer}
Updates == UNION {ToSet(feed) : feed \in Feeds}
Urls == {u.url : u \in Updates}
Steps == {"scout", "normalize", "classify", "human_review_gate", "brief", "route",
          "audit_write"}
Actions == {"classify", "briefing"}
Nodes == {"start", "scout", "normalize", "classify", "gate", "paused", "brief", "announce",
            "route", "end", "failed", "idle", "invoke", "dead"}

Rows == [url : Urls, in_scope : BOOLEAN, severity : Severities \cup {NoSeverity}, needs : BOOLEAN]
(* `by` is not in the code: who has decided on the rows, Main if nobody has.  *)
Empty == [cls |-> <<>>, flag |-> FALSE, errors |-> {}, decisions |-> {}, groups |-> {},
          by |-> Main]
NoBody == [decision |-> "none"]
Bodies ==
    {[decision |-> "approve"], [decision |-> "reject"]}
      \cup {[decision |-> "override", url |-> c.url, severity |-> c.severity] : c \in Corrections}

(* What a briefing says of an update, by its place in norms.                *)
Briefed == [update : Nat \ {0}, severity : Severities \cup {NoSeverity},
            date : {"published", "created", "unknown"}]
Briefings == SUBSET ((SUBSET Briefed) \ {{}})
(* No row: one is written with at least one group.                          *)
NoBriefing == {}

Decisions == [url : Urls, in_scope : BOOLEAN, severity : Severities \cup {NoSeverity}]
Channels == [cls : Seq(Rows), flag : BOOLEAN, errors : SUBSET Steps,
             decisions : SUBSET Decisions, groups : Briefings, by : Writers]

PipelineTypeOK ==
    /\ entry \in {"default", "post_poll"}
    /\ norms \in Feeds
    /\ at \in [Executions -> Nodes]
    /\ state \in [Executions -> Channels]
    /\ saved \in [next : Nodes, state : Channels]
    /\ body \in [Resumers -> Bodies \cup {NoBody}]
    /\ tries \in 0..MaxTries /\ faults \in 0..MaxFaults
    /\ cached \subseteq Urls /\ paid \subseteq Urls /\ repaid \subseteq Urls
    /\ audits \in [Actions -> Nat]
    /\ briefing \in Briefings
    /\ sent \subseteq Writers

TypeOK == PipelineTypeOK /\ FetchTypeOK

(* run_regulatory_pipeline_after_ingest seeds the stored rows; the graph's   *)
(* other entry fetches by itself.                                          *)
PipelineInit ==
    /\ \/ entry = "post_poll" /\ norms \in Feeds \ {<<>>}
       \/ entry = "default" /\ norms = <<>>
    /\ at = [x \in Executions |-> IF x = Main THEN "start" ELSE "idle"]
    /\ state = [x \in Executions |-> Empty]
    /\ saved = [next |-> "start", state |-> Empty]
    /\ body = [r \in Resumers |-> NoBody]
    /\ tries = 0 /\ cached = {} /\ paid = {} /\ repaid = {}
    /\ audits = [a \in Actions |-> 0]
    /\ briefing = NoBriefing /\ sent = {} /\ faults = 0
-----------------------------------------------------------------------------
(* in_replay_mode *)
InReplay(x) == x = Replayer

Goto(x, node) == at' = [at EXCEPT ![x] = node]
Become(x, s) == state' = [state EXCEPT ![x] = s]
Adding(s, steps) == [s EXCEPT !.errors = @ \cup steps]
Cost(n) == faults + n <= MaxFaults /\ faults' = faults + n

(* A superstep ends: x goes on, and unless it is the replay its channels     *)
(* become the thread's checkpoint.                                         *)
Advance(x, node, s) ==
    /\ Goto(x, node) /\ Become(x, s)
    /\ saved' = IF InReplay(x) THEN saved ELSE [next |-> node, state |-> s]

(* record_pipeline_audit_event: a failed write is an entry of errors.  The   *)
(* rows of scout and normalize are left out.                               *)
Written(action, errors) ==
    \/ audits' = [audits EXCEPT ![action] = @ + 1] /\ errors = {} /\ UNCHANGED faults
    \/ UNCHANGED audits /\ errors = {"audit_write"} /\ Cost(1)

(* _route_regulatory_start *)
Start ==
    /\ at[Main] = "start"
    /\ Advance(Main, IF entry = "post_poll" THEN "classify" ELSE "scout", state[Main])
    /\ UNCHANGED <<entry, norms, body, tries, web, audits, briefing, sent,
                   faults, fetchVars>>

(* node_scout, the source not found, disabled or not to be read.            *)
ScoutSkips ==
    /\ at[Main] = "scout" /\ place = "idle"
    /\ Advance(Main, "normalize", Adding(state[Main], {"scout"}))
    /\ UNCHANGED <<entry, norms, body, tries, web, audits, briefing, sent,
                   faults, fetchVars>>

ScoutAsks ==
    /\ at[Main] = "scout"
    /\ StartFetch \/ Attempt
    /\ UNCHANGED pipelineVars

(* The fetch has ended: with items, that the next node normalises one by one, *)
(* or with an entry of errors.                                             *)
Scout ==
    /\ at[Main] = "scout" /\ place = "done"
    /\ IF outcome \in Places
         THEN norms' \in Feeds /\ Advance(Main, "normalize", state[Main])
         ELSE UNCHANGED norms /\ Advance(Main, "normalize", Adding(state[Main], {"scout"}))
    /\ Forget
    /\ UNCHANGED <<entry, body, tries, web, audits, briefing, sent, faults>>

(* node_normalize: if there is anything to normalise and the source cannot   *)
(* be read or is gone, an error and no updates.                            *)
Normalize ==
    /\ at[Main] = "normalize"
    /\ \/ UNCHANGED <<norms, faults>> /\ Advance(Main, "classify", state[Main])
       \/ /\ norms # <<>> /\ norms' = <<>> /\ Cost(1)
          /\ Advance(Main, "classify", Adding(state[Main], {"normalize"}))
    /\ UNCHANGED <<entry, body, tries, web, audits, briefing, sent, fetchVars>>
-----------------------------------------------------------------------------
(* evaluate_classification_rules *)
InScope(u) == u.jurisdiction \in Allowed /\ u.text

(* What the LLM may give for an update: a severity, sure of it or not.       *)
Verdicts == [severity : Severities, sure : BOOLEAN]
(* classification_dict_for_llm_error: an error that is not worth a retry.     *)
Failed == [severity |-> NoSeverity, sure |-> FALSE]

(* What sends an update to a reviewer.                                       *)
ForReview(verdict) == ~ verdict.sure \/ verdict.severity = "critical"

(* classification_dict_for_state, for an update that the rules leave out and  *)
(* for one that was scored.                                                *)
RowOf(u, verdict) ==
    [url |-> u.url, in_scope |-> InScope(u),
     severity |-> IF InScope(u) THEN verdict.severity ELSE NoSeverity,
     needs |-> InScope(u) /\ ForReview(verdict)]

Asked == {k \in DOMAIN norms : InScope(norms[k])}
(* The loop over the updates: a row for each, in their order.               *)
Classified ==
    {rows \in [DOMAIN norms -> Rows] :
        \A k \in DOMAIN norms : \E v \in Verdicts \cup {Failed} : rows[k] = RowOf(norms[k], v)}

Searched(n) == {norms[k].url : k \in Asked \cap (1..n)} \ cached
Pay(found) ==
    /\ paid' = paid \cup found
    /\ repaid' = repaid \cup (found \cap paid)

(* MUTANT of Search: what was found is not put in the cache.                *)
SearchUncached(n) ==
    \E found \in SUBSET Searched(n) : UNCHANGED cached /\ Pay(found)

(* The web searches for the first n updates: those that succeed are cached   *)
(* for the run, so that the next attempt does not search again.  The        *)
(* entries of errors of the others are left out.  Every update has a source  *)
(* and a URL to be cached by: no connector leaves them out.                *)
Search(n) ==
    \E found \in SUBSET Searched(n) : cached' = cached \cup found /\ Pay(found)

(* _web_search_cache_put: the cache is the process's, not the run's, and at   *)
(* its limit every entry put by this run or by another drops the oldest.   *)
Evict ==
    /\ at[Main] = "classify"
    /\ \E url \in cached : cached' = cached \ {url} /\ paid' = paid \ {url}
    /\ UNCHANGED <<entry, at, state, body, faults, norms, saved, tries, repaid, audits,
                   briefing, sent, fetchVars>>

(* No later attempt: the cache and what was paid are of no use any more.    *)
LastSearch ==
    \E found \in SUBSET Searched(Len(norms)) :
        cached' = {} /\ paid' = {} /\ repaid' = repaid \cup (found \cap paid)

(* MUTANT of ClassifyRaises: the last attempt is not counted.               *)
ClassifyRaisesOnceMore ==
    /\ at[Main] = "classify"
    /\ \E n \in Asked : Search(n)
    /\ tries' = tries + 1
    /\ Goto(Main, IF tries = MaxTries THEN "failed" ELSE "classify")
    /\ UNCHANGED <<entry, norms, state, saved, body, audits, briefing, sent, faults,
                   fetchVars>>

(* node_classify raises: LangGraph merges nothing and, up to max_attempts,   *)
(* executes the whole node again; the last time it fails the run.           *)
ClassifyRaises ==
    /\ at[Main] = "classify"
    /\ \E n \in Asked : Search(n)
    /\ tries' = tries + 1
    /\ Goto(Main, IF tries' = MaxTries THEN "failed" ELSE "classify")
    /\ UNCHANGED <<entry, norms, state, saved, body, audits, briefing, sent, faults,
                   fetchVars>>

(* MUTANT of Aggregate: each row's answer replaces the flag.                *)
AggregateLast(flag, rows) == IF rows = <<>> THEN flag ELSE rows[Len(rows)].needs

(* any_review starts from the run's flag and takes in every row.            *)
Aggregate(flag, rows) == flag \/ \E row \in ToSet(rows) : row.needs

(* node_classify returns; classifications is a channel that appends.        *)
(* route_after_classify reads the flag alone.                              *)
Classify ==
    /\ at[Main] = "classify"
    /\ \E rows \in Classified, errors \in {{}, {"audit_write"}} :
          LET s == state[Main]
              flag == Aggregate(s.flag, rows)
              failed == \E k \in Asked : rows[k].severity = NoSeverity
          IN  /\ Written("classify", errors)
              /\ Advance(Main, IF flag THEN "gate" ELSE "brief",
                         [Adding(s, errors \cup IF failed THEN {"classify"} ELSE {})
                            EXCEPT !.cls = @ \o rows, !.flag = flag])
    /\ LastSearch
    /\ UNCHANGED <<entry, norms, body, tries, briefing, sent, fetchVars>>
-----------------------------------------------------------------------------
(* node_human_review_gate: interrupt().                                     *)
Interrupt ==
    /\ at[Main] = "gate"
    /\ Goto(Main, "paused")
    /\ UNCHANGED <<entry, state, body, faults, trace, fetchVars>>

Admitted == Cardinality({x \in Executions \ {Main} : at[x] # "idle"}) < MaxRequests

(* resume_run_after_review, up to its check of the pending interrupt.       *)
FindInterrupt(r) ==
    /\ at[r] = "idle" /\ at[Main] = "paused" /\ saved.next = "gate" /\ Admitted
    /\ \E b \in Bodies : body' = [body EXCEPT ![r] = b]
    /\ Goto(r, "invoke")
    /\ UNCHANGED <<entry, state, faults, trace, fetchVars>>

(* ainvoke(Command(resume)) takes up the thread's latest checkpoint: the      *)
(* interrupted gate, or whatever another request, which was faster, has      *)
(* left to do with its own decision.                                       *)
Invoke(r) ==
    /\ at[r] = "invoke"
    /\ Goto(r, saved.next) /\ Become(r, saved.state)
    /\ UNCHANGED <<entry, body, faults, trace, fetchVars>>

Matches(b, row) == IF b.url = AnyUrl THEN row.in_scope ELSE row.url = b.url

(* _rejected_row *)
Rejected(row) ==
    IF row.in_scope
      THEN [row EXCEPT !.in_scope = FALSE, !.severity = NoSeverity, !.needs = FALSE] ELSE row

(* _apply_override_patches; one patch stands for a list of them.            *)
Overridden(b, row) ==
    IF Matches(b, row) THEN [row EXCEPT !.severity = b.severity, !.needs = FALSE] ELSE row

(* apply_human_review_resume *)
Decided(b, rows) ==
    [k \in DOMAIN rows |->
        CASE b.decision = "approve" -> [rows[k] EXCEPT !.needs = FALSE]
          [] b.decision = "reject" -> Rejected(rows[k])
          [] OTHER -> Overridden(b, rows[k]) ]

Unmatched(b, rows) ==
    b.decision = "override" /\ \A row \in ToSet(rows) : ~ Matches(b, row)

(* MUTANT of Gate: without Overwrite the channel appends the decided rows.  *)
GateAppends(r) ==
    /\ at[r] = "gate"
    /\ LET s == state[r]
           wrong == IF Unmatched(body[r], s.cls) THEN {"human_review_gate"} ELSE {}
       IN  Advance(r, "brief", [Adding(s, wrong) EXCEPT !.cls = @ \o Decided(body[r], s.cls),
                                                        !.flag = FALSE, !.by = r])
    /\ UNCHANGED <<entry, norms, body, tries, web, audits, briefing, sent,
                   faults, fetchVars>>

(* interrupt() returns the decision.  The rows replace the channel's, and    *)
(* the flag is cleared whatever the decision left to review.               *)
Gate(r) ==
    /\ at[r] = "gate"
    /\ LET s == state[r]
           wrong == IF Unmatched(body[r], s.cls) THEN {"human_review_gate"} ELSE {}
       IN  Advance(r, "brief", [Adding(s, wrong) EXCEPT !.cls = Decided(body[r], s.cls),
                                                        !.flag = FALSE, !.by = r])
    /\ UNCHANGED <<entry, norms, body, tries, web, audits, briefing, sent,
                   faults, fetchVars>>

(* In a replay the gate only clears the flag.                               *)
GatePassed ==
    /\ at[Replayer] = "gate"
    /\ Advance(Replayer, "brief", [state[Replayer] EXCEPT !.flag = FALSE])
    /\ UNCHANGED <<entry, body, faults, norms, tries, web, audits, briefing,
                   sent, fetchVars>>
-----------------------------------------------------------------------------
(* _classifications_by_url: the last row of a URL.                          *)
LastOf(rows, url) ==
    CHOOSE row \in ToSet(rows) :
        \E k \in DOMAIN rows : /\ rows[k] = row /\ row.url = url
                               /\ \A j \in DOMAIN rows : rows[j].url = url => j <= k

(* _bucket_dt, _date_bucket_from_norm_dict: a stored update without a date is  *)
(* dated by its creation.                                                  *)
DateOf(u, stored) ==
    IF u.dated THEN "published" ELSE IF stored THEN "created" ELSE "unknown"

(* _load_norm_cls_members: the run's stored updates, or else the state's.    *)
Members(rows, stored) ==
    {[update |-> k, severity |-> LastOf(rows, norms[k].url).severity,
      date |-> DateOf(norms[k], stored)] :
        k \in {j \in DOMAIN norms :
                  /\ \E row \in ToSet(rows) : row.url = norms[j].url
                  /\ LastOf(rows, norms[j].url).in_scope}}

(* _group_key *)
GroupKey(m) ==
    <<IF "date_bucket" \in Dimensions THEN m.date ELSE "any",
      IF "severity" \in Dimensions THEN m.severity ELSE "any">>

(* _build_groups_json *)
Groups(members) ==
    {{m \in members : GroupKey(m) = key} : key \in {GroupKey(m) : m \in members}}

(* A replay has a run_id of its own, under which nothing is stored.          *)
Stored(x) == entry = "post_poll" /\ ~ InReplay(x)
GroupsOf(x) == Groups(Members(state[x].cls, Stored(x)))

(* node_brief with nothing in scope.                                        *)
BriefNothing(x) ==
    /\ at[x] = "brief" /\ GroupsOf(x) = {}
    /\ Advance(x, "route", state[x])
    /\ UNCHANGED <<entry, norms, body, tries, web, audits, briefing, sent,
                   faults, fetchVars>>

(* The configuration, the run's rows or the upsert fail: an entry of errors,   *)
(* no briefing, and the graph goes on to route.                             *)
BriefFails(x) ==
    /\ at[x] = "brief" /\ Cost(1)
    /\ Advance(x, "route", Adding(state[x], {"brief"}))
    /\ UNCHANGED <<entry, norms, body, tries, web, audits, briefing, sent,
                   fetchVars>>

(* upsert_briefing_for_run: the run's row, created or replaced.             *)
Brief(x) ==
    /\ at[x] = "brief" /\ x # Replayer /\ GroupsOf(x) # {}
    /\ briefing' = GroupsOf(x)
    /\ IF briefing = NoBriefing
         THEN Goto(x, "announce") /\ UNCHANGED <<state, saved>>
         ELSE Advance(x, "route", state[x])
    /\ UNCHANGED <<entry, norms, body, tries, web, audits, sent, faults,
                   fetchVars>>

(* BRIEFING_GENERATED, in a transaction of its own, by who created the row. *)
Announce(x) ==
    /\ at[x] = "announce"
    /\ \E errors \in {{}, {"audit_write"}} :
          Written("briefing", errors) /\ Advance(x, "route", Adding(state[x], errors))
    /\ UNCHANGED <<entry, norms, body, tries, web, briefing, sent, fetchVars>>

(* MUTANT of BriefReplayed: the row is written as in a run.                 *)
BriefReplayedInEarnest ==
    /\ at[Replayer] = "brief" /\ GroupsOf(Replayer) # {}
    /\ briefing' = GroupsOf(Replayer)
    /\ Advance(Replayer, "route", [state[Replayer] EXCEPT !.groups = GroupsOf(Replayer)])
    /\ UNCHANGED <<entry, norms, body, tries, web, audits, sent, faults,
                   fetchVars>>

(* In a replay the groups stay in the graph's channel, which ReplayRunOut     *)
(* leaves out of the answer, and nothing is stored.                        *)
BriefReplayed ==
    /\ at[Replayer] = "brief" /\ GroupsOf(Replayer) # {}
    /\ Advance(Replayer, "route", [state[Replayer] EXCEPT !.groups = GroupsOf(Replayer)])
    /\ UNCHANGED <<entry, norms, body, tries, web, audits, briefing, sent,
                   faults, fetchVars>>
-----------------------------------------------------------------------------
(* The loop of node_route: a decision for each URL that has none, made from   *)
(* its first row.  (Their order is left out.)                              *)
Decide(decisions, rows) ==
    decisions \cup
      {[url |-> rows[k].url, in_scope |-> rows[k].in_scope, severity |-> rows[k].severity] :
         k \in {j \in DOMAIN rows : /\ \A d \in decisions : d.url # rows[j].url
                                    /\ \A i \in 1..(j - 1) : rows[i].url # rows[j].url}}

(* node_route: the decisions go to the notifications, but not in a replay.  *)
Route(x) ==
    /\ at[x] = "route"
    /\ LET s == state[x]
           decisions == Decide(s.decisions, s.cls)
       IN  \/ /\ Advance(x, "end", [s EXCEPT !.decisions = decisions])
              /\ sent' = IF InReplay(x) \/ decisions = s.decisions THEN sent ELSE sent \cup {x}
              /\ UNCHANGED faults
           \/ /\ s.cls # <<>> /\ Cost(1)   \* routing_rules_load_failed
              /\ Advance(x, "end", Adding(s, {"route"}))
              /\ UNCHANGED sent
    /\ UNCHANGED <<entry, norms, body, tries, web, audits, briefing, fetchVars>>

(* compile_replay_tail_graph: where a replay may begin; one from classify     *)
(* begins at the gate.                                                     *)
Tails == {"gate", "brief"}

(* replay_run_from_checkpoint: the tail of the graph on the checkpoint's     *)
(* values, under replay_mode and without a checkpointer.                   *)
StartReplay ==
    /\ at[Replayer] = "idle" /\ saved.next # "start" /\ Admitted
    /\ \E from \in Tails : Goto(Replayer, from)
    /\ Become(Replayer, saved.state)
    /\ UNCHANGED <<entry, body, faults, trace, fetchVars>>

(* An execution is lost: its process stops, or its request times out.  A     *)
(* replay, or a request that has not invoked the graph, has nothing to lose. *)
Die(x) ==
    /\ at[x] \in Nodes \ {"idle", "invoke", "paused", "end", "failed", "dead"}
    /\ Goto(x, "dead") /\ Cost(1)
    /\ UNCHANGED <<entry, state, body, trace, fetchVars>>

PipelineNext ==
    \/ Start \/ ScoutSkips \/ ScoutAsks \/ Scout \/ Normalize
    \/ ClassifyRaises \/ Evict \/ Classify \/ Interrupt
    \/ \E r \in Resumers : FindInterrupt(r) \/ Invoke(r) \/ Gate(r)
    \/ \E x \in Executions : BriefNothing(x) \/ BriefFails(x) \/ Route(x)
    \/ \E x \in Writers : Brief(x) \/ Announce(x) \/ Die(x)
    \/ StartReplay \/ GatePassed \/ BriefReplayed

Init == FetchInit /\ PipelineInit

PipelineSpec == Init /\ [][PipelineNext]_<<pipelineVars, fetchVars>>
-----------------------------------------------------------------------------
(***************************************************************************)
(* An attempt of classify that raises leaves nothing behind: however often   *)
(* the node was executed again, an update has one row, at its place, in      *)
(* every state there is, the run has one audit row for it, and no URL's     *)
(* search was answered again unless the process had evicted the answer.     *)
(***************************************************************************)
RetryLeavesNothing ==
    /\ \A s \in {saved.state} \cup {state[x] : x \in Executions} :
          s.cls # <<>> =>
             /\ Len(s.cls) = Len(norms)
             /\ \A k \in DOMAIN norms : s.cls[k].url = norms[k].url
    /\ audits["classify"] <= 1
    /\ repaid = {}

judged == state[Main].cls   \* what classify returned
Past(x) == at[x] \in {"announce", "route", "end"}
OpenTo(b, k) ==
    /\ b.decision = "override"
    /\ b.url # judged[k].url /\ ~ (b.url = AnyUrl /\ judged[k].in_scope)

Invoked(r) == at[r] \notin {"idle", "invoke"}
(* Two requests have invoked the graph.                                     *)
Overlapped == Cardinality({r \in Resumers : Invoked(r)}) > 1

(***************************************************************************)
(* What classify wanted reviewed is briefed and routed only with a request's *)
(* decision on it: the first invocation gets past the gate only if no row    *)
(* wanted a review, and a request only with rows that one of them, itself    *)
(* unless two had invoked the graph, decided on: a row still wants a review  *)
(* only if that decision was an override without a patch for it, and after a *)
(* reject nothing is in scope.  (The others' decisions are applied nowhere.)  *)
(***************************************************************************)
ReviewedBeforeBriefed ==
    /\ Past(Main) => \A row \in ToSet(judged) : ~ row.needs
    /\ \A r \in Resumers : Past(r) =>
          LET q == state[r].by
          IN  /\ q \in Resumers /\ (q # r => Overlapped)
              /\ \A k \in DOMAIN judged :
                    /\ state[r].cls[k].needs => judged[k].needs /\ OpenTo(body[q], k)
                    /\ body[q].decision = "reject" => ~ state[r].cls[k].in_scope
                    /\ ~ judged[k].in_scope => ~ state[r].cls[k].in_scope

(* Two updates of a run with one URL share a row in brief, and in route.    *)
Alone(k) == \A j \in DOMAIN norms : norms[j].url = norms[k].url => j = k

(***************************************************************************)
(* The briefing is that of one execution, never a mixture, in groups that    *)
(* part its updates by their key.  Of a run that has ended without an error  *)
(* of brief or route, and that no two requests invoked, it holds            *)
(* exactly the updates the checkpoint has in scope, with the severity they   *)
(* were routed by, and BRIEFING_GENERATED was recorded once if it was        *)
(* recorded at all; this as far as updates do not share a URL.              *)
(***************************************************************************)
BriefingMatchesRun ==
    LET told == UNION briefing
    IN  /\ briefing # NoBriefing =>
              /\ \E x \in Writers : briefing = GroupsOf(x)
              /\ \A g, h \in briefing : \A m \in g, n \in h :
                    GroupKey(m) = GroupKey(n) <=> g = h
        /\ audits["briefing"] <= 1
        /\ saved.next = "end" /\ ~ Overlapped /\ saved.state.errors \cap {"brief", "route"} = {} =>
              /\ briefing = NoBriefing => audits["briefing"] = 0
              /\ briefing # NoBriefing /\ "audit_write" \notin saved.state.errors =>
                    audits["briefing"] = 1
              /\ \A row \in ToSet(saved.state.cls), k \in DOMAIN norms :
                    Alone(k) /\ row.url = norms[k].url =>
                        /\ row.in_scope <=> \E m \in told : m.update = k
                        /\ \A m \in told : m.update = k => m.severity = row.severity
                        /\ \E d \in saved.state.decisions :
                              /\ d.url = row.url /\ d.in_scope = row.in_scope
                              /\ d.severity = row.severity

OfItsRun ==
    /\ saved.next = "end" /\ state[Replayer].cls = saved.state.cls /\ ~ Overlapped
    /\ "brief" \notin state'[Replayer].errors \cup saved.state.errors
    /\ entry = "default" \/ \A u \in ToSet(norms) : u.dated
LeavesNoTrace ==
    at'[Replayer] # at[Replayer] =>
       /\ UNCHANGED trace
       /\ at'[Replayer] = "end" /\ OfItsRun => state'[Replayer].groups = briefing

(***************************************************************************)
(* A replay leaves no trace in what the run has stored, and the groups that  *)
(* the graph computes in the replay of a run that has ended well are the     *)
(* briefing that was stored, unless an update without a date makes the       *)
(* stored rows' date differ.                                               *)
(***************************************************************************)
ReplayLeavesNoTrace == [][LeavesNoTrace]_pipelineVars
=============================================================================
