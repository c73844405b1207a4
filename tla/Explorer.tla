------------------------------- MODULE Explorer -------------------------------
(***************************************************************************)
(* What the console shows while the pipeline goes on writing: the update    *)
(* explorer (db/repositories/updates.py, api/routes/updates.py and its page *)
(* web/src/pages/Updates.tsx), a user's notifications (api/routes/          *)
(* notifications.py), and the feedback an analyst leaves on an update       *)
(* (db/repositories/feedback.py).                                          *)
(*                                                                         *)
(* Every SELECT sees what is committed when it runs (READ COMMITTED), so    *)
(* the two statements of one request may see different tables.  The writers *)
(* are modelled by what they commit; their own steps are in Ingest,         *)
(* ReviewResume, Pipeline, RouteNotify and DigestFlush.                    *)
(***************************************************************************)
EXTENDS Integers, Sequences, FiniteSets, SequencesExt

CONSTANTS
    Updates,    \* rows of normalized_updates
    Runs, NoRun,
    Levels, NoLevel,   \* severities, and null
    Urgent,     \* the severities told at once; the others wait for a digest
    NoBriefing, AnyOne,
    PageSize,
    MaxWrites,  \* bound: commits of the pipeline and the user
    MaxFeedback \* bound: feedback rows

ASSUME ExplorerAssumption ==
    /\ Urgent \subseteq Levels /\ NoLevel \notin Levels /\ NoRun \notin Runs
    /\ IsFiniteSet(Updates)
    /\ PageSize \in Nat \ {0} /\ MaxWrites \in Nat /\ MaxFeedback \in Nat

VARIABLES
    shelf,      \* the updates, newest first
    batch,      \* [Runs -> the updates its poll stored]
    tagged,     \* runs whose updates carry their run_id
    waiting,    \* runs with a row in the review queue
    reviewed,   \* runs that have had one
    briefing,   \* [Runs -> the severity of each member, or no row]
    writes,     \* commits so far
    routed,     \* runs that have told the user
    digest,     \* [Updates -> severity of its digest row]
    inbox,      \* the user's notifications, newest first
    unread,
    asked,      \* the list somebody pages through, with its filter
    walk,       \* the paging
    pane,       \* the detail pane: what was asked for and what it shows
    busy,       \* feedbackSubmitting of the page
    post,       \* the POST in flight
    feedback    \* rows of update_feedback

tables == <<shelf, batch, tagged, waiting, reviewed, briefing, routed, digest, inbox, unread, writes>>
visitors == <<asked, walk, pane, busy, post, feedback>>
explorerVars == <<tables, visitors>>

Statuses == {"in_human_review", "briefed", "processed"}
Opinions(r) == [batch[r] -> Levels \cup {NoLevel}]
Messages == [about : SUBSET Updates, level : Levels, digest : BOOLEAN]

(* The filters of the list; `whole` is include_unknown_severity,            *)
(* and one of the two is left open.                                        *)
Filters ==
    {f \in [list : {"updates"}, status : Statuses \cup {AnyOne}, level : Levels \cup {AnyOne}, whole : BOOLEAN] :
        (f.level = AnyOne => ~f.whole) /\ AnyOne \in {f.status, f.level}}
InboxFilters == [list : {"inbox"}, unread : BOOLEAN]
Everything == [list |-> "updates", status |-> AnyOne, level |-> AnyOne, whole |-> FALSE]

------------------------------------------------------------------------------
(* run_id of an update: null until the task after its poll has set it.      *)
RunIdOf(u) ==
    IF \E r \in tagged : u \in batch[r] THEN CHOOSE r \in tagged : u \in batch[r] ELSE NoRun

(* What the run's briefing says of an update. *)
Overlay(r, u) == IF r = NoRun \/ briefing[r] = NoBriefing THEN NoLevel ELSE briefing[r][u]

Status(u) ==
    LET r == RunIdOf(u)
    IN  CASE r \in waiting -> "in_human_review"
          [] r \in tagged \ waiting /\ briefing[r] # NoBriefing -> "briefed"
          [] OTHER -> "processed"

(* The notification of the update itself: a digest's has a run_id and an    *)
(* address of its own.                                                     *)
ToldOf(u) == {m \in ToSet(inbox) : ~m.digest /\ m.about = {u}}

(* COALESCE(briefing, notification, digest row). *)
Derived(u) ==
    LET said == Overlay(RunIdOf(u), u)
    IN  CASE said # NoLevel -> said
          [] said = NoLevel /\ ToldOf(u) # {} -> (CHOOSE m \in ToldOf(u) : TRUE).level
          [] OTHER -> digest[u]

PassesSeverity(f, u) ==
    \/ f.level = AnyOne
    \/ Derived(u) = f.level
    \/ f.whole /\ Derived(u) = NoLevel

Passes(f, u) == f.status \in {AnyOne, Status(u)} /\ PassesSeverity(f, u)

UpdatesFor(f) == {u \in ToSet(shelf) : Passes(f, u)}
MessagesFor(f) == {m \in ToSet(inbox) : ~f.unread \/ m \in unread}
Listed == IF asked.list = "updates" THEN UpdatesFor(asked) ELSE MessagesFor(asked)

(* ORDER BY: where a row stands among those that are listed.                *)
Order == IF asked.list = "updates" THEN shelf ELSE inbox
Ahead(s, x, y) == \E i, j \in DOMAIN s : i < j /\ s[i] = x /\ s[j] = y
PlaceIn(s, rows, x) == 1 + Cardinality({y \in rows : Ahead(s, y, x)})

(* OFFSET offset LIMIT limit. *)
Cut(offset, limit) ==
    {x \in Listed : PlaceIn(Order, Listed, x) \in (offset + 1)..(offset + limit)}

------------------------------------------------------------------------------
(* Somebody pages through a list.  The rest of this record is about the     *)
(* entries: those shown, those listed all along, those that left from above *)
(* the place reached, and those that came after the last count.            *)
NotWalking == [stage |-> "none"]
Closed == [stage |-> "closed", offset |-> 0, total |-> 0, shown |-> {}, stay |-> {},
           slipped |-> 0, late |-> 0]

OpenList ==
    /\ walk.stage = "closed"
    /\ walk' = [walk EXCEPT !.stage = "ready", !.stay = Listed]
    /\ UNCHANGED <<tables, asked, pane, busy, post, feedback>>

(* The answer's first statement, the count. *)
CountUpdates ==
    /\ walk.stage = "ready" /\ asked.list = "updates"
    /\ walk' = [walk EXCEPT !.stage = "counted", !.total = Cardinality(Listed), !.late = 0]
    /\ UNCHANGED <<tables, asked, pane, busy, post, feedback>>

Turned(items, more) ==
    walk' = [walk EXCEPT !.shown = @ \cup items, !.offset = @ + PageSize,
                         !.stage = IF more THEN "ready" ELSE "done"]

(* Its second: LIMIT and OFFSET.  The page's button goes on while           *)
(* offset + items.length < total.                                          *)
PageUpdates ==
    /\ walk.stage = "counted"
    /\ LET items == Cut(walk.offset, PageSize)
       IN  Turned(items, walk.offset + Cardinality(items) < walk.total)
    /\ UNCHANGED <<tables, asked, pane, busy, post, feedback>>

(* MUTANT of Probed: LIMIT without the row that tells there are more.      *)
ProbedWithoutMore(offset) == Cut(offset, PageSize)

(* LIMIT limit + 1: one statement for the page and for has_more.            *)
Probed(offset) == Cut(offset, PageSize + 1)

PageInbox ==
    /\ walk.stage = "ready" /\ asked.list = "inbox"
    /\ LET rows == Probed(walk.offset)
       IN  Turned(rows \cap Cut(walk.offset, PageSize), Cardinality(rows) > PageSize)
    /\ UNCHANGED <<tables, asked, pane, busy, post, feedback>>

------------------------------------------------------------------------------
(* The detail pane and the feedback form of the page. *)
Blank == [stage |-> "blank"]
NoPost == [stage |-> "none"]

(* A click on another row: the request for the former detail is aborted.    *)
(* (The page does not reset feedbackSubmitting here.)                      *)
Select(u) ==
    /\ pane # Blank => pane.item # u
    /\ pane' = [stage |-> "asked", item |-> u]
    /\ UNCHANGED <<tables, asked, walk, busy, post, feedback>>

(* get_update_detail: the row first, the overlay after it.                  *)
DetailRow ==
    /\ pane.stage = "asked"
    /\ pane' = [stage |-> "row", item |-> pane.item, run |-> RunIdOf(pane.item),
                 since |-> {Overlay(RunIdOf(pane.item), pane.item)}]
    /\ UNCHANGED <<tables, asked, walk, busy, post, feedback>>

DetailShown ==
    /\ pane.stage = "row"
    /\ pane' = [stage |-> "shown", item |-> pane.item, since |-> pane.since,
                 seen |-> Overlay(pane.run, pane.item)]
    /\ UNCHANGED <<tables, asked, walk, busy, post, feedback>>

(* submitFeedback: the form is there with the detail, its button enabled    *)
(* unless busy.                                                            *)
Submit ==
    /\ pane.stage = "shown" /\ ~busy /\ post = NoPost /\ Len(feedback) < MaxFeedback
    /\ busy' = TRUE
    /\ post' = [stage |-> "sent", item |-> pane.item, seen |-> pane.seen, since |-> pane.since]
    /\ UNCHANGED <<tables, asked, walk, pane, feedback>>

(* post_update_feedback: the row, the overlay of the run it had then, the   *)
(* insert and its commit.  `during` is what the briefing has said since.   *)
PostRow ==
    /\ post.stage = "sent"
    /\ LET r == RunIdOf(post.item)
       IN  post' = [stage |-> "row", item |-> post.item, seen |-> post.seen, since |-> post.since,
                      run |-> r, during |-> {Overlay(r, post.item)}]
    /\ UNCHANGED <<tables, asked, walk, pane, busy, feedback>>

(* MUTANT of Snapshot: the severity the list shows.                        *)
SnapshotDerived(r, u) == Derived(u)

Snapshot(r, u) == Overlay(r, u)

PostOverlay ==
    /\ post.stage = "row"
    /\ post' = [stage |-> "read", item |-> post.item, seen |-> post.seen, since |-> post.since,
                 run |-> post.run, during |-> post.during,
                 snapshot |-> Snapshot(post.run, post.item)]
    /\ UNCHANGED <<tables, asked, walk, pane, busy, feedback>>

PostSaved ==
    /\ post.stage = "read"
    /\ feedback' = Append(feedback, [x \in {"item", "run", "snapshot", "seen", "since", "during"} |-> post[x]])
    /\ post' = [stage |-> "saved", item |-> post.item]
    /\ UNCHANGED <<tables, asked, walk, pane, busy>>

(* The request fails on its way, or its commit does. *)
PostFails ==
    /\ post.stage \in {"sent", "row", "read"}
    /\ post' = [stage |-> "saved", item |-> post.item]
    /\ UNCHANGED <<tables, asked, walk, pane, busy, feedback>>

(* The answer is for nobody when the selection has moved on: the form stays *)
(* busy then, for whichever update is selected.                            *)
PostAnswered ==
    /\ post.stage = "saved"
    /\ post' = NoPost
    /\ busy' = (busy /\ pane.item # post.item)
    /\ UNCHANGED <<tables, asked, walk, pane, feedback>>

------------------------------------------------------------------------------
(* What the writers commit.  A row stored later may be listed above or       *)
(* below: created_at is the start of its transaction.                      *)
Inserted(s, rows, place) == SubSeq(s, 1, place) \o rows \o SubSeq(s, place + 1, Len(s))

StorePoll(r, rows, place) ==
    /\ batch[r] = {} /\ rows # <<>> /\ ToSet(rows) \cap ToSet(shelf) = {}
    /\ batch' = [batch EXCEPT ![r] = ToSet(rows)]
    /\ shelf' = Inserted(shelf, rows, place)
    /\ UNCHANGED <<tagged, waiting, reviewed, briefing, routed, digest, inbox, unread>>

TagRows(r) ==
    /\ batch[r] # {} /\ r \notin tagged
    /\ tagged' = tagged \cup {r}
    /\ UNCHANGED <<shelf, batch, waiting, reviewed, briefing, routed, digest, inbox, unread>>

(* MUTANT of QueueReview: the run begins before its rows carry its id.      *)
QueueReviewUntagged(r) ==
    /\ r \notin reviewed /\ briefing[r] = NoBriefing
    /\ waiting' = waiting \cup {r} /\ reviewed' = reviewed \cup {r}
    /\ UNCHANGED <<shelf, batch, tagged, briefing, routed, digest, inbox, unread>>

QueueReview(r) ==
    /\ r \in tagged \ reviewed /\ briefing[r] = NoBriefing
    /\ waiting' = waiting \cup {r} /\ reviewed' = reviewed \cup {r}
    /\ UNCHANGED <<shelf, batch, tagged, briefing, routed, digest, inbox, unread>>

CloseReview(r) ==
    /\ r \in waiting
    /\ waiting' = waiting \ {r}
    /\ UNCHANGED <<shelf, batch, tagged, reviewed, briefing, routed, digest, inbox, unread>>

(* The upsert: the row of the run as its last writer has it.                *)
UpsertBriefing(r, said) ==
    /\ r \in tagged
    /\ briefing[r] # said
    /\ briefing' = [briefing EXCEPT ![r] = said]
    /\ UNCHANGED <<shelf, batch, tagged, waiting, reviewed, routed, digest, inbox, unread>>

(* node_route at its end: urgent updates are told, in one transaction (ids   *)
(* order its rows), the others queued.                                     *)
Route(r, said, place) ==
    /\ r \in tagged \ routed /\ briefing[r] \in {NoBriefing, said}
    /\ \E u \in batch[r] : said[u] # NoLevel
    /\ \E now \in SetToSeqs({[about |-> {u}, level |-> said[u], digest |-> FALSE]
                                : u \in {v \in batch[r] : said[v] \in Urgent}}) :
          /\ inbox' = Inserted(inbox, now, place)
          /\ unread' = unread \cup ToSet(now)
    /\ digest' = [u \in Updates |->
                    IF u \in batch[r] /\ said[u] \notin Urgent THEN said[u] ELSE digest[u]]
    /\ routed' = routed \cup {r}
    /\ UNCHANGED <<shelf, batch, tagged, waiting, reviewed, briefing>>

(* The digest's flush: one message about its rows, which it deletes.        *)
FlushDigest(place) ==
    LET rows == {u \in Updates : digest[u] # NoLevel}
        note == [about |-> rows, level |-> digest[CHOOSE u \in rows : TRUE], digest |-> TRUE]
    IN  /\ rows # {}
        /\ inbox' = Inserted(inbox, <<note>>, place)
        /\ unread' = unread \cup {note}
        /\ digest' = [u \in Updates |-> NoLevel]
        /\ UNCHANGED <<shelf, batch, tagged, waiting, reviewed, briefing, routed>>

(* UPDATE ... WHERE read_at IS NULL: one statement.                         *)
MarkRead(m) ==
    /\ m \in unread
    /\ unread' = unread \ {m}
    /\ UNCHANGED <<shelf, batch, tagged, waiting, reviewed, briefing, routed, digest, inbox>>

------------------------------------------------------------------------------
Write ==
    /\ writes < MaxWrites /\ writes' = writes + 1
    /\ \/ \E r \in Runs :
            \/ \E rows \in SetToAllKPermutations(Updates), place \in 0..Len(shelf) : StorePoll(r, rows, place)
            \/ TagRows(r) \/ QueueReview(r) \/ CloseReview(r)
            \/ \E said \in Opinions(r) : UpsertBriefing(r, said)
            \/ \E said \in Opinions(r), place \in 0..Len(inbox) : Route(r, said, place)
       \/ \E place \in 0..Len(inbox) : FlushDigest(place)
       \/ \E m \in unread : MarkRead(m)

(* A write under the eyes of a visitor: what it did to the list being paged, *)
(* and what the briefing now says of the update looked at.                 *)
WatchWalk ==
    IF walk.stage \notin {"ready", "counted"} THEN UNCHANGED walk
    ELSE walk' = [walk EXCEPT
            !.stay = @ \cap Listed',
            !.slipped = @ + Cardinality(Cut(0, walk.offset) \ Listed'),
            !.late = IF walk.stage = "counted" THEN @ + Cardinality(Listed' \ Listed) ELSE @]

Live == [u \in Updates |-> Overlay(RunIdOf(u), u)]

WatchBriefing ==
    /\ pane' = IF pane.stage \in {"row", "shown"}
                 THEN [pane EXCEPT !.since = @ \cup {Live'[pane.item]}] ELSE pane
    /\ post' = CASE post.stage = "sent" -> [post EXCEPT !.since = @ \cup {Live'[post.item]}]
                  [] post.stage \in {"row", "read"} ->
                        [post EXCEPT !.since = @ \cup {Live'[post.item]}, !.during = @ \cup {Live'[post.item]}]
                  [] OTHER -> post

Written == Write /\ UNCHANGED <<asked, busy, feedback>> /\ WatchWalk /\ WatchBriefing

------------------------------------------------------------------------------
ExplorerTypeOK ==
    /\ shelf \in Seq(Updates) /\ IsInjective(shelf)
    /\ batch \in [Runs -> SUBSET Updates] /\ UNION {batch[r] : r \in Runs} = ToSet(shelf)
    /\ tagged \subseteq Runs /\ waiting \subseteq reviewed /\ reviewed \cup routed \subseteq tagged
    /\ \A r \in Runs : briefing[r] = NoBriefing \/ briefing[r] \in Opinions(r)
    /\ writes \in 0..MaxWrites /\ digest \in [Updates -> Levels \cup {NoLevel}]
    /\ inbox \in Seq(Messages) /\ IsInjective(inbox) /\ unread \subseteq ToSet(inbox)
    /\ asked \in Filters \cup InboxFilters
    /\ walk # NotWalking =>
         /\ walk.stage \in {"closed", "ready", "counted", "done"}
         /\ {walk.offset, walk.total, walk.slipped, walk.late} \subseteq Nat
    /\ pane.stage \in {"blank", "asked", "row", "shown"} /\ busy \in BOOLEAN
    /\ post.stage \in {"none", "sent", "row", "read", "saved"} /\ Len(feedback) <= MaxFeedback

ExplorerInit ==
    /\ shelf = <<>> /\ batch = [r \in Runs |-> {}] /\ tagged = {} /\ waiting = {} /\ reviewed = {}
    /\ briefing = [r \in Runs |-> NoBriefing] /\ writes = 0 /\ routed = {}
    /\ digest = [u \in Updates |-> NoLevel] /\ inbox = <<>> /\ unread = {}
    /\ asked \in Filters \cup InboxFilters
    /\ walk \in {Closed, NotWalking} /\ (walk = NotWalking => asked = Everything)
    /\ pane = Blank /\ busy = FALSE /\ post = NoPost /\ feedback = <<>>

Walk == OpenList \/ CountUpdates \/ PageUpdates \/ PageInbox

Analyse ==
    /\ walk = NotWalking
    /\ \/ \E u \in ToSet(shelf) : Select(u)
       \/ DetailRow \/ DetailShown
       \/ Submit \/ PostRow \/ PostOverlay \/ PostSaved \/ PostFails \/ PostAnswered

ExplorerNext == Walk \/ Analyse \/ Written

ExplorerSpec == ExplorerInit /\ [][ExplorerNext]_explorerVars

(***************************************************************************)
(* Offset paging while the list changes: of the entries listed from the     *)
(* opening of the list to its last page, a walk passes over at most as many *)
(* as left from above the place it had reached, and, for the updates, as    *)
(* came between the last count and its page.  (Nothing is missed in a quiet *)
(* list, and nothing in the inbox unless something is read meanwhile.)      *)
(***************************************************************************)
WalkMissesLittle ==
    walk.stage = "done" => Cardinality(walk.stay \ walk.shown) <= walk.slipped + walk.late

(***************************************************************************)
(* A feedback row's classification_snapshot is what the briefing of the run  *)
(* it names said of the update at submit time, whatever is rebriefed or     *)
(* tagged meanwhile; it differs from what the analyst had on the page only   *)
(* if the briefing changed after the page asked for it.                    *)
(***************************************************************************)
FeedbackQuotesBriefing ==
    \A i \in DOMAIN feedback :
        LET f == feedback[i]
        IN  /\ f.snapshot \in f.during /\ f.seen \in f.since
            /\ f.snapshot # NoLevel => f.run # NoRun
=============================================================================
