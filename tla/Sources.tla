------------------------------- MODULE Sources -------------------------------
(***************************************************************************)
(* One row of the sources table under its admins (api/routes/sources.py,    *)
(* db/repositories/sources.py), and the job the poll scheduler keeps for it *)
(* (workers/poll_scheduler.py).                                            *)
(*                                                                         *)
(* A request loads the row, checks the body against what it loaded, and     *)
(* writes the columns it changes; the UPDATE, the refresh and the COMMIT    *)
(* are one step, for the row's lock is held between them.  Then it refreshes *)
(* the job, from the copy its own session still holds.                     *)
(***************************************************************************)
EXTENDS Naturals, FiniteSets

CONSTANTS
    Requests,   \* requests that may be in progress together
    Schedules,  \* cron expressions
    Urls, NoUrl,   \* fallback_url: an address, or null
    NoJob, Omitted,
    Unborn, Gone,  \* the row before its creation and after its deletion
    MaxFields,  \* bound: fields one PATCH sends
    MaxLost     \* bound: commits whose answer is lost

Modes == {"none", "html_page"}      \* same_as_primary is checked as html_page is
Rows == [mode : Modes, url : Urls \cup {NoUrl}, schedule : Schedules, enabled : BOOLEAN]

ASSUME SourcesAssumption ==
    /\ NoUrl \notin Urls /\ NoJob \notin Schedules
    /\ Omitted \notin Modes \cup Urls \cup Schedules \cup {NoUrl}
    /\ Unborn \notin Rows /\ Gone \notin Rows /\ Unborn # Gone /\ Requests # {}
    /\ MaxFields \in Nat /\ MaxLost \in Nat

VARIABLES
    row,        \* the committed row
    job,        \* the scheduler's job for it: its schedule
    reqPlace,   \* [Requests -> place in the handler]
    toWrite,    \* [Requests -> the columns a loaded request will change]
    copy,       \* [Requests -> the row as its session holds it]
    alone,      \* [Requests -> nothing else has been in progress since its load]
    drift,      \* what may have taken the job away from the row since they were in step
    pairRace,   \* two requests that touch the fallback pair have overlapped
    lostCommits

sourceVars == <<row, job, reqPlace, toWrite, copy, alone, drift, pairRace, lostCommits>>

(* What a PATCH sends, or what it will write: Omitted in the other columns.  *)
Sent(body) == {c \in DOMAIN body : body[c] # Omitted}
Partial == [mode : Modes \cup {Omitted}, url : Urls \cup {NoUrl, Omitted},
            schedule : Schedules \cup {Omitted}, enabled : BOOLEAN \cup {Omitted}]
Bodies == {b \in Partial : Cardinality(Sent(b)) \in 1..MaxFields}
Nothing == [c \in {"mode", "url", "schedule", "enabled"} |-> Omitted]

(* MUTANT of Apply: the columns a body leaves out are nulled.              *)
ApplyUnset(r, body) == body

Apply(r, body) == [c \in DOMAIN r |-> IF body[c] = Omitted THEN r[c] ELSE body[c]]

(* _validate_fallback_pair. *)
PairAgrees(r) == (r.mode = "none") <=> (r.url = NoUrl)

(* The job a row calls for. *)
JobOf(r) == IF r \in Rows /\ r.enabled THEN r.schedule ELSE NoJob

SourcesTypeOK ==
    /\ row \in Rows \cup {Unborn, Gone}
    /\ job \in Schedules \cup {NoJob}
    /\ reqPlace \in [Requests -> {"idle", "patch", "delete", "answered"}]
    /\ toWrite \in [Requests -> Partial]
    /\ copy \in [Requests -> Rows \cup {Unborn, Gone}]
    /\ alone \in [Requests -> BOOLEAN]
    /\ drift \in BOOLEAN /\ pairRace \in BOOLEAN
    /\ lostCommits \in 0..MaxLost

(* The scheduler has been started on the table as it is.                    *)
SourcesInit ==
    /\ row \in {r \in Rows : PairAgrees(r)} \cup {Unborn}
    /\ job = JobOf(row)
    /\ reqPlace = [q \in Requests |-> "idle"]
    /\ toWrite = [q \in Requests |-> Nothing]
    /\ copy = [q \in Requests |-> Unborn]
    /\ alone = [q \in Requests |-> TRUE]
    /\ drift = FALSE /\ pairRace = FALSE /\ lostCommits = 0
-----------------------------------------------------------------------------
InProgress(q) == reqPlace[q] # "idle"
Others(q) == {p \in Requests \ {q} : InProgress(p)}

(* q enters the handler at place: those in progress are no longer alone.    *)
Enter(q, place, body) ==
    /\ reqPlace' = [reqPlace EXCEPT ![q] = place]
    /\ toWrite' = [toWrite EXCEPT ![q] = body]
    /\ alone' = [p \in Requests |-> Others(q) = {} \/ ~ (p = q \/ InProgress(p))]

Leave(q) ==
    /\ reqPlace' = [reqPlace EXCEPT ![q] = "idle"]
    /\ toWrite' = [toWrite EXCEPT ![q] = Nothing]
    /\ copy' = [copy EXCEPT ![q] = Unborn]
    /\ alone' = [alone EXCEPT ![q] = TRUE]

TouchesPair(body) == Sent(body) \cap {"mode", "url"} # {}

Races(q, body) ==
    TouchesPair(body) /\ \E p \in Others(q) : reqPlace[p] = "patch" /\ TouchesPair(toWrite[p])

(* mode = none clears the url, unless the body sends one.                   *)
Completed(body) ==
    IF body.mode = "none" /\ body.url = Omitted THEN [body EXCEPT !.url = NoUrl] ELSE body

(* What the handler lets pass: the pair must agree once the loaded row is   *)
(* taken for what the body leaves out.  The rest is answered 422.          *)
Accepts(r, body) == TouchesPair(body) => PairAgrees(Apply(r, Completed(body)))

(* The session writes the attributes whose value differs from the loaded.   *)
NetChange(r, body) ==
    [c \in DOMAIN r |-> IF Completed(body)[c] = r[c] THEN Omitted ELSE Completed(body)[c] ]

(* MUTANT of LoadForPatch: the pair is not checked.                         *)
LoadUnchecked(q) ==
    /\ ~ InProgress(q) /\ row \in Rows
    /\ \E body \in Bodies :
          /\ Enter(q, "patch", NetChange(row, body))
          /\ pairRace' = (pairRace \/ Races(q, body))
    /\ copy' = [copy EXCEPT ![q] = row]
    /\ UNCHANGED <<row, job, drift, lostCommits>>

(* PATCH: an empty body, an unknown row (404) and a refused one (422) end   *)
(* here, with nothing changed.                                             *)
LoadForPatch(q) ==
    /\ ~ InProgress(q) /\ row \in Rows
    /\ \E body \in Bodies :
          /\ Accepts(row, body)
          /\ Enter(q, "patch", NetChange(row, body))
          /\ pairRace' = (pairRace \/ Races(q, body))
    /\ copy' = [copy EXCEPT ![q] = row]
    /\ UNCHANGED <<row, job, drift, lostCommits>>

(* MUTANT of CommitPatch: the UPDATE writes every column of the object.     *)
CommitWholeObject(q) ==
    /\ reqPlace[q] = "patch" /\ row \in Rows
    /\ row' = Apply(copy[q], toWrite[q])
    /\ copy' = [copy EXCEPT ![q] = row']
    /\ reqPlace' = [reqPlace EXCEPT ![q] = "answered"]
    /\ toWrite' = [toWrite EXCEPT ![q] = Nothing]
    /\ UNCHANGED <<job, alone, drift, pairRace, lostCommits>>

(* The UPDATE of the changed columns (none, if nothing differs), the        *)
(* refresh of the object, the COMMIT.                                      *)
CommitPatch(q) ==
    /\ reqPlace[q] = "patch" /\ row \in Rows
    /\ row' = Apply(row, toWrite[q])
    /\ copy' = [copy EXCEPT ![q] = row']
    /\ reqPlace' = [reqPlace EXCEPT ![q] = "answered"]
    /\ toWrite' = [toWrite EXCEPT ![q] = Nothing]
    /\ UNCHANGED <<job, alone, drift, pairRace, lostCommits>>

(* The row has been deleted since: the UPDATE, or the refresh, raises (500). *)
PatchOfGone(q) ==
    /\ reqPlace[q] = "patch" /\ row = Gone
    /\ Leave(q)
    /\ UNCHANGED <<row, job, drift, pairRace, lostCommits>>

LoadForDelete(q) ==
    /\ ~ InProgress(q) /\ row \in Rows
    /\ Enter(q, "delete", Nothing)
    /\ UNCHANGED <<row, job, copy, drift, pairRace, lostCommits>>

(* A DELETE that meets no row only warns, and is answered 204 as well.      *)
CommitDelete(q) ==
    /\ reqPlace[q] = "delete"
    /\ row' = Gone
    /\ copy' = [copy EXCEPT ![q] = Gone]
    /\ reqPlace' = [reqPlace EXCEPT ![q] = "answered"]
    /\ UNCHANGED <<job, toWrite, alone, drift, pairRace, lostCommits>>

(* Captures of the source restrict its deletion: the DELETE raises (500).   *)
DeleteRestricted(q) ==
    /\ reqPlace[q] = "delete"
    /\ Leave(q)
    /\ UNCHANGED <<row, job, drift, pairRace, lostCommits>>

(* POST: the id is new, the body has been validated, the pair with it.      *)
Create(q) ==
    /\ ~ InProgress(q) /\ row = Unborn
    /\ row' \in {r \in Rows : PairAgrees(r)}
    /\ Enter(q, "answered", Nothing)
    /\ copy' = [copy EXCEPT ![q] = row']
    /\ UNCHANGED <<job, drift, pairRace, lostCommits>>

(* MUTANT of RefreshJob: a job is only ever added or replaced.              *)
RefreshNeverRemoves(q) ==
    /\ reqPlace[q] = "answered"
    /\ job' = IF JobOf(copy[q]) = NoJob THEN job ELSE JobOf(copy[q])
    /\ drift' = ~ alone[q]
    /\ Leave(q)
    /\ UNCHANGED <<row, pairRace, lostCommits>>

(* refresh_jobs_for_source finds the row in the session's identity map, as   *)
(* this request left it.  It puts the job in step, unless another request   *)
(* is or was about.                                                        *)
RefreshJob(q) ==
    /\ reqPlace[q] = "answered"
    /\ job' = JobOf(copy[q])
    /\ drift' = ~ alone[q]
    /\ Leave(q)
    /\ UNCHANGED <<row, pairRace, lostCommits>>

(* The commit takes effect and its answer is lost: 500, no refresh.         *)
CommitAnswerLost(q) ==
    /\ reqPlace[q] \in {"patch", "delete"} /\ row \in Rows /\ lostCommits < MaxLost
    /\ lostCommits' = lostCommits + 1
    /\ row' = IF reqPlace[q] = "patch" THEN Apply(row, toWrite[q]) ELSE Gone
    /\ drift' = TRUE
    /\ Leave(q)
    /\ UNCHANGED <<job, pairRace>>

(* The process dies and starts: PollScheduler.start registers every enabled *)
(* source before the first request is served.                              *)
RestartApp ==
    /\ reqPlace' = [q \in Requests |-> "idle"]
    /\ toWrite' = [q \in Requests |-> Nothing]
    /\ copy' = [q \in Requests |-> Unborn]
    /\ job' = JobOf(row)
    /\ alone' = [q \in Requests |-> TRUE]
    /\ drift' = FALSE
    /\ UNCHANGED <<row, pairRace, lostCommits>>

SourcesNext ==
    \/ \E q \in Requests :
          \/ LoadForPatch(q) \/ CommitPatch(q) \/ PatchOfGone(q)
          \/ LoadForDelete(q) \/ CommitDelete(q) \/ DeleteRestricted(q)
          \/ Create(q) \/ RefreshJob(q) \/ CommitAnswerLost(q)
    \/ RestartApp

SourcesSpec == SourcesInit /\ [][SourcesNext]_sourceVars
-----------------------------------------------------------------------------
(***************************************************************************)
(* When no request is in progress the scheduler polls what the table says,  *)
(* at the schedule it says, from a start of the application, and again from *)
(* any request that ran alone, until requests overlap or a commit's answer  *)
(* is lost.                                                                *)
(***************************************************************************)
JobFollowsRow ==
    (\A q \in Requests : ~ InProgress(q)) /\ ~ drift => job = JobOf(row)

(***************************************************************************)
(* fallback_mode and fallback_url agree in every committed row, whatever    *)
(* sequence of partial updates led to it, unless two updates of the pair    *)
(* overlapped: each was checked against the row it had loaded.             *)
(***************************************************************************)
PairBreaksOnlyByOverlap == row \in Rows /\ ~ pairRace => PairAgrees(row)

(***************************************************************************)
(* "Only sent fields are applied": a commit changes no column but those a   *)
(* request in progress has to change, so that of two overlapping PATCHes of *)
(* different columns neither takes the other's back; and a PATCH that was   *)
(* loaded before a DELETE does not bring the row back after it.            *)
(***************************************************************************)
OnlySentColumnsChange ==
    [][ /\ row = Gone => row' = Gone
        /\ (row \in Rows /\ row' \in Rows) =>
             \E q \in Requests : {c \in DOMAIN row : row'[c] # row[c]} \subseteq Sent(toWrite[q])
      ]_sourceVars
=============================================================================
