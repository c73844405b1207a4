----------------------------- MODULE AdminProofs -----------------------------
(***************************************************************************)
(* Proofs about the two resources that admins edit through the console. For  *)
(* any number of requests, rows and rules: a source's job and its row, and  *)
(* the two halves of its fallback pair, part only by an overlap or a lost   *)
(* answer; the audit of the routing rules leaves out no removal; and one    *)
(* state of the rules routes a classification.                              *)
(***************************************************************************)
EXTENDS Admin, FiniteSetTheorems, WellFoundedInduction, TLAPS

(*------------------------------- Sources ---------------------------------*)

(* The job is the row's, or somebody is about to refresh it.                *)
JobInStep == drift \/ job = JobOf(row) \/ \E q \in Requests : reqPlace[q] = "answered"

(* Whoever is still alone has nobody beside it, and holds the row as it is.  *)
AloneHoldsRow ==
    \A q \in Requests : InProgress(q) /\ alone[q] =>
        Others(q) = {} /\ (reqPlace[q] = "answered" => copy[q] = row)

Holds(q) == reqPlace[q] = "patch" /\ TouchesPair(toWrite[q])

(* Without an overlap one PATCH at most is about to write a part of the pair. *)
OneHandOnPair == ~ pairRace => \A p, q \in Requests : Holds(p) /\ Holds(q) => p = q

(* The pair agrees, and will when the one that has it in hand commits.      *)
PairKept ==
    row \in Rows /\ ~ pairRace =>
        /\ PairAgrees(row)
        /\ \A q \in Requests : Holds(q) => PairAgrees(Apply(row, toWrite[q]))

(* A source that is not there yet is in nobody's hands.                     *)
UnbornIsIdle == row = Unborn => \A q \in Requests : ~ InProgress(q)

SourcesInv ==
    /\ SourcesTypeOK /\ JobInStep /\ AloneHoldsRow /\ OneHandOnPair /\ PairKept /\ UnbornIsIdle
-----------------------------------------------------------------------------
(* Apply writes the columns that are sent, and no other.                    *)
LEMMA ApplyColumns ==
  ASSUME NEW r \in Rows, NEW b \in Partial
  PROVE  /\ Apply(r, b) \in Rows
         /\ Apply(r, b).mode = IF b.mode = Omitted THEN r.mode ELSE b.mode
         /\ Apply(r, b).url = IF b.url = Omitted THEN r.url ELSE b.url
  BY DEF Rows, Partial, Apply

LEMMA ApplyUntouched ==
  ASSUME NEW r \in Rows, NEW b \in Partial, ~ TouchesPair(b)
  PROVE  PairAgrees(Apply(r, b)) <=> PairAgrees(r)
<1>1. b.mode = Omitted /\ b.url = Omitted
  BY DEF TouchesPair, Sent, Partial
<1>. QED  BY <1>1, ApplyColumns DEF PairAgrees

LEMMA CompletedType ==
  ASSUME NEW b \in Partial
  PROVE  Completed(b) \in Partial
  BY DEF Partial, Completed

LEMMA NothingType == Nothing \in Partial
  BY DEF Nothing, Partial

(* A PATCH writes what differs: the pair it leaves is the pair that was      *)
(* checked, and it has the pair in hand only if it has sent a part of it.   *)
LEMMA NetChangeOfPair ==
  ASSUME NEW r \in Rows, NEW b \in Partial, Accepts(r, b)
  PROVE  /\ NetChange(r, b) \in Partial
         /\ TouchesPair(NetChange(r, b)) => TouchesPair(b)
         /\ TouchesPair(NetChange(r, b)) => PairAgrees(Apply(r, NetChange(r, b)))
<1>1. Completed(b) \in Partial
  BY CompletedType
<1>2. NetChange(r, b) \in Partial
  BY <1>1 DEF Rows, Partial, NetChange
<1>3. /\ NetChange(r, b).mode = IF Completed(b).mode = r.mode THEN Omitted ELSE Completed(b).mode
      /\ NetChange(r, b).url = IF Completed(b).url = r.url THEN Omitted ELSE Completed(b).url
  BY DEF Rows, NetChange
<1>4. /\ Apply(r, NetChange(r, b)).mode = Apply(r, Completed(b)).mode
      /\ Apply(r, NetChange(r, b)).url = Apply(r, Completed(b)).url
  BY <1>1, <1>2, <1>3, ApplyColumns
<1>5. TouchesPair(NetChange(r, b)) => TouchesPair(b)
  <2>1. SUFFICES ASSUME ~ TouchesPair(b) PROVE ~ TouchesPair(NetChange(r, b))
    OBVIOUS
  <2>2. b.mode = Omitted /\ b.url = Omitted
    BY <2>1 DEF TouchesPair, Sent, Partial
  <2>3. Completed(b) = b
    BY <2>2, SourcesAssumption DEF Completed, Modes
  <2>4. NetChange(r, b).mode = Omitted /\ NetChange(r, b).url = Omitted
    BY <2>2, <2>3, <1>3
  <2>. QED  BY <2>4 DEF TouchesPair, Sent
<1>. QED  BY <1>2, <1>4, <1>5 DEF Accepts, PairAgrees

LEMMA JobOfType ==
  ASSUME NEW r
  PROVE  JobOf(r) \in Schedules \cup {NoJob}
  BY DEF JobOf, Rows

LEMMA InitSourcesInv ==
  ASSUME SourcesInit
  PROVE  SourcesInv
<1>1. row \in Rows \cup {Unborn, Gone} /\ job \in Schedules \cup {NoJob} /\ lostCommits \in 0..MaxLost
  BY JobOfType, SourcesAssumption DEF SourcesInit
<1>2. toWrite \in [Requests -> Partial]
  BY NothingType DEF SourcesInit
<1>3. SourcesTypeOK
  BY <1>1, <1>2 DEF SourcesInit, SourcesTypeOK
<1>4. JobInStep /\ AloneHoldsRow /\ OneHandOnPair /\ PairKept /\ UnbornIsIdle
  BY SourcesAssumption
     DEF SourcesInit, JobInStep, AloneHoldsRow, OneHandOnPair, PairKept, Holds, InProgress,
       UnbornIsIdle
<1>. QED  BY <1>3, <1>4 DEF SourcesInv

(* Whoever enters is alone only if nobody was about.                         *)
LEMMA EnterAlone ==
  ASSUME SourcesInv, NEW q \in Requests, ~ InProgress(q), NEW place, NEW body,
         Enter(q, place, body),
         \A p \in Requests \ {q} : copy'[p] = copy[p], place = "answered" => copy'[q] = row'
  PROVE  AloneHoldsRow'
<1>1. /\ reqPlace'[q] = place /\ \A p \in Requests \ {q} : reqPlace'[p] = reqPlace[p]
      /\ \A p \in Requests : alone'[p] = (Others(q) = {} \/ ~ (p = q \/ InProgress(p)))
  BY DEF SourcesInv, SourcesTypeOK, Enter
<1>2. SUFFICES ASSUME NEW p \in Requests, InProgress(p)', alone'[p]
               PROVE  Others(p)' = {} /\ (reqPlace'[p] = "answered" => copy'[p] = row')
  BY DEF AloneHoldsRow
<1>3. p = q /\ Others(q) = {}
  BY <1>1, <1>2 DEF InProgress, Others
<1>4. Others(q)' = {}
  BY <1>1, <1>3 DEF InProgress, Others
<1>. QED  BY <1>1, <1>3, <1>4

LEMMA LoadForPatchStep ==
  ASSUME SourcesInv, NEW q \in Requests, LoadForPatch(q)
  PROVE  SourcesInv'
<1>1. PICK body \in Partial :
        /\ Accepts(row, body) /\ Enter(q, "patch", NetChange(row, body))
        /\ pairRace' = (pairRace \/ Races(q, body))
  BY DEF LoadForPatch, Bodies
<1> DEFINE net == NetChange(row, body)
<1>2. /\ ~ InProgress(q) /\ row \in Rows /\ row' = row /\ job' = job /\ drift' = drift
      /\ lostCommits' = lostCommits /\ copy' = [copy EXCEPT ![q] = row]
  BY DEF LoadForPatch
<1>3. /\ net \in Partial /\ (TouchesPair(net) => TouchesPair(body))
      /\ TouchesPair(net) => PairAgrees(Apply(row, net))
  BY <1>1, <1>2, NetChangeOfPair
<1>4. Enter(q, "patch", net)
  BY <1>1
<1> HIDE DEF net
<1>5. /\ reqPlace'[q] = "patch" /\ \A p \in Requests \ {q} : reqPlace'[p] = reqPlace[p]
      /\ toWrite'[q] = net /\ \A p \in Requests \ {q} : toWrite'[p] = toWrite[p]
  BY <1>4 DEF SourcesInv, SourcesTypeOK, Enter
<1>6. SourcesTypeOK'
  <2>1. pairRace' \in BOOLEAN
    BY <1>1
  <2>2. /\ toWrite' \in [Requests -> Partial] /\ alone' \in [Requests -> BOOLEAN]
        /\ reqPlace' \in [Requests -> {"idle", "patch", "delete", "answered"}]
    BY <1>3, <1>4 DEF SourcesInv, SourcesTypeOK, Enter
  <2>. QED  BY <1>2, <2>1, <2>2 DEF SourcesInv, SourcesTypeOK
<1>7. JobInStep'
  BY <1>2, <1>5 DEF SourcesInv, JobInStep, InProgress
<1>8. AloneHoldsRow'
  <2>1. \A p \in Requests \ {q} : copy'[p] = copy[p]
    BY <1>2
  <2>. QED  BY <1>2, <1>4, EnterAlone
<1>9. OneHandOnPair'
  <2>. SUFFICES ASSUME ~ pairRace', NEW p \in Requests \ {q}, Holds(p)', Holds(q)'
                PROVE  FALSE
    BY <1>1, <1>5 DEF SourcesInv, OneHandOnPair, Holds
  <2>1. Holds(p) /\ TouchesPair(body)
    BY <1>3, <1>5 DEF Holds
  <2>2. Races(q, body)
    BY <2>1 DEF Races, Others, InProgress, Holds
  <2>. QED  BY <2>2, <1>1
<1>10. PairKept'
  BY <1>1, <1>2, <1>3, <1>5 DEF SourcesInv, PairKept, Holds
<1>11. UnbornIsIdle'
  BY <1>2, SourcesAssumption DEF UnbornIsIdle
<1>. QED  BY <1>6, <1>7, <1>8, <1>9, <1>10, <1>11 DEF SourcesInv

LEMMA CommitPatchStep ==
  ASSUME SourcesInv, NEW q \in Requests, CommitPatch(q)
  PROVE  SourcesInv'
<1>1. SourcesTypeOK'
  BY NothingType, ApplyColumns DEF SourcesInv, CommitPatch, SourcesTypeOK
<1>2. JobInStep'
  BY DEF SourcesInv, CommitPatch, JobInStep, SourcesTypeOK
<1>3. AloneHoldsRow'
  BY DEF SourcesInv, CommitPatch, AloneHoldsRow, SourcesTypeOK, InProgress, Others
<1>4. OneHandOnPair'
  BY DEF SourcesInv, CommitPatch, OneHandOnPair, SourcesTypeOK, Holds
<1>5. PairKept'
  <2>. SUFFICES ASSUME row' \in Rows, ~ pairRace'
                PROVE  /\ PairAgrees(row')
                       /\ \A p \in Requests : Holds(p)' => PairAgrees(Apply(row', toWrite'[p]))
    BY DEF PairKept
  <2>1. /\ row \in Rows /\ row' \in Rows /\ row' = Apply(row, toWrite[q]) /\ reqPlace[q] = "patch"
        /\ ~ pairRace /\ reqPlace'[q] # "patch"
        /\ \A p \in Requests \ {q} : reqPlace'[p] = reqPlace[p] /\ toWrite'[p] = toWrite[p]
    BY DEF SourcesInv, SourcesTypeOK, CommitPatch
  <2>2. PairAgrees(row')
    BY <2>1, ApplyUntouched DEF SourcesInv, SourcesTypeOK, PairKept, Holds
  <2>3. ASSUME NEW p \in Requests \ {q}, Holds(p)
        PROVE  PairAgrees(Apply(row', toWrite[p]))
    <3>1. ~ TouchesPair(toWrite[q])
      BY <2>1, <2>3 DEF SourcesInv, OneHandOnPair, Holds
    <3>2. row'.mode = row.mode /\ row'.url = row.url
      BY <2>1, <3>1, ApplyColumns DEF SourcesInv, SourcesTypeOK, TouchesPair, Sent, Partial
    <3>3. toWrite[p] \in Partial
      BY DEF SourcesInv, SourcesTypeOK
    <3>4. PairAgrees(Apply(row, toWrite[p]))
      BY <2>1, <2>3 DEF SourcesInv, PairKept
    <3>. QED  BY <2>1, <3>2, <3>3, <3>4, ApplyColumns DEF PairAgrees
  <2>. QED  BY <2>1, <2>2, <2>3 DEF Holds
<1>6. UnbornIsIdle'
  <2>1. row' \in Rows
    BY ApplyColumns DEF SourcesInv, SourcesTypeOK, CommitPatch
  <2>. QED  BY <2>1, SourcesAssumption DEF UnbornIsIdle
<1>. QED  BY <1>1, <1>2, <1>3, <1>4, <1>5, <1>6 DEF SourcesInv

LEMMA PatchOfGoneStep ==
  ASSUME SourcesInv, NEW q \in Requests, PatchOfGone(q)
  PROVE  SourcesInv'
<1>1. SourcesTypeOK'
  BY NothingType DEF SourcesInv, PatchOfGone, Leave, SourcesTypeOK
<1>2. JobInStep'
  BY DEF SourcesInv, PatchOfGone, Leave, JobInStep
<1>3. AloneHoldsRow'
  BY DEF SourcesInv, PatchOfGone, Leave, AloneHoldsRow, SourcesTypeOK, InProgress, Others
<1>4. OneHandOnPair'
  BY DEF SourcesInv, PatchOfGone, Leave, OneHandOnPair, SourcesTypeOK, Holds
<1>5. PairKept'
  BY DEF SourcesInv, PatchOfGone, Leave, PairKept, SourcesTypeOK, Holds
<1>6. UnbornIsIdle'
  BY DEF SourcesInv, PatchOfGone, UnbornIsIdle, InProgress
<1>. QED  BY <1>1, <1>2, <1>3, <1>4, <1>5, <1>6 DEF SourcesInv

LEMMA LoadForDeleteStep ==
  ASSUME SourcesInv, NEW q \in Requests, LoadForDelete(q)
  PROVE  SourcesInv'
<1>1. SourcesTypeOK'
  BY NothingType DEF SourcesInv, LoadForDelete, Enter, SourcesTypeOK
<1>2. JobInStep'
  BY DEF SourcesInv, LoadForDelete, Enter, JobInStep, InProgress
<1>3. AloneHoldsRow'
  BY EnterAlone DEF LoadForDelete
<1>4. OneHandOnPair'
  BY DEF SourcesInv, LoadForDelete, Enter, OneHandOnPair, Holds, InProgress
<1>5. PairKept'
  BY DEF SourcesInv, LoadForDelete, Enter, PairKept, SourcesTypeOK, Holds
<1>6. UnbornIsIdle'
  BY SourcesAssumption DEF LoadForDelete, UnbornIsIdle
<1>. QED  BY <1>1, <1>2, <1>3, <1>4, <1>5, <1>6 DEF SourcesInv

LEMMA CommitDeleteStep ==
  ASSUME SourcesInv, NEW q \in Requests, CommitDelete(q)
  PROVE  SourcesInv'
<1>1. SourcesTypeOK'
  BY DEF SourcesInv, CommitDelete, SourcesTypeOK
<1>2. JobInStep'
  BY DEF SourcesInv, CommitDelete, JobInStep, SourcesTypeOK
<1>3. AloneHoldsRow'
  BY DEF SourcesInv, CommitDelete, AloneHoldsRow, SourcesTypeOK, InProgress, Others
<1>4. OneHandOnPair'
  BY DEF SourcesInv, CommitDelete, OneHandOnPair, Holds
<1>5. PairKept'
  BY SourcesAssumption DEF CommitDelete, PairKept
<1>6. UnbornIsIdle'
  BY SourcesAssumption DEF CommitDelete, UnbornIsIdle
<1>. QED  BY <1>1, <1>2, <1>3, <1>4, <1>5, <1>6 DEF SourcesInv

LEMMA DeleteRestrictedStep ==
  ASSUME SourcesInv, NEW q \in Requests, DeleteRestricted(q)
  PROVE  SourcesInv'
<1>1. SourcesTypeOK'
  BY NothingType DEF SourcesInv, DeleteRestricted, Leave, SourcesTypeOK
<1>2. JobInStep'
  BY DEF SourcesInv, DeleteRestricted, Leave, JobInStep
<1>3. AloneHoldsRow'
  BY DEF SourcesInv, DeleteRestricted, Leave, AloneHoldsRow, SourcesTypeOK, InProgress,
       Others
<1>4. OneHandOnPair'
  BY DEF SourcesInv, DeleteRestricted, Leave, OneHandOnPair, Holds
<1>5. PairKept'
  BY DEF SourcesInv, DeleteRestricted, Leave, PairKept, Holds
<1>6. UnbornIsIdle'
  BY DEF SourcesInv, DeleteRestricted, UnbornIsIdle, InProgress
<1>. QED  BY <1>1, <1>2, <1>3, <1>4, <1>5, <1>6 DEF SourcesInv

LEMMA CreateStep ==
  ASSUME SourcesInv, NEW q \in Requests, Create(q)
  PROVE  SourcesInv'
<1>1. SourcesTypeOK'
  BY NothingType DEF SourcesInv, Create, Enter, SourcesTypeOK
<1>2. JobInStep'
  BY DEF SourcesInv, Create, Enter, JobInStep, SourcesTypeOK
<1>3. AloneHoldsRow'
  <2>1. \A p \in Requests \ {q} : copy'[p] = copy[p]
    BY DEF Create
  <2>2. copy'[q] = row'
    BY DEF SourcesInv, SourcesTypeOK, Create
  <2>. QED  BY <2>2, EnterAlone DEF Create
<1>4. OneHandOnPair'
  BY DEF SourcesInv, Create, Enter, OneHandOnPair, Holds, InProgress
<1>5. PairKept'
  <2>1. \A p \in Requests : ~ Holds(p)'
    BY DEF SourcesInv, Create, Enter, Holds, UnbornIsIdle, InProgress
  <2>. QED  BY <2>1 DEF Create, PairKept
<1>6. UnbornIsIdle'
  BY SourcesAssumption DEF Create, UnbornIsIdle
<1>. QED  BY <1>1, <1>2, <1>3, <1>4, <1>5, <1>6 DEF SourcesInv

LEMMA RefreshJobStep ==
  ASSUME SourcesInv, NEW q \in Requests, RefreshJob(q)
  PROVE  SourcesInv'
<1>1. SourcesTypeOK'
  BY NothingType, JobOfType DEF SourcesInv, RefreshJob, Leave, SourcesTypeOK
<1>2. JobInStep'
  <2>1. CASE alone[q]
    <3>1. copy[q] = row /\ row' = row
      BY <2>1 DEF SourcesInv, RefreshJob, AloneHoldsRow, InProgress
    <3>. QED  BY <3>1 DEF RefreshJob, JobInStep
  <2>2. CASE ~ alone[q]
    BY <2>2 DEF RefreshJob, JobInStep
  <2>. QED  BY <2>1, <2>2
<1>3. AloneHoldsRow'
  BY DEF SourcesInv, RefreshJob, Leave, AloneHoldsRow, SourcesTypeOK, InProgress, Others
<1>4. OneHandOnPair'
  BY DEF SourcesInv, RefreshJob, Leave, OneHandOnPair, Holds
<1>5. PairKept'
  BY DEF SourcesInv, RefreshJob, Leave, PairKept, Holds
<1>6. UnbornIsIdle'
  BY DEF SourcesInv, RefreshJob, UnbornIsIdle, InProgress
<1>. QED  BY <1>1, <1>2, <1>3, <1>4, <1>5, <1>6 DEF SourcesInv

LEMMA CommitAnswerLostStep ==
  ASSUME SourcesInv, NEW q \in Requests, CommitAnswerLost(q)
  PROVE  SourcesInv'
<1>1. SourcesTypeOK'
  BY NothingType, ApplyColumns, SourcesAssumption
     DEF SourcesInv, CommitAnswerLost, Leave, SourcesTypeOK
<1>2. JobInStep'
  BY DEF CommitAnswerLost, JobInStep
<1>3. AloneHoldsRow'
  BY DEF SourcesInv, CommitAnswerLost, Leave, AloneHoldsRow, SourcesTypeOK, InProgress,
       Others
<1>4. OneHandOnPair'
  BY DEF SourcesInv, CommitAnswerLost, Leave, OneHandOnPair, SourcesTypeOK, Holds
<1>5. PairKept'
  <2>. SUFFICES ASSUME row' \in Rows, ~ pairRace'
                PROVE  /\ PairAgrees(row')
                       /\ \A p \in Requests : Holds(p)' => PairAgrees(Apply(row', toWrite'[p]))
    BY DEF PairKept
  <2>1. /\ row \in Rows /\ row' \in Rows /\ row' = Apply(row, toWrite[q]) /\ reqPlace[q] = "patch"
        /\ ~ pairRace /\ reqPlace'[q] # "patch"
        /\ \A p \in Requests \ {q} : reqPlace'[p] = reqPlace[p] /\ toWrite'[p] = toWrite[p]
    BY SourcesAssumption DEF SourcesInv, SourcesTypeOK, CommitAnswerLost, Leave
  <2>2. PairAgrees(row')
    BY <2>1, ApplyUntouched DEF SourcesInv, SourcesTypeOK, PairKept, Holds
  <2>3. ASSUME NEW p \in Requests \ {q}, Holds(p)
        PROVE  PairAgrees(Apply(row', toWrite[p]))
    <3>1. ~ TouchesPair(toWrite[q])
      BY <2>1, <2>3 DEF SourcesInv, OneHandOnPair, Holds
    <3>2. row'.mode = row.mode /\ row'.url = row.url
      BY <2>1, <3>1, ApplyColumns DEF SourcesInv, SourcesTypeOK, TouchesPair, Sent, Partial
    <3>3. toWrite[p] \in Partial
      BY DEF SourcesInv, SourcesTypeOK
    <3>4. PairAgrees(Apply(row, toWrite[p]))
      BY <2>1, <2>3 DEF SourcesInv, PairKept
    <3>. QED  BY <2>1, <3>2, <3>3, <3>4, ApplyColumns DEF PairAgrees
  <2>. QED  BY <2>1, <2>2, <2>3 DEF Holds
<1>6. UnbornIsIdle'
  BY ApplyColumns, SourcesAssumption
     DEF SourcesInv, CommitAnswerLost, UnbornIsIdle, SourcesTypeOK
<1>. QED  BY <1>1, <1>2, <1>3, <1>4, <1>5, <1>6 DEF SourcesInv

LEMMA RestartAppStep ==
  ASSUME SourcesInv, RestartApp
  PROVE  SourcesInv'
<1>1. SourcesTypeOK'
  BY NothingType, JobOfType DEF SourcesInv, SourcesTypeOK, RestartApp
<1>2. JobInStep' /\ AloneHoldsRow' /\ OneHandOnPair' /\ PairKept' /\ UnbornIsIdle'
  BY DEF SourcesInv, RestartApp, JobInStep, AloneHoldsRow, OneHandOnPair, PairKept, Holds,
       InProgress, UnbornIsIdle
<1>. QED  BY <1>1, <1>2 DEF SourcesInv
-----------------------------------------------------------------------------
LEMMA NextKeepsSourcesInv ==
  ASSUME SourcesInv, [SourcesNext]_sourceVars
  PROVE  SourcesInv'
<1>1. CASE UNCHANGED sourceVars
  BY <1>1
     DEF sourceVars, SourcesInv, SourcesTypeOK, JobInStep, AloneHoldsRow, OneHandOnPair,
       PairKept, Holds, InProgress, Others, UnbornIsIdle
<1>. QED  BY <1>1, LoadForPatchStep, CommitPatchStep, PatchOfGoneStep, LoadForDeleteStep,
               CommitDeleteStep, DeleteRestrictedStep, CreateStep, RefreshJobStep,
               CommitAnswerLostStep, RestartAppStep DEF SourcesNext

(***************************************************************************)
(* The inductive invariant of a source under its requests.                  *)
(***************************************************************************)
THEOREM SourcesInvariant == SourcesSpec => []SourcesInv
<1>1. SourcesInit => SourcesInv
  BY InitSourcesInv
<1>2. SourcesInv /\ [SourcesNext]_sourceVars => SourcesInv'
  BY NextKeepsSourcesInv
<1>. QED  BY <1>1, <1>2, PTL DEF SourcesSpec

(***************************************************************************)
(* The type invariant of the source, its job and the requests.              *)
(***************************************************************************)
THEOREM SourcesTyped == SourcesSpec => []SourcesTypeOK
<1>1. SourcesInv => SourcesTypeOK
  BY DEF SourcesInv
<1>. QED  BY <1>1, SourcesInvariant, PTL

(***************************************************************************)
(* refresh_jobs_for_source: the scheduler's job is what the row says,        *)
(* whenever no request is in progress, unless an overlap or a lost answer   *)
(* has parted them since they were last put in step.                       *)
(***************************************************************************)
THEOREM JobsFollowRows == SourcesSpec => []JobFollowsRow
<1>1. SourcesInv => JobFollowsRow
  BY DEF SourcesInv, JobInStep, JobFollowsRow, InProgress
<1>. QED  BY <1>1, SourcesInvariant, PTL

(***************************************************************************)
(* _validate_fallback_pair: a committed pair disagrees only after two        *)
(* PATCHes of it have overlapped, however many partial ones came before.    *)
(***************************************************************************)
THEOREM PairsAgree == SourcesSpec => []PairBreaksOnlyByOverlap
<1>1. SourcesInv => PairBreaksOnlyByOverlap
  BY DEF SourcesInv, PairKept, PairBreaksOnlyByOverlap
<1>. QED  BY <1>1, SourcesInvariant, PTL

(***************************************************************************)
(* "Only sent fields are applied": each commit changes no column but those   *)
(* that one request has to change, and a row that is gone stays so.         *)
(***************************************************************************)
THEOREM OnlySentColumnsAreWritten == SourcesSpec => OnlySentColumnsChange
<1> DEFINE Kept ==
             /\ row = Gone => row' = Gone
             /\ (row \in Rows /\ row' \in Rows) =>
                  \E q \in Requests :
                     {c \in DOMAIN row : row'[c] # row[c]} \subseteq Sent(toWrite[q])
<1>1. SourcesInv /\ SourcesNext /\ row = Gone => row' = Gone
  BY SourcesAssumption
     DEF SourcesNext, LoadForPatch, CommitPatch, PatchOfGone, LoadForDelete, CommitDelete,
         DeleteRestricted, Create, RefreshJob, CommitAnswerLost, RestartApp
<1>2. ASSUME SourcesInv, SourcesNext, row \in Rows, row' \in Rows
      PROVE  \E q \in Requests : {c \in DOMAIN row : row'[c] # row[c]} \subseteq Sent(toWrite[q])
  <2>1. CASE row' = row
    BY <2>1, SourcesAssumption
  <2>2. ASSUME NEW q \in Requests, row' = Apply(row, toWrite[q])
        PROVE  {c \in DOMAIN row : row'[c] # row[c]} \subseteq Sent(toWrite[q])
    BY <1>2, <2>2 DEF SourcesInv, SourcesTypeOK, Apply, Sent, Partial, Rows
  <2>3. row' = row \/ \E q \in Requests : row' = Apply(row, toWrite[q])
    BY <1>2, SourcesAssumption
       DEF SourcesNext, LoadForPatch, CommitPatch, PatchOfGone, LoadForDelete,
         CommitDelete, DeleteRestricted, Create, RefreshJob, CommitAnswerLost, RestartApp
  <2>. QED  BY <2>1, <2>2, <2>3
<1>3. SourcesInv /\ [SourcesNext]_sourceVars => [Kept]_sourceVars
  BY <1>1, <1>2
<1>. QED  BY <1>3, SourcesInvariant, PTL DEF SourcesSpec, OnlySentColumnsChange
-----------------------------------------------------------------------------
(*----------------------------- Routing rules -----------------------------*)

(* What a request holds between its load and its commit.                    *)
UpdatesInHand == [op : {"update"}, rule : RuleIds, patch : Patches, before : RuleRows]
RemovalsInHand == [op : {"delete"}, rule : RuleIds, before : RuleRows]

RuleTypes ==
    /\ table \in [RuleIds -> RuleRows \cup {NoRule}]
    /\ used \subseteq RuleIds /\ Existing(table) \subseteq used
    /\ told \subseteq used
    /\ edits \in [Editors -> {Idle} \cup UpdatesInHand \cup RemovalsInHand]

(* What an editor has loaded is what is there, unless another has it too.   *)
HeldAsLoaded ==
    \A e \in Editors : edits[e] # Idle =>
        /\ edits[e].rule \in used
        /\ edits[e].op = "update" =>
              LET r == edits[e].rule
              IN  /\ edits[e].patch.key \in Keys(edits[e].before.type) \cup {Same}
                  /\ table[r] # NoRule => table[r].type = edits[e].before.type
                  /\ r \in contended \/ table[r] = edits[e].before

SharedIsContended ==
    \A d, e \in Editors :
        d # e /\ edits[d] # Idle /\ edits[e] # Idle /\ edits[d].rule = edits[e].rule
            => edits[e].rule \in contended

RulesInv == RuleTypes /\ HeldAsLoaded /\ SharedIsContended /\ AuditTellsStory
-----------------------------------------------------------------------------
(* A PATCH leaves a rule of the same type.                                  *)
LEMMA PatchedRow ==
  ASSUME NEW content \in RuleRows, NEW edit \in UpdatesInHand, content.type = edit.before.type,
         edit.patch.key \in Keys(edit.before.type) \cup {Same}
  PROVE  /\ Patched(content, Net(edit)) \in RuleRows
         /\ Patched(content, Net(edit)).type = content.type
<1> DEFINE net == Net(edit)
<1>0. edit.patch \in [priority : Priorities \cup {Same}, key : Topics \cup Severities \cup {Same},
            dest : Dests \cup {Same}]
  BY DEF UpdatesInHand, Patches
<1>1. /\ DOMAIN net = {"priority", "key", "dest"}
      /\ net["priority"] \in Priorities \cup {Same} /\ net["dest"] \in Dests \cup {Same}
      /\ net["key"] \in Keys(edit.before.type) \cup {Same}
  BY <1>0 DEF Net
<1>2. content.type \in {"topic", "severity"}
  BY DEF RuleRows
<1> HIDE DEF net
<1>3. Patched(content, net) \in RuleRows /\ Patched(content, net).type = content.type
  <2>1. CASE content.type = "topic"
    <3>1. content \in [type : {"topic"}, key : Topics, priority : Priorities, dest : Dests]
      BY <2>1 DEF RuleRows
    <3>. QED  BY <1>1, <2>1, <3>1 DEF Patched, RuleRows, Keys
  <2>2. CASE content.type = "severity"
    <3>1. content \in [type : {"severity"}, key : Severities, priority : Priorities, dest : Dests]
      BY <2>2 DEF RuleRows
    <3>. QED  BY <1>1, <2>2, <3>1 DEF Patched, RuleRows, Keys
  <2>. QED  BY <1>2, <2>1, <2>2
<1>. QED  BY <1>3 DEF net

LEMMA InitRulesInv ==
  ASSUME RulesInit
  PROVE  RulesInv
  BY RoutingRulesAssumption
     DEF RulesInit, RulesInv, RuleTypes, HeldAsLoaded, SharedIsContended, AuditTellsStory,
       Existing

LEMMA CreateRuleStep ==
  ASSUME RulesInv, NEW e \in Editors, CreateRule(e)
  PROVE  RulesInv'
<1>1. PICK r \in RuleIds \ used, content \in RuleRows :
        /\ table' = [table EXCEPT ![r] = content] /\ used' = used \cup {r}
        /\ Record("create", r, NoRule)
  BY DEF CreateRule
<1>2. /\ edits' = edits /\ contended' = contended /\ told' = told /\ misquoted' = misquoted
      /\ content # NoRule
  BY <1>1, RoutingRulesAssumption DEF CreateRule, Record
<1>3. /\ table' \in [RuleIds -> RuleRows \cup {NoRule}] /\ table'[r] = content
      /\ \A s \in RuleIds \ {r} : table'[s] = table[s]
  BY <1>1 DEF RulesInv, RuleTypes
<1>4. RuleTypes'
  BY <1>1, <1>2, <1>3 DEF RulesInv, RuleTypes, Existing
<1>5. HeldAsLoaded'
  BY <1>1, <1>2, <1>3 DEF RulesInv, RuleTypes, HeldAsLoaded
<1>6. SharedIsContended'
  BY <1>2 DEF RulesInv, SharedIsContended
<1>7. AuditTellsStory'
  BY <1>1, <1>2, <1>3 DEF RulesInv, RuleTypes, AuditTellsStory
<1>. QED  BY <1>4, <1>5, <1>6, <1>7 DEF RulesInv

(* Both loads. *)
LEMMA TakeStep ==
  ASSUME RulesInv, NEW e \in Editors, NEW edit \in UpdatesInHand \cup RemovalsInHand,
         Take(e, edit),
         edit.rule \in Existing(table), edit.before = table[edit.rule],
         edit.op = "update" => edit.patch.key \in Keys(table[edit.rule].type) \cup {Same},
         UNCHANGED <<table, used, ruleAudit>>
  PROVE  RulesInv'
<1>1. /\ table' = table /\ used' = used /\ told' = told /\ misquoted' = misquoted
      /\ edits[e] = Idle /\ edits'[e] = edit /\ \A d \in Editors \ {e} : edits'[d] = edits[d]
      /\ contended \subseteq contended' /\ edit.rule \in used
  BY DEF RulesInv, RuleTypes, Take, ruleAudit
<1>2. edit # Idle
  BY DEF Idle, UpdatesInHand, RemovalsInHand
<1>3. RuleTypes'
  BY <1>1 DEF RulesInv, RuleTypes, Take
<1>4. HeldAsLoaded'
  BY <1>1 DEF RulesInv, HeldAsLoaded
<1>5. SharedIsContended'
  <2>1. \A d \in Editors : edits[d] # Idle /\ edits[d].rule = edit.rule => edit.rule \in contended'
    BY DEF Take, Holders
  <2>. QED  BY <1>1, <2>1 DEF RulesInv, SharedIsContended
<1>6. AuditTellsStory'
  BY <1>1 DEF RulesInv, AuditTellsStory
<1>. QED  BY <1>3, <1>4, <1>5, <1>6 DEF RulesInv

LEMMA LoadRuleStep ==
  ASSUME RulesInv, NEW e \in Editors, LoadRule(e)
  PROVE  RulesInv'
<1>1. PICK r \in Existing(table), patch \in Patches :
        /\ patch.key \in Keys(table[r].type) \cup {Same}
        /\ Take(e, [op |-> "update", rule |-> r, patch |-> patch, before |-> table[r]])
  BY DEF LoadRule
<1> DEFINE edit == [op |-> "update", rule |-> r, patch |-> patch, before |-> table[r]]
<1>2. edit \in UpdatesInHand
  BY DEF RulesInv, RuleTypes, Existing, UpdatesInHand
<1>. QED  BY <1>1, <1>2, TakeStep DEF LoadRule

LEMMA LoadForRemovalStep ==
  ASSUME RulesInv, NEW e \in Editors, LoadForRemoval(e)
  PROVE  RulesInv'
<1>1. PICK r \in Existing(table) : Take(e, [op |-> "delete", rule |-> r, before |-> table[r]])
  BY DEF LoadForRemoval
<1> DEFINE edit == [op |-> "delete", rule |-> r, before |-> table[r]]
<1>2. edit \in RemovalsInHand
  BY DEF RulesInv, RuleTypes, Existing, RemovalsInHand
<1>. QED  BY <1>1, <1>2, TakeStep DEF LoadForRemoval

LEMMA CommitPatchRuleStep ==
  ASSUME RulesInv, NEW e \in Editors, CommitPatchRule(e)
  PROVE  RulesInv'
<1> DEFINE r == edits[e].rule
           new == Patched(table[r], Net(edits[e]))
<1>1. edits[e] \in UpdatesInHand /\ r \in used /\ r \in RuleIds
  BY DEF RulesInv, RuleTypes, HeldAsLoaded, CommitPatchRule, Idle, RemovalsInHand, UpdatesInHand
<1>2. /\ edits' = [edits EXCEPT ![e] = Idle] /\ used' = used /\ contended' = contended
      /\ told' = told
      /\ misquoted' = IF edits[e].before # table[r] THEN misquoted \cup {r} ELSE misquoted
      /\ table' = IF table[r] = NoRule THEN table ELSE [table EXCEPT ![r] = new]
  BY DEF CommitPatchRule, Record
<1>3. table[r] # NoRule => new \in RuleRows /\ new.type = table[r].type /\ new # NoRule
  <2>. SUFFICES ASSUME table[r] # NoRule
                PROVE  new \in RuleRows /\ new.type = table[r].type
    BY RoutingRulesAssumption
  <2>1. table[r] \in RuleRows
    BY <1>1 DEF RulesInv, RuleTypes
  <2>2. edits[e] # Idle /\ edits[e].op = "update"
    BY <1>1 DEF UpdatesInHand, Idle
  <2>3. /\ table[r].type = edits[e].before.type
        /\ edits[e].patch.key \in Keys(edits[e].before.type) \cup {Same}
    BY <2>2 DEF RulesInv, HeldAsLoaded
  <2>. QED  BY <1>1, <2>1, <2>3, PatchedRow
<1> HIDE DEF new
<1>4. /\ table' \in [RuleIds -> RuleRows \cup {NoRule}]
      /\ \A s \in RuleIds \ {r} : table'[s] = table[s]
      /\ table'[r] = NoRule <=> table[r] = NoRule
      /\ table[r] # NoRule => table'[r].type = table[r].type
  BY <1>1, <1>2, <1>3 DEF RulesInv, RuleTypes
<1>5. edits'[e] = Idle /\ \A d \in Editors \ {e} : edits'[d] = edits[d]
  BY <1>2 DEF RulesInv, RuleTypes
<1>6. \A d \in Editors \ {e} : edits[d] # Idle /\ edits[d].rule = r => r \in contended
  BY <1>1 DEF RulesInv, SharedIsContended, UpdatesInHand, Idle
<1>7. RuleTypes'
  BY <1>1, <1>2, <1>4 DEF RulesInv, RuleTypes, Existing
<1>8. HeldAsLoaded'
  <2>. SUFFICES ASSUME NEW d \in Editors \ {e}, edits[d] # Idle
                PROVE  /\ edits[d].rule \in used
                       /\ edits[d].op = "update" =>
                            /\ edits[d].patch.key \in Keys(edits[d].before.type) \cup {Same}
                            /\ table'[edits[d].rule] # NoRule =>
                                  table'[edits[d].rule].type = edits[d].before.type
                            /\ \/ edits[d].rule \in contended
                               \/ table'[edits[d].rule] = edits[d].before
    BY <1>2, <1>5 DEF HeldAsLoaded
  <2>1. edits[d].rule \in used /\ edits[d].rule \in RuleIds
    BY DEF RulesInv, RuleTypes, HeldAsLoaded
  <2>. QED  BY <1>4, <1>6, <2>1 DEF RulesInv, HeldAsLoaded
<1>9. SharedIsContended'
  BY <1>2, <1>5 DEF RulesInv, SharedIsContended
<1>10. AuditTellsStory'
  <2>1. edits[e].before = table[r] \/ r \in contended
    BY <1>1 DEF RulesInv, HeldAsLoaded, UpdatesInHand, Idle
  <2>. QED  BY <1>1, <1>2, <1>4, <2>1 DEF RulesInv, RuleTypes, AuditTellsStory
<1>. QED  BY <1>7, <1>8, <1>9, <1>10 DEF RulesInv

LEMMA CommitRemovalStep ==
  ASSUME RulesInv, NEW e \in Editors, CommitRemoval(e)
  PROVE  RulesInv'
<1> DEFINE r == edits[e].rule
<1>1. edits[e] \in RemovalsInHand /\ r \in used /\ r \in RuleIds /\ edits[e] # Idle
  BY DEF RulesInv, RuleTypes, HeldAsLoaded, CommitRemoval, Idle, RemovalsInHand, UpdatesInHand
<1>2. /\ edits' = [edits EXCEPT ![e] = Idle] /\ used' = used /\ contended' = contended
      /\ told' = told \cup {r} /\ misquoted' = misquoted /\ table' = [table EXCEPT ![r] = NoRule]
  BY DEF CommitRemoval, Record
<1>3. /\ table' \in [RuleIds -> RuleRows \cup {NoRule}] /\ table'[r] = NoRule
      /\ \A s \in RuleIds \ {r} : table'[s] = table[s]
  BY <1>1, <1>2 DEF RulesInv, RuleTypes
<1>4. edits'[e] = Idle /\ \A d \in Editors \ {e} : edits'[d] = edits[d]
  BY <1>2 DEF RulesInv, RuleTypes
<1>5. \A d \in Editors \ {e} : edits[d] # Idle /\ edits[d].rule = r => r \in contended
  BY <1>1 DEF RulesInv, SharedIsContended
<1>6. RuleTypes'
  BY <1>1, <1>2, <1>3 DEF RulesInv, RuleTypes, Existing
<1>7. HeldAsLoaded'
  <2>. SUFFICES ASSUME NEW d \in Editors \ {e}, edits[d] # Idle
                PROVE  /\ edits[d].rule \in used
                       /\ edits[d].op = "update" =>
                            /\ edits[d].patch.key \in Keys(edits[d].before.type) \cup {Same}
                            /\ table'[edits[d].rule] # NoRule =>
                                  table'[edits[d].rule].type = edits[d].before.type
                            /\ \/ edits[d].rule \in contended
                               \/ table'[edits[d].rule] = edits[d].before
    BY <1>2, <1>4 DEF HeldAsLoaded
  <2>1. edits[d].rule \in used /\ edits[d].rule \in RuleIds
    BY DEF RulesInv, RuleTypes, HeldAsLoaded
  <2>. QED  BY <1>3, <1>5, <2>1 DEF RulesInv, HeldAsLoaded
<1>8. SharedIsContended'
  BY <1>2, <1>4 DEF RulesInv, SharedIsContended
<1>9. AuditTellsStory'
  BY <1>1, <1>2, <1>3 DEF RulesInv, RuleTypes, AuditTellsStory
<1>. QED  BY <1>6, <1>7, <1>8, <1>9 DEF RulesInv

LEMMA RollbackEditStep ==
  ASSUME RulesInv, NEW e \in Editors, RollbackEdit(e)
  PROVE  RulesInv'
<1>1. /\ edits' = [edits EXCEPT ![e] = Idle]
      /\ table' = table /\ used' = used /\ contended' = contended
      /\ told' = told /\ misquoted' = misquoted
  BY DEF RollbackEdit, ruleAudit
<1>2. edits'[e] = Idle /\ \A d \in Editors \ {e} : edits'[d] = edits[d]
  BY <1>1 DEF RulesInv, RuleTypes
<1>. QED  BY <1>1, <1>2 DEF RulesInv, RuleTypes, HeldAsLoaded, SharedIsContended, AuditTellsStory

(* Reading changes no rule. *)
LEMMA ReadingStep ==
  ASSUME RulesInv, UNCHANGED <<table, used, ruleAudit, edits, contended>>
  PROVE  RulesInv'
  BY DEF ruleAudit, RulesInv, RuleTypes, HeldAsLoaded, SharedIsContended, AuditTellsStory

LEMMA NextKeepsRulesInv ==
  ASSUME RulesInv, [RulesNext]_ruleVars
  PROVE  RulesInv'
<1>1. CASE ReadTopics \/ ReadSeverities \/ EndReading \/ UNCHANGED ruleVars
  BY <1>1, ReadingStep DEF ReadTopics, ReadSeverities, EndReading, ruleVars
<1>. QED  BY <1>1, CreateRuleStep, LoadRuleStep, CommitPatchRuleStep, LoadForRemovalStep,
               CommitRemovalStep, RollbackEditStep DEF RulesNext

(***************************************************************************)
(* The inductive invariant of the rule table under its editors.             *)
(***************************************************************************)
THEOREM RulesInvariant == RulesSpec => []RulesInv
<1>1. RulesInit => RulesInv
  BY InitRulesInv
<1>2. RulesInv /\ [RulesNext]_ruleVars => RulesInv'
  BY NextKeepsRulesInv
<1>. QED  BY <1>1, <1>2, PTL DEF RulesSpec

(***************************************************************************)
(* append_routing_rule_audit: a rule is gone exactly if the log says it was  *)
(* deleted, and an update's "before" is what was there unless two requests  *)
(* had the rule in hand.                                                   *)
(***************************************************************************)
THEOREM AuditIsComplete == RulesSpec => []AuditTellsStory
<1>1. RulesInv => AuditTellsStory
  BY DEF RulesInv
<1>. QED  BY <1>1, RulesInvariant, PTL

(* Each commit between the two reads of node_route has its audit row, and    *)
(* what is contended is a rule.                                            *)
EditsCounted ==
    /\ auditRows \in 0..MaxEdits /\ between \in 0..auditRows /\ contended \subseteq used

LEMMA NextKeepsCount ==
  ASSUME RulesInv, EditsCounted, [RulesNext]_ruleVars
  PROVE  EditsCounted'
<1>0. MaxEdits \in Nat /\ auditRows \in Nat /\ between \in Nat /\ between <= auditRows
  BY RoutingRulesAssumption DEF EditsCounted
<1>1. ASSUME NEW op, NEW r, NEW before, Bounded, Record(op, r, before),
             used \subseteq used', UNCHANGED contended
      PROVE  EditsCounted'
  <2>1. auditRows' = auditRows + 1 /\ (between' = 0 \/ between' = between + 1)
    BY <1>1 DEF Record
  <2>. QED  BY <1>0, <1>1, <2>1 DEF EditsCounted, Bounded
<1>2. ASSUME NEW e, NEW edit, Take(e, edit), edit.rule \in Existing(table),
             UNCHANGED <<table, used, ruleAudit, reader, between>>
      PROVE  EditsCounted'
  <2>1. contended' \subseteq contended \cup {edit.rule} /\ edit.rule \in used
    BY <1>2 DEF Take, RulesInv, RuleTypes
  <2>. QED  BY <1>2, <2>1 DEF EditsCounted, ruleAudit
<1>3. ASSUME UNCHANGED <<used, ruleAudit, contended>>, UNCHANGED between \/ between' = 0
      PROVE  EditsCounted'
  BY <1>0, <1>3 DEF EditsCounted, ruleAudit
<1>4. ASSUME NEW e \in Editors, CreateRule(e)
      PROVE  EditsCounted'
  <2>1. PICK r \in RuleIds \ used : used' = used \cup {r} /\ Record("create", r, NoRule)
    BY <1>4 DEF CreateRule
  <2>. QED  BY <1>1, <1>4, <2>1 DEF CreateRule
<1>5. ASSUME NEW e \in Editors, LoadRule(e)
      PROVE  EditsCounted'
  <2>1. PICK r \in Existing(table), patch \in Patches :
           Take(e, [op |-> "update", rule |-> r, patch |-> patch, before |-> table[r]])
    BY <1>5 DEF LoadRule
  <2>. QED  BY <1>2, <1>5, <2>1 DEF LoadRule
<1>6. ASSUME NEW e \in Editors, LoadForRemoval(e)
      PROVE  EditsCounted'
  <2>1. PICK r \in Existing(table) : Take(e, [op |-> "delete", rule |-> r, before |-> table[r]])
    BY <1>6 DEF LoadForRemoval
  <2>. QED  BY <1>2, <1>6, <2>1 DEF LoadForRemoval
<1>7. ASSUME NEW e \in Editors, CommitPatchRule(e)
      PROVE  EditsCounted'
  BY <1>1, <1>7 DEF CommitPatchRule
<1>8. ASSUME NEW e \in Editors, CommitRemoval(e)
      PROVE  EditsCounted'
  BY <1>1, <1>8 DEF CommitRemoval
<1>9. ASSUME NEW e \in Editors, RollbackEdit(e)
      PROVE  EditsCounted'
  BY <1>3, <1>9 DEF RollbackEdit
<1>10. CASE ReadTopics \/ ReadSeverities \/ EndReading \/ UNCHANGED ruleVars
  BY <1>3, <1>10 DEF ReadTopics, ReadSeverities, EndReading, ruleVars
<1>. QED  BY <1>4, <1>5, <1>6, <1>7, <1>8, <1>9, <1>10 DEF RulesNext

(***************************************************************************)
(* The type invariant of the rule table, its audit rows, its editors and    *)
(* its reader.                                                             *)
(***************************************************************************)
THEOREM RulesTyped == RulesSpec => []RulesTypeOK
<1>1. RulesInit => EditsCounted
  BY RoutingRulesAssumption DEF RulesInit, EditsCounted
<1>2. RulesInv /\ EditsCounted => RulesTypeOK
  BY DEF RulesInv, RuleTypes, HeldAsLoaded, AuditTellsStory, EditsCounted, RulesTypeOK
<1>3. RulesInv /\ EditsCounted /\ [RulesNext]_ruleVars => EditsCounted'
  BY NextKeepsCount
<1>. QED  BY <1>1, <1>2, <1>3, RulesInvariant, PTL DEF RulesSpec
-----------------------------------------------------------------------------
(*--------------------------- Resolving a rule -----------------------------*)

Tables == [RuleIds -> RuleRows \cup {NoRule}]

(* Priority and id order the rows of a table.                               *)
LEMMA PrecedesOrders ==
  ASSUME NEW t \in Tables
  PROVE  /\ \A r \in Existing(t) : r \in RuleIds /\ t[r] \in RuleRows /\ ~ Precedes(t, r, r)
         /\ \A q, r, s \in Existing(t) :
               Precedes(t, q, r) /\ Precedes(t, r, s) => Precedes(t, q, s)
         /\ \A r, s \in Existing(t) : r # s => Precedes(t, r, s) \/ Precedes(t, s, r)
<1>1. \A r \in Existing(t) : r \in RuleIds /\ t[r] \in RuleRows
  BY DEF Existing, Tables
<1>2. \A r \in Existing(t) : r \in Nat /\ t[r].priority \in Nat
  BY <1>1, RoutingRulesAssumption DEF RuleRows
<1>. QED  BY <1>1, <1>2 DEF Precedes

(* The places of the rows are 1 to their number, in their order, and each is  *)
(* taken: a map into as many places that parts all rows leaves none free.   *)
LEMMA PlacesTaken ==
  ASSUME NEW t \in Tables, NEW ids \in SUBSET Existing(t)
  PROVE  /\ IsFiniteSet(ids) /\ Cardinality(ids) \in Nat
         /\ \A r \in ids : PlaceIn(t, ids, r) \in 1..Cardinality(ids)
         /\ \A r, s \in ids : Precedes(t, r, s) => PlaceIn(t, ids, r) < PlaceIn(t, ids, s)
         /\ \A k \in 1..Cardinality(ids) : \E r \in ids : PlaceIn(t, ids, r) = k
<1> DEFINE n == Cardinality(ids)
           Before(r) == {s \in ids : Precedes(t, s, r)}
           place == [r \in ids |-> PlaceIn(t, ids, r)]
<1>1. IsFiniteSet(ids) /\ n \in Nat
  <2>1. ids \in SUBSET RuleIds
    BY PrecedesOrders
  <2>. QED  BY <2>1, RoutingRulesAssumption, FS_Subset, FS_CardinalityType
<1>2. \A r \in ids : IsFiniteSet(Before(r)) /\ Cardinality(Before(r)) \in Nat
  BY <1>1, FS_Subset, FS_CardinalityType
<1>3. ASSUME NEW r \in ids
      PROVE  PlaceIn(t, ids, r) \in 1..n
  <2>1. Before(r) \in SUBSET (ids \ {r})
    BY PrecedesOrders
  <2>2. IsFiniteSet(ids \ {r}) /\ Cardinality(ids \ {r}) = n - 1
    BY <1>1, FS_RemoveElement
  <2> HIDE DEF n, Before
  <2>3. Cardinality(Before(r)) <= Cardinality(ids \ {r})
    BY <2>1, <2>2, FS_Subset
  <2>4. PlaceIn(t, ids, r) = 1 + Cardinality(Before(r))
    BY DEF PlaceIn, Before
  <2>5. Cardinality(Before(r)) \in Nat
    BY <1>2
  <2>. QED  BY <1>1, <2>2, <2>3, <2>4, <2>5
<1>4. ASSUME NEW r \in ids, NEW s \in ids, Precedes(t, r, s)
      PROVE  PlaceIn(t, ids, r) < PlaceIn(t, ids, s)
  <2>1. r \notin Before(r) /\ Before(r) \cup {r} \in SUBSET Before(s)
    BY <1>4, PrecedesOrders
  <2>2. Cardinality(Before(r) \cup {r}) = Cardinality(Before(r)) + 1
    BY <1>2, <2>1, FS_AddElement
  <2>3. Cardinality(Before(r) \cup {r}) <= Cardinality(Before(s))
    BY <1>2, <2>1, FS_Subset
  <2>. QED  BY <1>2, <2>2, <2>3 DEF PlaceIn
<1>5. place \in Surjection(ids, 1..n)
  <2>1. place \in [ids -> 1..n]
    BY <1>3
  <2>2. \A r, s \in ids : place[r] = place[s] => r = s
    <3>1. TAKE r, s \in ids
    <3>2. r # s => Precedes(t, r, s) \/ Precedes(t, s, r)
      BY PrecedesOrders
    <3>3. PlaceIn(t, ids, r) \in Nat /\ PlaceIn(t, ids, s) \in Nat
      BY <1>1, <1>3
    <3>. QED  BY <1>4, <3>2, <3>3
  <2>3. place \in Injection(ids, 1..n)
    BY <2>1, <2>2 DEF Injection, IsInjective
  <2>4. IsFiniteSet(1..n) /\ Cardinality(1..n) = n
    BY <1>1, FS_Interval
  <2>. QED  BY <1>1, <2>3, <2>4, FS_Injection
<1>6. \A k \in 1..n : \E r \in ids : PlaceIn(t, ids, r) = k
  BY <1>5 DEF Surjection
<1>. QED  BY <1>1, <1>3, <1>4, <1>6

(* A nonempty set of naturals has a least member.                           *)
LEMMA LeastRuleFirst ==
  ASSUME NEW S \in SUBSET Nat, S # {}
  PROVE  Min(S) \in S /\ \A k \in S : Min(S) <= k
<1> DEFINE less == {p \in Nat \X Nat : p[1] < p[2]}
<1>1. IsWellFoundedOn(less, Nat)
  BY NatLessThanWellFounded DEF OpToRel
<1>2. PICK k \in S : \A m \in S : ~ (<<m, k>> \in less)
  BY <1>1, WFMin
<1>3. \A m \in S : ~ (m < k)
  BY <1>2
<1>4. \A m \in S : k <= m
  BY <1>3
<1>. QED  BY <1>4 DEF Min

(* The ordered read lists every row of the type, each at its place.         *)
LEMMA RulesAreListed ==
  ASSUME NEW t \in Tables, NEW type
  PROVE  LET rules == RulesOrdered(t, type)
             ids == OfType(t, type)
         IN  /\ DOMAIN rules \in SUBSET Nat
             /\ \A k \in DOMAIN rules : \E r \in ids :
                   /\ PlaceIn(t, ids, r) = k
                   /\ rules[k].id = r /\ rules[k].key = t[r].key /\ rules[k].dest = t[r].dest
             /\ \A r \in ids : /\ PlaceIn(t, ids, r) \in DOMAIN rules
                               /\ rules[PlaceIn(t, ids, r)].id = r
                               /\ rules[PlaceIn(t, ids, r)].key = t[r].key
                               /\ rules[PlaceIn(t, ids, r)].dest = t[r].dest
             /\ \A r, s \in ids : Precedes(t, r, s) => PlaceIn(t, ids, r) < PlaceIn(t, ids, s)
<1> DEFINE ids == OfType(t, type)
           rules == RulesOrdered(t, type)
           n == Cardinality(ids)
           at(k) == CHOOSE r \in ids : PlaceIn(t, ids, r) = k
<1>1. ids \in SUBSET Existing(t)
  BY DEF OfType
<1>2. /\ n \in Nat
      /\ \A r \in ids : PlaceIn(t, ids, r) \in 1..n
      /\ \A r, s \in ids : Precedes(t, r, s) => PlaceIn(t, ids, r) < PlaceIn(t, ids, s)
      /\ \A k \in 1..n : \E r \in ids : PlaceIn(t, ids, r) = k
  <2> HIDE DEF ids
  <2>. QED  BY <1>1, PlacesTaken
<1>3. rules = [k \in 1..n |-> [id |-> at(k), key |-> t[at(k)].key, dest |-> t[at(k)].dest] ]
  BY DEF RulesOrdered
<1> HIDE DEF rules, ids, n
<1>4. \A k \in 1..n : at(k) \in ids /\ PlaceIn(t, ids, at(k)) = k
  BY <1>2
<1>5. \A r, s \in ids : PlaceIn(t, ids, r) = PlaceIn(t, ids, s) => r = s
  <2>1. TAKE r, s \in ids
  <2>2. r # s => Precedes(t, r, s) \/ Precedes(t, s, r)
    BY <1>1, PrecedesOrders
  <2>3. PlaceIn(t, ids, r) \in Nat /\ PlaceIn(t, ids, s) \in Nat
    BY <1>2
  <2>. QED  BY <1>2, <2>2, <2>3
<1>6. \A r \in ids : at(PlaceIn(t, ids, r)) = r
  BY <1>2, <1>4, <1>5
<1> HIDE DEF at
<1>7. /\ DOMAIN rules = 1..n
      /\ \A k \in 1..n : rules[k].id = at(k) /\ rules[k].key = t[at(k)].key
                           /\ rules[k].dest = t[at(k)].dest
  BY <1>3
<1>8. \A k \in DOMAIN rules : \E r \in ids :
         /\ PlaceIn(t, ids, r) = k
         /\ rules[k].id = r /\ rules[k].key = t[r].key /\ rules[k].dest = t[r].dest
  BY <1>4, <1>7
<1>9. \A r \in ids : /\ PlaceIn(t, ids, r) \in DOMAIN rules
                     /\ rules[PlaceIn(t, ids, r)].id = r
                     /\ rules[PlaceIn(t, ids, r)].key = t[r].key
                     /\ rules[PlaceIn(t, ids, r)].dest = t[r].dest
  BY <1>2, <1>6, <1>7
<1>10. DOMAIN rules \in SUBSET Nat
  BY <1>2, <1>7
<1>. QED  BY <1>2, <1>8, <1>9, <1>10 DEF rules, ids

(* The first match of the ordered rules is the rule that wins.              *)
LEMMA FirstMatchWins ==
  ASSUME NEW t \in Tables, NEW type, NEW keys
  PROVE  LET m == FirstMatch(RulesOrdered(t, type), keys)
         IN  /\ Wins(t, type, keys, m.id)
             /\ m.id # NoRule => m.dest = t[m.id].dest
<1> DEFINE rules == RulesOrdered(t, type)
           ids == OfType(t, type)
           hits == {k \in DOMAIN rules : rules[k].key \in keys}
           winners == {r \in ids : t[r].key \in keys}
<1>1. ids \in SUBSET Existing(t) /\ \A r \in ids : r \in RuleIds
  BY PrecedesOrders DEF OfType
<1>2. /\ DOMAIN rules \in SUBSET Nat
      /\ \A k \in DOMAIN rules : \E r \in ids :
            /\ PlaceIn(t, ids, r) = k
            /\ rules[k].id = r /\ rules[k].key = t[r].key /\ rules[k].dest = t[r].dest
      /\ \A r \in ids : /\ PlaceIn(t, ids, r) \in DOMAIN rules
                        /\ rules[PlaceIn(t, ids, r)].id = r
                        /\ rules[PlaceIn(t, ids, r)].key = t[r].key
                        /\ rules[PlaceIn(t, ids, r)].dest = t[r].dest
      /\ \A r, s \in ids : Precedes(t, r, s) => PlaceIn(t, ids, r) < PlaceIn(t, ids, s)
  BY RulesAreListed
<1>3. /\ FirstMatch(rules, keys) = IF hits = {} THEN [id |-> NoRule] ELSE rules[Min(hits)]
      /\ \A r : Wins(t, type, keys, r) <=>
            IF winners = {} THEN r = NoRule
            ELSE r \in winners /\ \A s \in winners \ {r} : Precedes(t, r, s)
  BY DEF FirstMatch, Wins
<1> HIDE DEF rules, ids
<1>4. CASE hits = {}
  <2>1. winners = {}
    BY <1>2, <1>4
  <2>. QED  BY <1>3, <1>4, <2>1 DEF rules
<1>5. CASE hits # {}
  <2>1. Min(hits) \in hits /\ \A k \in hits : Min(hits) <= k
    <3> HIDE DEF hits
    <3>1. hits \in SUBSET Nat
      BY <1>2 DEF hits
    <3>. QED  BY <1>5, <3>1, LeastRuleFirst
  <2>2. PICK r \in ids : /\ PlaceIn(t, ids, r) = Min(hits)
                         /\ rules[Min(hits)].id = r /\ rules[Min(hits)].key = t[r].key
                         /\ rules[Min(hits)].dest = t[r].dest
    BY <1>2, <2>1
  <2>3. r \in winners
    BY <2>1, <2>2
  <2>4. ASSUME NEW s \in winners, s # r
        PROVE  Precedes(t, r, s)
    <3>1. PlaceIn(t, ids, s) \in hits
      BY <1>2, <2>4
    <3>2. ~ (PlaceIn(t, ids, s) < PlaceIn(t, ids, r))
      <4> HIDE DEF hits
      <4>1. /\ PlaceIn(t, ids, s) \in Nat /\ PlaceIn(t, ids, r) \in Nat
            /\ PlaceIn(t, ids, r) <= PlaceIn(t, ids, s)
        BY <1>2, <2>1, <2>2, <3>1, <2>4
      <4>. QED  BY <4>1
    <3>3. ~ Precedes(t, s, r)
      BY <1>2, <2>4, <3>2
    <3>. QED  BY <1>1, <2>4, <3>3, PrecedesOrders
  <2>5. FirstMatch(rules, keys) = rules[Min(hits)] /\ winners # {}
    BY <1>3, <1>5, <2>3
  <2>. QED  BY <1>3, <2>2, <2>3, <2>4, <2>5 DEF rules
<1>. QED  BY <1>4, <1>5

(* A severity rule's key is a severity, so that asking for none finds none.   *)
LEMMA NoSeverityMatchesNone ==
  ASSUME NEW t \in Tables, NEW severity, NEW r
  PROVE  Wins(t, "severity", {severity} \ {NoSeverity}, r)
            <=> Wins(t, "severity", {severity}, r)
<1>1. \A s \in OfType(t, "severity") : t[s].key \in Severities
  BY PrecedesOrders DEF OfType, RuleRows
<1>2. {s \in OfType(t, "severity") : t[s].key \in {severity} \ {NoSeverity}}
        = {s \in OfType(t, "severity") : t[s].key \in {severity}}
  BY <1>1, RoutingRulesAssumption
<1>. QED  BY <1>2 DEF Wins

(* resolve_routing_decision, given the two reads of one table.              *)
LEMMA ResolveExplains ==
  ASSUME NEW t \in Tables, NEW cls \in Classifications
  PROVE  Explains(t, cls, Resolve(cls, RulesOrdered(t, "topic"), RulesOrdered(t, "severity")))
<1> DEFINE topic == FirstMatch(RulesOrdered(t, "topic"), cls.categories)
           severe == FirstMatch(RulesOrdered(t, "severity"), {cls.severity} \ {NoSeverity})
           d == Resolve(cls, RulesOrdered(t, "topic"), RulesOrdered(t, "severity"))
<1>1. /\ Wins(t, "topic", cls.categories, topic.id)
      /\ topic.id # NoRule => topic.dest = t[topic.id].dest
  BY FirstMatchWins
<1>2. /\ Wins(t, "severity", {cls.severity} \ {NoSeverity}, severe.id)
      /\ severe.id # NoRule => severe.dest = t[severe.id].dest
  BY FirstMatchWins
<1>3. Wins(t, "severity", {cls.severity}, severe.id)
  BY <1>2, NoSeverityMatchesNone
<1>4. d = IF ~ cls.in_scope THEN Unmatched("out_of_scope")
          ELSE IF topic.id = NoRule /\ severe.id = NoRule
            THEN Unmatched(IF cls.severity = NoSeverity /\ cls.categories = {}
                             THEN "no_severity_or_categories" ELSE "no_rule_matched")
            ELSE [matched |-> TRUE,
                  team |-> IF topic.id # NoRule THEN topic.dest ELSE severe.dest,
                  channel |-> IF severe.id # NoRule THEN severe.dest ELSE topic.dest,
                  topic |-> topic.id, severityRule |-> severe.id, reason |-> "none"]
  BY DEF Resolve
<1> HIDE DEF d, topic, severe
<1>5. CASE ~ cls.in_scope
  BY <1>4, <1>5 DEF Explains, d
<1>6. CASE cls.in_scope /\ topic.id = NoRule /\ severe.id = NoRule
  <2>1. d.matched = FALSE /\ d.topic = NoRule /\ d.severityRule = NoRule
    BY <1>4, <1>6 DEF Unmatched
  <2>. QED  BY <1>1, <1>3, <1>6, <2>1 DEF Explains, d
<1>7. CASE cls.in_scope /\ ~ (topic.id = NoRule /\ severe.id = NoRule)
  <2>1. /\ d.matched = TRUE /\ d.topic = topic.id /\ d.severityRule = severe.id
        /\ d.team = IF topic.id # NoRule THEN topic.dest ELSE severe.dest
        /\ d.channel = IF severe.id # NoRule THEN severe.dest ELSE topic.dest
    BY <1>4, <1>7
  <2>. QED  BY <1>1, <1>2, <1>3, <1>7, <2>1 DEF Explains, d
<1>. QED  BY <1>5, <1>6, <1>7

(* The two tables differ in one rule at most, and not in its type.          *)
OneApart(a, b) ==
    \E r \in RuleIds : /\ \A s \in RuleIds \ {r} : a[s] = b[s]
                       /\ a[r] # NoRule /\ b[r] # NoRule => a[r].type = b[r].type

(* A read sees the rows of its type only.                                   *)
LEMMA ReadOfSameRows ==
  ASSUME NEW a \in Tables, NEW b \in Tables, NEW type,
         OfType(a, type) = OfType(b, type), \A r \in OfType(a, type) : a[r] = b[r]
  PROVE  RulesOrdered(a, type) = RulesOrdered(b, type)
<1> DEFINE ids == OfType(a, type)
<1>1. \A r, s \in ids : Precedes(a, r, s) <=> Precedes(b, r, s)
  BY DEF Precedes
<1>2. \A r \in ids : PlaceIn(a, ids, r) = PlaceIn(b, ids, r)
  <2>1. \A r \in ids : {s \in ids : Precedes(a, s, r)} = {s \in ids : Precedes(b, s, r)}
    BY <1>1
  <2>. QED  BY <2>1 DEF PlaceIn
<1> DEFINE n == Cardinality(ids)
           at(t, k) == CHOOSE r \in ids : PlaceIn(t, ids, r) = k
<1>3. /\ RulesOrdered(a, type) = [k \in 1..n |->
            [id |-> at(a, k), key |-> a[at(a, k)].key, dest |-> a[at(a, k)].dest] ]
      /\ RulesOrdered(b, type) = [k \in 1..n |->
            [id |-> at(b, k), key |-> b[at(b, k)].key, dest |-> b[at(b, k)].dest] ]
  BY DEF RulesOrdered
<1>4. \A k \in 1..n : at(a, k) = at(b, k) /\ at(a, k) \in ids
  <2>1. TAKE k \in 1..n
  <2>2. \E r \in ids : PlaceIn(a, ids, r) = k
    <3>1. ids \in SUBSET Existing(a)
      BY DEF OfType
    <3> HIDE DEF ids
    <3>. QED  BY <3>1, PlacesTaken
  <2> HIDE DEF ids
  <2>3. at(a, k) \in ids
    BY <2>2
  <2>4. \A r : (r \in ids /\ PlaceIn(a, ids, r) = k) <=> (r \in ids /\ PlaceIn(b, ids, r) = k)
    BY <1>2
  <2>5. at(a, k) = at(b, k)
    BY <2>4
  <2>. QED  BY <2>3, <2>5
<1>5. \A k \in 1..n : /\ at(a, k) = at(b, k)
                      /\ a[at(a, k)].key = b[at(b, k)].key
                      /\ a[at(a, k)].dest = b[at(b, k)].dest
  BY <1>4
<1> HIDE DEF at, n, ids
<1>. QED  BY <1>3, <1>5

(* Of two tables one rule apart, one is what both reads have seen.          *)
LEMMA OneReadOrTheOther ==
  ASSUME NEW a \in Tables, NEW b \in Tables, OneApart(a, b)
  PROVE  \/ RulesOrdered(a, "topic") = RulesOrdered(b, "topic")
         \/ RulesOrdered(a, "severity") = RulesOrdered(b, "severity")
<1>1. PICK r \in RuleIds : /\ \A s \in RuleIds \ {r} : a[s] = b[s]
                           /\ a[r] # NoRule /\ b[r] # NoRule => a[r].type = b[r].type
  BY DEF OneApart
<1>2. ASSUME NEW type, a[r] # NoRule => a[r].type # type, b[r] # NoRule => b[r].type # type
      PROVE  RulesOrdered(a, type) = RulesOrdered(b, type)
  <2>1. /\ OfType(a, type) = OfType(b, type)
        /\ \A s \in OfType(a, type) : s \in RuleIds \ {r}
    BY <1>1, <1>2 DEF OfType, Existing, Tables
  <2>. QED  BY <1>1, <2>1, ReadOfSameRows
<1>3. \/ (a[r] # NoRule => a[r].type # "topic") /\ (b[r] # NoRule => b[r].type # "topic")
      \/ (a[r] # NoRule => a[r].type # "severity") /\ (b[r] # NoRule => b[r].type # "severity")
  BY <1>1
<1>. QED  BY <1>2, <1>3

(***************************************************************************)
(* What node_route has read of the topics is the table it began with, and   *)
(* that one is the table, or one rule apart from it after one commit.       *)
(***************************************************************************)
ReaderInv ==
    /\ between \in Nat
    /\ reader.phase = "topics" =>
         /\ reader.start \in Tables /\ reader.topics = RulesOrdered(reader.start, "topic")
         /\ between = 0 => table = reader.start
         /\ between = 1 => OneApart(reader.start, table)

(* A commit changes one rule at most, keeps its type, and counts.           *)
LEMMA CommitWhileReading ==
  ASSUME RulesInv, ReaderInv, OneApart(table, table'), reader' = reader,
         between' = IF reader = NotReading THEN 0 ELSE between + 1
  PROVE  ReaderInv'
<1>1. between' \in Nat
  BY DEF ReaderInv
<1>2. ASSUME reader.phase = "topics"
      PROVE  /\ reader.start \in Tables /\ reader.topics = RulesOrdered(reader.start, "topic")
             /\ between' # 0 /\ (between' = 1 => OneApart(reader.start, table'))
  <2>1. between' = between + 1
    BY <1>2 DEF NotReading
  <2>. QED  BY <1>2, <2>1 DEF ReaderInv
<1>. QED  BY <1>1, <1>2 DEF ReaderInv

LEMMA CommitIsOneApart ==
  ASSUME RulesInv, NEW e \in Editors,
         CreateRule(e) \/ CommitPatchRule(e) \/ CommitRemoval(e)
  PROVE  OneApart(table, table')
<1>1. table \in [RuleIds -> RuleRows \cup {NoRule}] /\ used \in SUBSET RuleIds
      /\ \A r \in RuleIds : table[r] # NoRule => r \in used
  BY DEF RulesInv, RuleTypes, Existing
<1>2. CASE CreateRule(e)
  <2>1. PICK r \in RuleIds \ used, content \in RuleRows : table' = [table EXCEPT ![r] = content]
    BY <1>2 DEF CreateRule
  <2>2. table[r] = NoRule /\ \A s \in RuleIds \ {r} : table'[s] = table[s]
    BY <1>1, <2>1
  <2>. QED  BY <2>2 DEF OneApart
<1>3. CASE CommitPatchRule(e)
  <2> DEFINE r == edits[e].rule
             new == Patched(table[r], Net(edits[e]))
  <2>1. edits[e] \in UpdatesInHand /\ r \in RuleIds
    BY <1>3 DEF RulesInv, RuleTypes, HeldAsLoaded, CommitPatchRule, Idle, RemovalsInHand,
                UpdatesInHand
  <2>2. table' = IF table[r] = NoRule THEN table ELSE [table EXCEPT ![r] = new]
    BY <1>3 DEF CommitPatchRule
  <2>3. table[r] # NoRule => new.type = table[r].type
    <3>. SUFFICES ASSUME table[r] # NoRule
                  PROVE  new.type = table[r].type
      OBVIOUS
    <3>1. table[r] \in RuleRows
      BY <1>1, <2>1
    <3>2. edits[e] # Idle /\ edits[e].op = "update"
      BY <2>1 DEF UpdatesInHand, Idle
    <3>3. /\ table[r].type = edits[e].before.type
          /\ edits[e].patch.key \in Keys(edits[e].before.type) \cup {Same}
      BY <3>2 DEF RulesInv, HeldAsLoaded
    <3>. QED  BY <2>1, <3>1, <3>3, PatchedRow
  <2> HIDE DEF new
  <2>4. /\ \A s \in RuleIds \ {r} : table[s] = table'[s]
        /\ table[r] # NoRule => table[r].type = table'[r].type
    BY <1>1, <2>1, <2>2, <2>3
  <2>. QED  BY <2>1, <2>4 DEF OneApart
<1>4. CASE CommitRemoval(e)
  <2>1. edits[e].rule \in RuleIds
    BY <1>4 DEF RulesInv, RuleTypes, HeldAsLoaded, CommitRemoval, Idle, RemovalsInHand,
                UpdatesInHand
  <2>2. /\ \A s \in RuleIds \ {edits[e].rule} : table[s] = table'[s]
        /\ table'[edits[e].rule] = NoRule
    BY <1>1, <1>4, <2>1 DEF CommitRemoval
  <2>. QED  BY <2>1, <2>2 DEF OneApart
<1>. QED  BY <1>2, <1>3, <1>4

LEMMA NextKeepsReaderInv ==
  ASSUME RulesInv, ReaderInv, [RulesNext]_ruleVars
  PROVE  ReaderInv'
<1>1. ASSUME UNCHANGED <<table, reader, between>>
      PROVE  ReaderInv'
  BY <1>1 DEF ReaderInv
<1>2. ASSUME NEW e \in Editors, CreateRule(e) \/ CommitPatchRule(e) \/ CommitRemoval(e)
      PROVE  ReaderInv'
  <2>1. reader' = reader /\ between' = IF reader = NotReading THEN 0 ELSE between + 1
    BY <1>2 DEF CreateRule, CommitPatchRule, CommitRemoval, Record
  <2>. QED  BY <1>2, <2>1, CommitIsOneApart, CommitWhileReading
<1>3. ASSUME NEW e \in Editors, LoadRule(e) \/ LoadForRemoval(e) \/ RollbackEdit(e)
      PROVE  ReaderInv'
  BY <1>1, <1>3 DEF LoadRule, LoadForRemoval, RollbackEdit
<1>4. CASE ReadTopics
  <2>1. /\ reader'.phase = "topics" /\ reader'.start = table /\ table' = table /\ between' = 0
        /\ reader'.topics = RulesOrdered(table, "topic")
    BY <1>4 DEF ReadTopics
  <2>2. table \in Tables
    BY DEF RulesInv, RuleTypes, Tables
  <2>. QED  BY <2>1, <2>2 DEF ReaderInv
<1>5. CASE ReadSeverities
  <2>1. reader'.phase = "decided" /\ between' = between
    BY <1>5 DEF ReadSeverities
  <2>. QED  BY <2>1 DEF ReaderInv
<1>6. CASE EndReading
  BY <1>6 DEF EndReading, NotReading, ReaderInv
<1>7. CASE UNCHANGED ruleVars
  BY <1>1, <1>7 DEF ruleVars
<1>. QED  BY <1>2, <1>3, <1>4, <1>5, <1>6, <1>7 DEF RulesNext

LEMMA StepIsDecidedByOneTable ==
  ASSUME RulesInv, ReaderInv, [RulesNext]_ruleVars
  PROVE  DecidedByOneTable
<1>1. SUFFICES ASSUME Deciding, between <= 1, NEW cls \in Classifications
               PROVE  \E rules \in {reader.start, table} :
                         Explains(rules, cls, reader'.decisions[cls])
  BY DEF DecidedByOneTable
<1>2. ReadSeverities
  <2>1. reader.phase = "topics" /\ reader'.phase = "decided"
    BY <1>1 DEF Deciding
  <2>. QED  BY <2>1 DEF RulesNext, ruleVars, CreateRule, LoadRule, CommitPatchRule,
              LoadForRemoval, CommitRemoval, RollbackEdit, ReadTopics, EndReading
<1>3. /\ reader.start \in Tables /\ table \in Tables
      /\ reader.topics = RulesOrdered(reader.start, "topic")
      /\ table = reader.start \/ OneApart(reader.start, table)
  BY <1>1 DEF Deciding, ReaderInv, RulesInv, RuleTypes, Tables
<1>4. reader'.decisions[cls] = Resolve(cls, RulesOrdered(reader.start, "topic"),
                                       RulesOrdered(table, "severity"))
  BY <1>2, <1>3 DEF ReadSeverities
<1>5. CASE RulesOrdered(reader.start, "topic") = RulesOrdered(table, "topic")
  BY <1>3, <1>4, <1>5, ResolveExplains
<1>6. CASE RulesOrdered(reader.start, "severity") = RulesOrdered(table, "severity")
  BY <1>3, <1>4, <1>6, ResolveExplains
<1>. QED  BY <1>3, <1>5, <1>6, OneReadOrTheOther

(***************************************************************************)
(* node_route's two reads and resolve_routing_decision: what routes a        *)
(* classification is one state of the table, unless two changes or more     *)
(* commit between the reads.                                                *)
(***************************************************************************)
THEOREM OneTableRoutes == RulesSpec => OneTableDecides
<1>1. RulesInit => ReaderInv
  BY DEF RulesInit, NotReading, ReaderInv
<1>2. RulesInv /\ ReaderInv /\ [RulesNext]_ruleVars => ReaderInv'
  BY NextKeepsReaderInv
<1>3. RulesInv /\ ReaderInv /\ [RulesNext]_ruleVars => DecidedByOneTable
  BY StepIsDecidedByOneTable
<1>. QED  BY <1>1, <1>2, <1>3, RulesInvariant, PTL DEF RulesSpec, OneTableDecides
-----------------------------------------------------------------------------
(***************************************************************************)
(* The type invariant of the admins' two tables, side by side.              *)
(***************************************************************************)
THEOREM AdminTyped == AdminSpec => []TypeOK
<1>1. SourcesTypeOK /\ RulesTypeOK => TypeOK
  BY DEF TypeOK
<1>. QED  BY <1>1, SourcesTyped, RulesTyped, PTL DEF AdminSpec
=============================================================================
