----------------------------- MODULE ReviewResume -----------------------------
(***************************************************************************)
(* Human review of one run: the graph's pause at human_review_gate          *)
(* (graph/graph.py, graph/nodes/human_review_gate.py,                       *)
(* graph/pipeline_review.py), the review-queue row that lists it, and the    *)
(* POST /runs/{run_id}/resume handler (api/routes/runs.py) that resumes it.  *)
(*                                                                         *)
(* The checkpoint and the queue row are two stores written in separate      *)
(* transactions, and nothing serialises resume requests: every request that *)
(* saw the row and the interrupt runs the rest of the graph by itself, from *)
(* the checkpoint it loaded, and saves its own checkpoints over it.         *)
(***************************************************************************)
EXTENDS Naturals, FiniteSets

CONSTANTS
    Requests,    \* resume requests
    Pipeline,    \* the background invocation that starts the run
    Decisions,   \* approve, reject, override
    None,
    Savers,      \* PIPELINE_CHECKPOINTER values to consider
    MaxFaults    \* bound: failures, timeouts and crashes in a behaviour

ASSUME PipelineAssumption == Pipeline \notin Requests
ASSUME NoneAssumption == None \notin Decisions
ASSUME MaxFaultsAssumption == MaxFaults \in Nat

Executions == Requests \cup {Pipeline}

VARIABLES
    saver,      \* "postgres", or "memory", which a restart empties
    ckpt,       \* the thread's latest checkpoint: next node, interrupt, decision
    row,        \* the run has a review_queue_items row
    reported,   \* HUMAN_REVIEW_QUEUE_PROJECTION_FAILED is in audit_events
    pc,         \* [Executions -> its place in the handler or the graph]
    decision,   \* [Requests -> the body's decision]
    local,      \* [Executions -> the decision in the state its graph carries]
    audits,     \* [Requests -> the decision it recorded in audit_events]
    routed,     \* <<execution, decision>> of every run of node_route
    overlap,    \* two requests were in progress at once
    faults

vars == <<saver, ckpt, row, reported, pc, decision, local, audits, routed, overlap, faults>>

Nodes == {"classify", "gate", "brief", "route"}
MaybeDecision == Decisions \cup {None}
Checkpoints == [next : Nodes \cup {"end"}, waiting : BOOLEAN, decision : MaybeDecision]
Lost == [next |-> "end", waiting |-> FALSE, decision |-> None]

TypeOK ==
    /\ saver \in Savers
    /\ ckpt \in Checkpoints
    /\ row \in BOOLEAN /\ reported \in BOOLEAN /\ overlap \in BOOLEAN
    /\ pc \in [Executions -> Nodes \cup {"idle", "listed", "invoke", "projected", "after",
                                          "finish", "keep", "deleted", "missing", "done"}]
    /\ decision \in [Requests -> MaybeDecision]
    /\ local \in [Executions -> MaybeDecision]
    /\ audits \in [Requests -> MaybeDecision]
    /\ routed \subseteq Executions \X MaybeDecision
    /\ faults \in 0..MaxFaults

Init ==
    /\ saver \in Savers
    /\ ckpt = [next |-> "classify", waiting |-> FALSE, decision |-> None]
    /\ row = FALSE /\ reported = FALSE /\ overlap = FALSE
    /\ pc = [e \in Executions |-> IF e = Pipeline THEN "classify" ELSE "idle"]
    /\ decision = [r \in Requests |-> None]
    /\ local = [e \in Executions |-> None]
    /\ audits = [r \in Requests |-> None]
    /\ routed = {}
    /\ faults = 0

Ended == {"idle", "deleted", "missing", "done"}
Running(e) == pc[e] \notin Ended
Goto(e, place) == pc' = [pc EXCEPT ![e] = place]
Fault == faults < MaxFaults /\ faults' = faults + 1

(* A superstep ends: the execution's state becomes the latest checkpoint.   *)
Save(e, next) ==
    ckpt' = [next |-> next, waiting |-> FALSE, decision |-> local'[e]]
-----------------------------------------------------------------------------
(* The graph's nodes, run by any execution.                                 *)

Classify(e) ==
    /\ pc[e] = "classify"
    /\ UNCHANGED local
    /\ \E needsReview \in BOOLEAN :
          LET next == IF needsReview THEN "gate" ELSE "brief"
          IN  Goto(e, next) /\ Save(e, next)
    /\ UNCHANGED <<saver, row, reported, decision, audits, routed, overlap, faults>>

(* The gate always starts by upserting the queue row: on the way to the     *)
(* interrupt and again whenever a resume executes the node from the top.    *)
GateProjects(e) ==
    /\ pc[e] = "gate"
    /\ row' = TRUE
    /\ Goto(e, "projected")
    /\ UNCHANGED <<saver, ckpt, reported, decision, local, audits, routed, overlap, faults>>

(* The upsert raises: an audit row is written instead, unless that raises   *)
(* too, and the gate goes on to the interrupt either way.                  *)
GateProjectionFails(e) ==
    /\ pc[e] = "gate"
    /\ \/ Fault /\ reported' = TRUE
       \/ faults + 2 <= MaxFaults /\ faults' = faults + 2 /\ UNCHANGED reported
    /\ Goto(e, "projected")
    /\ UNCHANGED <<saver, ckpt, row, decision, local, audits, routed, overlap>>

GateInterrupts ==
    /\ pc[Pipeline] = "projected"
    /\ ckpt' = [ckpt EXCEPT !.waiting = TRUE]
    /\ Goto(Pipeline, "done")
    /\ UNCHANGED <<saver, row, reported, decision, local, audits, routed, overlap, faults>>

(* interrupt() returns the resume payload; apply_human_review_resume.       *)
GateResumes(r) ==
    /\ pc[r] = "projected"
    /\ local' = [local EXCEPT ![r] = decision[r]]
    /\ Save(r, "brief")
    /\ Goto(r, "brief")
    /\ UNCHANGED <<saver, row, reported, decision, audits, routed, overlap, faults>>

Brief(e) ==
    /\ pc[e] = "brief"
    /\ UNCHANGED local
    /\ Save(e, "route")
    /\ Goto(e, "route")
    /\ UNCHANGED <<saver, row, reported, decision, audits, routed, overlap, faults>>

Route(e) ==
    /\ pc[e] = "route"
    /\ UNCHANGED local
    /\ Save(e, "end")
    /\ routed' = routed \cup {<<e, local[e]>>}
    /\ Goto(e, IF e = Pipeline THEN "done" ELSE "after")
    /\ UNCHANGED <<saver, row, reported, decision, audits, overlap, faults>>
-----------------------------------------------------------------------------
(* The handler.                                                             *)

(* get_pending_by_run_id; without a row the request is a 404.               *)
FindRow(r) ==
    /\ pc[r] = "idle"
    /\ row
    /\ \E d \in Decisions : decision' = [decision EXCEPT ![r] = d]
    /\ overlap' = (overlap \/ \E q \in Requests : Running(q))
    /\ Goto(r, "listed")
    /\ UNCHANGED <<saver, ckpt, row, reported, local, audits, routed, faults>>

(* MUTANT of FindInterrupt: the row is taken off the queue up front. *)
FindInterruptAndTakeRow(r) ==
    /\ pc[r] = "listed"
    /\ Goto(r, IF ckpt.waiting THEN "invoke" ELSE "done")
    /\ row' = (row /\ ~ ckpt.waiting)
    /\ UNCHANGED <<saver, ckpt, reported, decision, local, audits, routed, overlap, faults>>

(* aget_state: without a pending interrupt the request is a 404.            *)
FindInterrupt(r) ==
    /\ pc[r] = "listed"
    /\ Goto(r, IF ckpt.waiting THEN "invoke" ELSE "done")
    /\ UNCHANGED <<saver, ckpt, row, reported, decision, local, audits, routed, overlap, faults>>

(* Where ainvoke(Command(resume)) takes up the thread: at the interrupted    *)
(* gate, or at whatever another execution has left to do.                  *)
Resumption(c) == IF c.next = "end" THEN "after" ELSE c.next

(* MUTANT of Invoke: the decision is audited before it is applied. *)
AuditThenInvoke(r) ==
    /\ pc[r] = "invoke"
    /\ Goto(r, Resumption(ckpt))
    /\ local' = [local EXCEPT ![r] = ckpt.decision]
    /\ audits' = [audits EXCEPT ![r] = decision[r]]
    /\ UNCHANGED <<saver, ckpt, row, reported, decision, routed, overlap, faults>>

Invoke(r) ==
    /\ pc[r] = "invoke"
    /\ Goto(r, Resumption(ckpt))
    /\ local' = [local EXCEPT ![r] = ckpt.decision]
    /\ UNCHANGED <<saver, ckpt, row, reported, decision, audits, routed, overlap, faults>>

(* The second aget_state. *)
CheckAfter(r) ==
    /\ pc[r] = "after"
    /\ Goto(r, IF ckpt.waiting THEN "keep" ELSE "finish")
    /\ UNCHANGED <<saver, ckpt, row, reported, decision, local, audits, routed, overlap, faults>>

(* MUTANT of Finish: a run that is audited already is left alone. *)
FinishFirstOnly(r) ==
    /\ pc[r] \in {"finish", "keep"}
    /\ audits' = [audits EXCEPT ![r] = decision[r]]
    /\ row' = (row /\ (pc[r] = "keep" \/ \E q \in Requests : audits[q] # None))
    /\ Goto(r, IF pc[r] = "finish" THEN "deleted" ELSE "done")
    /\ UNCHANGED <<saver, ckpt, reported, decision, local, routed, overlap, faults>>

(* MUTANT of Finish: the queue row is left for somebody else to delete. *)
FinishKeepsRow(r) ==
    /\ pc[r] \in {"finish", "keep"}
    /\ audits' = [audits EXCEPT ![r] = decision[r]]
    /\ Goto(r, "deleted")
    /\ UNCHANGED <<saver, ckpt, row, reported, decision, local, routed, overlap, faults>>

(* One transaction: the audit row and, unless the graph paused again, the   *)
(* queue row.  delete_pending_by_run_id asks session.get for the row, which *)
(* answers from the session's identity map: the object FindRow loaded, even *)
(* if its row is gone by now.  The result is therefore always "deleted".   *)
Finish(r) ==
    /\ pc[r] \in {"finish", "keep"}
    /\ audits' = [audits EXCEPT ![r] = decision[r]]
    /\ row' = (row /\ pc[r] = "keep")
    /\ Goto(r, IF pc[r] = "finish" THEN "deleted" ELSE "done")
    /\ UNCHANGED <<saver, ckpt, reported, decision, local, routed, overlap, faults>>
-----------------------------------------------------------------------------
(* An execution ends early: a node or a commit raises, wait_for times out,  *)
(* the client disconnects.  The last checkpoint stands; node_route may have *)
(* done its work without saving one.                                       *)
Abort(e) ==
    /\ Running(e) /\ Fault
    /\ Goto(e, "done")
    /\ \/ UNCHANGED routed
       \/ pc[e] = "route" /\ routed' = routed \cup {<<e, local[e]>>}
    /\ UNCHANGED <<saver, ckpt, row, reported, decision, local, audits, overlap>>

(* The process restarts: every execution is gone, and so are the            *)
(* checkpoints of the memory saver.                                        *)
Restart ==
    /\ Fault
    /\ pc' = [e \in Executions |-> IF Running(e) THEN "done" ELSE pc[e]]
    /\ ckpt' = IF saver = "memory" THEN Lost ELSE ckpt
    /\ UNCHANGED <<saver, row, reported, decision, local, audits, routed, overlap>>

Progress(e) ==
    \/ Classify(e) \/ GateProjects(e) \/ Brief(e) \/ Route(e)
    \/ /\ e = Pipeline
       /\ GateInterrupts
    \/ /\ e \in Requests
       /\ FindInterrupt(e) \/ Invoke(e) \/ GateResumes(e) \/ CheckAfter(e) \/ Finish(e)

Next ==
    \/ \E e \in Executions : Progress(e) \/ GateProjectionFails(e) \/ Abort(e)
    \/ \E r \in Requests : FindRow(r)
    \/ Restart

Spec == Init /\ [][Next]_vars

(* An invocation that has started goes on; no analyst has to come.          *)
FairSpec == Spec /\ \A e \in Executions : WF_vars(Progress(e))
-----------------------------------------------------------------------------
(***************************************************************************)
(* A run that waits for a decision can be found: it is in the review queue, *)
(* or the audit log says why not.  It takes two failures to lose it.        *)
(***************************************************************************)
WaitingIsListed == ckpt.waiting => row \/ reported \/ faults > 1

(***************************************************************************)
(* A decision is on record only when the gate has taken one: no failure of  *)
(* the graph leaves an audited run waiting for review.                     *)
(***************************************************************************)
AuditedIsDecided ==
    (\E r \in Requests : audits[r] # None) =>
        ~ ckpt.waiting /\ (ckpt = Lost \/ ckpt.decision # None)

(***************************************************************************)
(* Requests that do not overlap and do not fail: if one is accepted it is   *)
(* the only one, its decision is the one applied, routed once and audited,  *)
(* the run ends and leaves the queue.                                      *)
(***************************************************************************)
OneReviewer ==
    faults = 0 /\ ~ overlap /\ (\A r \in Requests : ~ Running(r))
               /\ (\E r \in Requests : pc[r] = "deleted") =>
        \E r \in Requests :
            /\ audits = [q \in Requests |-> IF q = r THEN decision[r] ELSE None]
            /\ ckpt = [next |-> "end", waiting |-> FALSE, decision |-> decision[r]]
            /\ routed = {<<r, decision[r]>>}
            /\ ~ row

(***************************************************************************)
(* Once a decision is audited and nothing fails, the run leaves the queue   *)
(* for good, although a slower request may put the row back on its way      *)
(* through the gate.                                                       *)
(***************************************************************************)
AuditedLeavesQueue ==
    ([](faults = 0) /\ <>(\E r \in Requests : audits[r] # None)) => <>[](~ row)
=============================================================================
