-------------------------- MODULE ReviewResumeProofs --------------------------
(***************************************************************************)
(* For any number of resume requests, however they overlap, abort and are   *)
(* cut off by restarts, over either checkpointer: a waiting run is listed   *)
(* or its absence reported, and a decision on record was taken; requests     *)
(* that come one at a time are decided by one of them.                      *)
(***************************************************************************)
EXTENDS ReviewResume, TLAPS

(* A request that has seen the interrupt, or has left its audit row.        *)
Begun(r) == pc[r] \notin {"idle", "listed", "done"} \/ audits[r] # None

Decided ==
    /\ ~ ckpt.waiting
    /\ ckpt = Lost \/ (ckpt.decision # None /\ ckpt.next \in {"brief", "route", "end"})

(* Before the run has paused no request gets past the interrupt, and after   *)
(* that the checkpoint waits or has a decision.                             *)
BegunAfterPause ==
    \A r \in Requests : Begun(r) => pc[Pipeline] = "done" /\ (ckpt.waiting \/ Decided)

(* While the run waits nobody is beyond the gate.                           *)
PausedAtGate ==
    /\ pc[Pipeline] \in {"gate", "projected"} => ckpt.next = "gate"
    /\ ckpt.waiting =>
          /\ ckpt.next = "gate" /\ pc[Pipeline] = "done"
          /\ \A r \in Requests :
                /\ pc[r] \in {"idle", "listed", "invoke", "gate", "projected", "done"}
                /\ audits[r] = None

(* Whoever is beyond the gate carries a decision.                           *)
DecisionCarried ==
    \A r \in Requests :
        /\ pc[r] \notin {"idle", "done"} => decision[r] # None
        /\ pc[r] \in {"brief", "route"} => local[r] # None
        /\ pc[r] # "classify"

ProjectedIsListed == pc[Pipeline] = "projected" => row \/ reported \/ faults > 1

IInv ==
    /\ TypeOK /\ BegunAfterPause /\ PausedAtGate /\ DecisionCarried
    /\ ProjectedIsListed /\ WaitingIsListed
-----------------------------------------------------------------------------
LEMMA InitIInv ==
  ASSUME Init
  PROVE  IInv
<1>1. TypeOK
  <2>1. ckpt \in Checkpoints
    BY DEF Init, Checkpoints, Nodes, MaybeDecision
  <2>2. /\ decision \in [Requests -> MaybeDecision] /\ audits \in [Requests -> MaybeDecision]
        /\ local \in [Executions -> MaybeDecision]
    BY DEF Init, MaybeDecision
  <2>3. pc \in [Executions -> Nodes \cup {"idle"}]
    BY DEF Init, Nodes
  <2>4. faults \in 0..MaxFaults
    BY MaxFaultsAssumption DEF Init
  <2>5. saver \in Savers /\ routed \subseteq Executions \X MaybeDecision
    BY DEF Init
  <2>6. row \in BOOLEAN /\ reported \in BOOLEAN /\ overlap \in BOOLEAN
    BY DEF Init
  <2>. QED  BY <2>1, <2>2, <2>3, <2>4, <2>5, <2>6 DEF TypeOK
<1>2. BegunAfterPause
  BY PipelineAssumption DEF Init, BegunAfterPause, Begun, Executions
<1>3. PausedAtGate
  BY DEF Init, PausedAtGate, Executions
<1>4. DecisionCarried
  BY PipelineAssumption DEF Init, DecisionCarried, Executions
<1>5. ProjectedIsListed /\ WaitingIsListed
  BY DEF Init, ProjectedIsListed, WaitingIsListed, Executions
<1>. QED  BY <1>1, <1>2, <1>3, <1>4, <1>5 DEF IInv

LEMMA ClassifyStep ==
  ASSUME IInv, NEW e \in Executions, Classify(e)
  PROVE  IInv'
<1>1. TypeOK'
  BY DEF IInv, Classify, Goto, Save, Checkpoints, Nodes, TypeOK
<1>2. BegunAfterPause'
  BY DEF IInv, Classify, Goto, Executions, BegunAfterPause, Begun, DecisionCarried
<1>3. PausedAtGate'
  BY DEF IInv, Classify, Goto, Save, Executions, PausedAtGate, DecisionCarried
<1>4. DecisionCarried'
  BY DEF IInv, Classify, Goto, DecisionCarried
<1>5. ProjectedIsListed'
  BY DEF IInv, Classify, Goto, ProjectedIsListed
<1>6. WaitingIsListed'
  BY DEF Classify, Save, WaitingIsListed
<1>. QED  BY <1>1, <1>2, <1>3, <1>4, <1>5, <1>6 DEF IInv

LEMMA GateProjectsStep ==
  ASSUME IInv, NEW e \in Executions, GateProjects(e)
  PROVE  IInv'
<1>1. TypeOK'
  BY DEF IInv, GateProjects, Goto, TypeOK
<1>2. BegunAfterPause'
  BY DEF IInv, GateProjects, Goto, BegunAfterPause, Begun, Decided
<1>3. PausedAtGate'
  BY DEF IInv, GateProjects, Goto, PausedAtGate
<1>4. DecisionCarried'
  BY DEF IInv, GateProjects, Goto, DecisionCarried
<1>5. ProjectedIsListed'
  BY DEF GateProjects, ProjectedIsListed
<1>6. WaitingIsListed'
  BY DEF GateProjects, WaitingIsListed
<1>. QED  BY <1>1, <1>2, <1>3, <1>4, <1>5, <1>6 DEF IInv

LEMMA GateProjectionFailsStep ==
  ASSUME IInv, NEW e \in Executions, GateProjectionFails(e)
  PROVE  IInv'
<1>1. TypeOK'
  <2>1. faults' \in 0..MaxFaults
    BY MaxFaultsAssumption DEF IInv, TypeOK, GateProjectionFails, Fault
  <2>2. pc' \in [Executions -> Nodes \cup {"idle", "listed", "invoke", "projected", "after",
                                          "finish", "keep", "deleted", "missing", "done"}]
    BY DEF IInv, TypeOK, GateProjectionFails, Goto
  <2>. QED  BY <2>1, <2>2 DEF IInv, TypeOK, GateProjectionFails
<1>2. BegunAfterPause'
  BY DEF IInv, GateProjectionFails, Goto, BegunAfterPause, Begun, Decided
<1>3. PausedAtGate'
  BY DEF IInv, GateProjectionFails, Goto, PausedAtGate
<1>4. DecisionCarried'
  BY DEF IInv, GateProjectionFails, Goto, DecisionCarried
<1>5. ProjectedIsListed'
  BY DEF IInv, GateProjectionFails, TypeOK, ProjectedIsListed
<1>6. WaitingIsListed'
  BY DEF IInv, GateProjectionFails, TypeOK, WaitingIsListed
<1>. QED  BY <1>1, <1>2, <1>3, <1>4, <1>5, <1>6 DEF IInv

LEMMA GateInterruptsStep ==
  ASSUME IInv, GateInterrupts
  PROVE  IInv'
<1>1. TypeOK'
  BY DEF IInv, GateInterrupts, Goto, Checkpoints, TypeOK
<1>2. BegunAfterPause'
  BY DEF IInv, GateInterrupts, Goto, BegunAfterPause, Begun
<1>3. PausedAtGate'
  BY DEF IInv, GateInterrupts, Goto, Executions, TypeOK, BegunAfterPause, Begun,
       PausedAtGate
<1>4. DecisionCarried'
  BY DEF IInv, GateInterrupts, Goto, DecisionCarried
<1>5. ProjectedIsListed'
  BY DEF IInv, GateInterrupts, ProjectedIsListed
<1>6. WaitingIsListed'
  BY DEF IInv, GateInterrupts, ProjectedIsListed, WaitingIsListed
<1>. QED  BY <1>1, <1>2, <1>3, <1>4, <1>5, <1>6 DEF IInv

LEMMA GateResumesStep ==
  ASSUME IInv, NEW r \in Requests, GateResumes(r)
  PROVE  IInv'
<1>1. TypeOK'
  BY DEF IInv, GateResumes, Goto, Save, Executions, Checkpoints, Nodes, TypeOK
<1>2. BegunAfterPause'
  BY DEF IInv, GateResumes, Goto, Save, Executions, TypeOK, BegunAfterPause, Begun,
       Decided, DecisionCarried
<1>3. PausedAtGate'
  BY DEF IInv, GateResumes, Goto, Save, BegunAfterPause, Begun, PausedAtGate
<1>4. DecisionCarried'
  BY DEF IInv, GateResumes, Goto, TypeOK, DecisionCarried
<1>5. ProjectedIsListed'
  BY DEF IInv, GateResumes, Goto, ProjectedIsListed
<1>6. WaitingIsListed'
  BY DEF GateResumes, Save, WaitingIsListed
<1>. QED  BY <1>1, <1>2, <1>3, <1>4, <1>5, <1>6 DEF IInv

LEMMA BriefStep ==
  ASSUME IInv, NEW e \in Executions, Brief(e)
  PROVE  IInv'
<1>1. TypeOK'
  BY DEF IInv, Brief, Goto, Save, Checkpoints, Nodes, TypeOK
<1>2. BegunAfterPause'
  BY DEF IInv, Brief, Goto, Save, Executions, BegunAfterPause, Begun, Decided,
       DecisionCarried
<1>3. PausedAtGate'
  BY DEF IInv, Brief, Goto, Save, Executions, BegunAfterPause, Begun, PausedAtGate
<1>4. DecisionCarried'
  BY DEF IInv, Brief, Goto, DecisionCarried
<1>5. ProjectedIsListed'
  BY DEF IInv, Brief, Goto, ProjectedIsListed
<1>6. WaitingIsListed'
  BY DEF Brief, Save, WaitingIsListed
<1>. QED  BY <1>1, <1>2, <1>3, <1>4, <1>5, <1>6 DEF IInv

LEMMA RouteStep ==
  ASSUME IInv, NEW e \in Executions, Route(e)
  PROVE  IInv'
<1>1. TypeOK'
  BY DEF IInv, Route, Goto, Save, Checkpoints, TypeOK
<1>2. BegunAfterPause'
  BY DEF IInv, Route, Goto, Save, Executions, BegunAfterPause, Begun, Decided,
       DecisionCarried
<1>3. PausedAtGate'
  BY DEF IInv, Route, Goto, Save, Executions, BegunAfterPause, Begun, PausedAtGate
<1>4. DecisionCarried'
  BY DEF IInv, Route, Goto, DecisionCarried
<1>5. ProjectedIsListed'
  BY DEF IInv, Route, Goto, ProjectedIsListed
<1>6. WaitingIsListed'
  BY DEF Route, Save, WaitingIsListed
<1>. QED  BY <1>1, <1>2, <1>3, <1>4, <1>5, <1>6 DEF IInv

LEMMA FindRowStep ==
  ASSUME IInv, NEW r \in Requests, FindRow(r)
  PROVE  IInv'
<1>1. TypeOK'
  BY DEF IInv, FindRow, Goto, MaybeDecision, TypeOK
<1>2. BegunAfterPause'
  BY DEF IInv, FindRow, Goto, BegunAfterPause, Begun, Decided
<1>3. PausedAtGate'
  BY DEF IInv, FindRow, Goto, PausedAtGate
<1>4. DecisionCarried'
  BY NoneAssumption DEF IInv, FindRow, Goto, TypeOK, DecisionCarried
<1>5. ProjectedIsListed'
  BY DEF FindRow, ProjectedIsListed
<1>6. WaitingIsListed'
  BY DEF FindRow, WaitingIsListed
<1>. QED  BY <1>1, <1>2, <1>3, <1>4, <1>5, <1>6 DEF IInv

LEMMA FindInterruptStep ==
  ASSUME IInv, NEW r \in Requests, FindInterrupt(r)
  PROVE  IInv'
<1>1. TypeOK'
  BY DEF IInv, FindInterrupt, Goto, TypeOK
<1>2. BegunAfterPause'
  BY DEF IInv, FindInterrupt, Goto, BegunAfterPause, Begun, Decided, PausedAtGate
<1>3. PausedAtGate'
  BY DEF IInv, FindInterrupt, Goto, PausedAtGate
<1>4. DecisionCarried'
  BY DEF IInv, FindInterrupt, Goto, DecisionCarried
<1>5. ProjectedIsListed'
  BY DEF IInv, FindInterrupt, Goto, ProjectedIsListed
<1>6. WaitingIsListed'
  BY DEF IInv, FindInterrupt, WaitingIsListed
<1>. QED  BY <1>1, <1>2, <1>3, <1>4, <1>5, <1>6 DEF IInv

LEMMA InvokeStep ==
  ASSUME IInv, NEW r \in Requests, Invoke(r)
  PROVE  IInv'
<1>1. TypeOK'
  BY DEF IInv, Invoke, Resumption, Goto, Checkpoints, TypeOK
<1>2. BegunAfterPause'
  BY DEF IInv, Invoke, Goto, BegunAfterPause, Begun, Decided
<1>3. PausedAtGate'
  BY DEF IInv, Invoke, Resumption, Goto, BegunAfterPause, Begun, PausedAtGate
<1>4. DecisionCarried'
  BY DEF IInv, Invoke, Resumption, Goto, Lost, TypeOK, BegunAfterPause, Begun, Decided,
       PausedAtGate, DecisionCarried
<1>5. ProjectedIsListed'
  BY DEF IInv, Invoke, Goto, BegunAfterPause, Begun, ProjectedIsListed
<1>6. WaitingIsListed'
  BY DEF IInv, Invoke, WaitingIsListed
<1>. QED  BY <1>1, <1>2, <1>3, <1>4, <1>5, <1>6 DEF IInv

LEMMA CheckAfterStep ==
  ASSUME IInv, NEW r \in Requests, CheckAfter(r)
  PROVE  IInv'
<1>1. TypeOK'
  BY DEF IInv, CheckAfter, Goto, TypeOK
<1>2. BegunAfterPause'
  BY DEF IInv, CheckAfter, Goto, BegunAfterPause, Begun, Decided
<1>3. PausedAtGate'
  BY DEF IInv, CheckAfter, Goto, PausedAtGate
<1>4. DecisionCarried'
  BY DEF IInv, CheckAfter, Goto, DecisionCarried
<1>5. ProjectedIsListed'
  BY DEF IInv, CheckAfter, Goto, ProjectedIsListed
<1>6. WaitingIsListed'
  BY DEF IInv, CheckAfter, WaitingIsListed
<1>. QED  BY <1>1, <1>2, <1>3, <1>4, <1>5, <1>6 DEF IInv

LEMMA FinishStep ==
  ASSUME IInv, NEW r \in Requests, Finish(r)
  PROVE  IInv'
<1>1. TypeOK'
  BY DEF IInv, Finish, Goto, TypeOK
<1>2. BegunAfterPause'
  BY DEF IInv, Finish, Goto, BegunAfterPause, Begun, Decided
<1>3. PausedAtGate'
  BY DEF IInv, Finish, Goto, PausedAtGate
<1>4. DecisionCarried'
  BY DEF IInv, Finish, Goto, DecisionCarried
<1>5. ProjectedIsListed'
  BY DEF IInv, Finish, Goto, BegunAfterPause, Begun, ProjectedIsListed
<1>6. WaitingIsListed'
  BY DEF IInv, Finish, PausedAtGate, WaitingIsListed
<1>. QED  BY <1>1, <1>2, <1>3, <1>4, <1>5, <1>6 DEF IInv

LEMMA AbortStep ==
  ASSUME IInv, NEW e \in Executions, Abort(e)
  PROVE  IInv'
<1>1. TypeOK'
  BY MaxFaultsAssumption DEF IInv, Abort, Fault, Goto, TypeOK
<1>2. BegunAfterPause'
  BY DEF IInv, Abort, Goto, BegunAfterPause, Begun, Decided
<1>3. PausedAtGate'
  BY DEF IInv, Abort, Goto, PausedAtGate
<1>4. DecisionCarried'
  BY DEF IInv, Abort, Goto, DecisionCarried
<1>5. ProjectedIsListed'
  BY DEF IInv, Abort, Fault, Goto, TypeOK, ProjectedIsListed
<1>6. WaitingIsListed'
  BY DEF IInv, Abort, Fault, TypeOK, WaitingIsListed
<1>. QED  BY <1>1, <1>2, <1>3, <1>4, <1>5, <1>6 DEF IInv

LEMMA RestartStep ==
  ASSUME IInv, Restart
  PROVE  IInv'
<1>1. TypeOK'
  BY MaxFaultsAssumption DEF IInv, Restart, Fault, MaybeDecision, Checkpoints, Lost, TypeOK
<1>2. BegunAfterPause'
  BY DEF IInv, Restart, Executions, BegunAfterPause, Begun, Decided
<1>3. PausedAtGate'
  BY DEF IInv, Restart, Running, Ended, Executions, Lost, PausedAtGate
<1>4. DecisionCarried'
  BY DEF IInv, Restart, Executions, DecisionCarried
<1>5. ProjectedIsListed'
  BY DEF Restart, Running, Ended, Executions, ProjectedIsListed
<1>6. WaitingIsListed'
  BY DEF IInv, Restart, Fault, Lost, TypeOK, WaitingIsListed
<1>. QED  BY <1>1, <1>2, <1>3, <1>4, <1>5, <1>6 DEF IInv

-----------------------------------------------------------------------------
LEMMA NextKeepsIInv ==
  ASSUME IInv, [Next]_vars
  PROVE  IInv'
<1>1. ASSUME NEW e \in Executions, Progress(e)
      PROVE  IInv'
  BY <1>1, ClassifyStep, GateProjectsStep, BriefStep, RouteStep, GateInterruptsStep,
       FindInterruptStep, InvokeStep, GateResumesStep, CheckAfterStep, FinishStep
     DEF Progress
<1>2. CASE UNCHANGED vars
  BY <1>2
     DEF vars, IInv, TypeOK, BegunAfterPause, Begun, Decided, PausedAtGate,
       DecisionCarried, ProjectedIsListed, WaitingIsListed
<1>. QED  BY <1>1, <1>2, GateProjectionFailsStep, AbortStep, FindRowStep, RestartStep
             DEF Next

(***************************************************************************)
(* The inductive invariant of the review.                                   *)
(***************************************************************************)
THEOREM ReviewInvariant == Spec => []IInv
<1>1. Init => IInv
  BY InitIInv
<1>2. IInv /\ [Next]_vars => IInv'
  BY NextKeepsIInv
<1>. QED  BY <1>1, <1>2, PTL DEF Spec

(***************************************************************************)
(* The handler and the graph keep the types of their state.                 *)
(***************************************************************************)
THEOREM ReviewTypes == Spec => []TypeOK
<1>1. IInv => TypeOK
  BY DEF IInv
<1>. QED  BY <1>1, ReviewInvariant, PTL

(***************************************************************************)
(* A run that waits for a decision is in the review queue, or the audit log  *)
(* says why not, unless two failures fell together.                        *)
(***************************************************************************)
THEOREM WaitingRunsAreListed == Spec => []WaitingIsListed
<1>1. IInv => WaitingIsListed
  BY DEF IInv
<1>. QED  BY <1>1, ReviewInvariant, PTL

(***************************************************************************)
(* POST /runs/{run_id}/resume puts a decision on record only after the gate   *)
(* has taken one: no failure or restart leaves an audited run waiting.      *)
(***************************************************************************)
THEOREM AuditedRunsAreDecided == Spec => []AuditedIsDecided
<1>1. IInv => AuditedIsDecided
  BY DEF IInv, BegunAfterPause, Begun, Decided, PausedAtGate, AuditedIsDecided
<1>. QED  BY <1>1, ReviewInvariant, PTL
-----------------------------------------------------------------------------
(* Without a failure and one request at a time, the run is in one of three    *)
(* states.  Nobody has decided yet, and the pipeline that routes by itself    *)
(* leaves nothing to review...                                             *)
Undecided ==
    /\ \A r \in Requests :
          /\ audits[r] = None
          /\ pc[r] \in {"idle", "listed", "invoke", "gate", "projected", "done"}
          /\ pc[r] \in {"invoke", "gate", "projected"} => ckpt.waiting
    /\ routed # {} => pc[Pipeline] = "done"
    /\ pc[Pipeline] \in {"classify", "brief", "route"} \/ routed # {} =>
          ~ row /\ \A r \in Requests : pc[r] = "idle"

(* ...one request carries its decision through the rest of the graph...      *)
Beyond == {"brief", "route", "after", "finish"}

Carrying(r) ==
    /\ pc[r] \in Beyond /\ pc[Pipeline] = "done"
    /\ local[r] = decision[r]
    /\ ckpt = [next |-> IF pc[r] \in {"brief", "route"} THEN pc[r] ELSE "end",
               waiting |-> FALSE, decision |-> decision[r]]
    /\ routed = IF pc[r] \in {"brief", "route"} THEN {} ELSE {<<r, decision[r]>>}
    /\ \A q \in Requests : audits[q] = None /\ (q # r => pc[q] \in {"idle", "done"})

(* ...or it is on record, and the run is off the queue.                     *)
Settled(r) ==
    /\ pc[r] = "deleted" /\ pc[Pipeline] = "done"
    /\ audits = [q \in Requests |-> IF q = r THEN decision[r] ELSE None]
    /\ ckpt = [next |-> "end", waiting |-> FALSE, decision |-> decision[r]]
    /\ routed = {<<r, decision[r]>>}
    /\ ~ row
    /\ \A q \in Requests : q # r => pc[q] \in {"idle", "done"}

Quiet == faults = 0 /\ ~ overlap

OneAtATime ==
    Quiet =>
        /\ \A q, r \in Requests : Running(q) /\ Running(r) => q = r
        /\ Undecided \/ \E r \in Requests : Carrying(r) \/ Settled(r)

(* What a step does to a run that stays quiet.                              *)
QuietNext ==
    \/ \E e \in Executions : Progress(e)
    \/ \E r \in Requests : FindRow(r) /\ \A q \in Requests : ~ Running(q)
    \/ UNCHANGED vars

(* Faults and overlaps are never forgotten.                                 *)
LEMMA QuietBefore ==
  ASSUME IInv, [Next]_vars, Quiet'
  PROVE  Quiet /\ QuietNext
<1>1. faults \in Nat /\ overlap \in BOOLEAN
  BY MaxFaultsAssumption DEF IInv, TypeOK
<1>2. ASSUME NEW e \in Executions, GateProjectionFails(e) \/ Abort(e) \/ Restart PROVE FALSE
  BY <1>1, <1>2 DEF GateProjectionFails, Abort, Restart, Fault, Quiet
<1>3. ASSUME NEW e \in Executions, Progress(e) PROVE Quiet
  BY <1>3 DEF Progress, Classify, GateProjects, Brief, Route, GateInterrupts, FindInterrupt,
              Invoke, GateResumes, CheckAfter, Finish, Quiet
<1>4. ASSUME NEW r \in Requests, FindRow(r)
      PROVE  Quiet /\ \A q \in Requests : ~ Running(q)
  BY <1>1, <1>4 DEF FindRow, Quiet
<1>5. UNCHANGED vars => Quiet
  BY DEF vars, Quiet
<1>6. ~ Restart
  BY <1>2 DEF Executions
<1>. QED  BY <1>2, <1>3, <1>4, <1>5, <1>6 DEF Next, QuietNext

(* Only FindRow starts a request, and only while none is running.            *)
LEMMA OneRuns ==
  ASSUME IInv, QuietNext, \A q, r \in Requests : Running(q) /\ Running(r) => q = r
  PROVE  \A q, r \in Requests : Running(q)' /\ Running(r)' => q = r
<1>1. ASSUME NEW e \in Executions, Progress(e), NEW q \in Requests, Running(q)' PROVE Running(q)
  <2>1. pc[e] \notin Ended
    BY <1>1 DEF Progress, Classify, GateProjects, Brief, Route, GateInterrupts, FindInterrupt,
                Invoke, GateResumes, CheckAfter, Finish, Ended
  <2>2. q \in Executions /\ (q # e => pc'[q] = pc[q])
    BY <1>1 DEF Progress, Classify, GateProjects, Brief, Route, GateInterrupts, FindInterrupt,
                Invoke, GateResumes, CheckAfter, Finish, Goto, IInv, TypeOK, Executions
  <2>. QED  BY <1>1, <2>1, <2>2 DEF Running
<1>2. ASSUME NEW r \in Requests, FindRow(r), NEW q \in Requests \ {r} PROVE pc'[q] = pc[q]
  BY <1>2 DEF FindRow, Goto, IInv, TypeOK
<1>3. UNCHANGED vars => \A q \in Requests : Running(q)' => Running(q)
  BY DEF vars, Running
<1>. QED  BY <1>1, <1>2, <1>3 DEF QuietNext, Running

(* Only the gate takes a decision, and it takes the one of its own request.  *)
LEMMA UndecidedStep ==
  ASSUME IInv, IInv', QuietNext, Undecided,
         \A q, r \in Requests : Running(q) /\ Running(r) => q = r
  PROVE  Undecided' \/ \E r \in Requests : Carrying(r)'
<1>1. \A r \in Requests : r # Pipeline /\ r \in Executions
  BY PipelineAssumption DEF Executions
<1>2. CASE Progress(Pipeline)
  <2>0. \/ Classify(Pipeline) \/ GateProjects(Pipeline) \/ Brief(Pipeline) \/ Route(Pipeline)
        \/ GateInterrupts
    BY <1>2, PipelineAssumption DEF Progress
  <2>1. /\ UNCHANGED <<audits, decision>> /\ \A r \in Requests : pc'[r] = pc[r]
        /\ pc'[Pipeline] = "projected" \/ UNCHANGED row
    <3>1. /\ UNCHANGED <<audits, decision>>
          /\ pc'[Pipeline] = "projected" \/ UNCHANGED row
      BY <2>0 DEF Classify, GateProjects, Brief, Route, GateInterrupts, Goto, IInv, TypeOK,
                  Executions
    <3>2. pc' = [pc EXCEPT ![Pipeline] = pc'[Pipeline]]
      BY <2>0 DEF Classify, GateProjects, Brief, Route, GateInterrupts, Goto, IInv, TypeOK,
                  Executions
    <3>. QED  BY <1>1, <3>1, <3>2 DEF IInv, TypeOK
  <2>2. \A r \in Requests : pc[r] \in {"invoke", "gate", "projected"} => pc[Pipeline] = "done"
    BY DEF IInv, BegunAfterPause, Begun
  <2>3. pc[Pipeline] # "done"
    BY <1>2, PipelineAssumption DEF Progress, Classify, GateProjects, Brief, Route, GateInterrupts
  <2>4. \/ UNCHANGED routed /\ (pc'[Pipeline] \in {"brief", "route"} =>
                                   pc[Pipeline] \in {"classify", "brief"})
        \/ pc[Pipeline] = "route" /\ pc'[Pipeline] = "done" /\ UNCHANGED row
    BY <1>2, PipelineAssumption
       DEF Progress, Classify, GateProjects, Brief, Route, GateInterrupts, Goto, IInv, TypeOK,
           Executions
  <2>5. pc'[Pipeline] # "classify"
    BY <1>2, PipelineAssumption
       DEF Progress, Classify, GateProjects, Brief, Route, GateInterrupts, Goto, IInv, TypeOK,
           Executions
  <2>. QED  BY <2>1, <2>2, <2>3, <2>4, <2>5 DEF Undecided
<1>3. ASSUME NEW r \in Requests, Progress(r) PROVE Undecided' \/ Carrying(r)'
  <2>1. pc[r] \in {"listed", "invoke", "gate", "projected"}
        /\ pc' = [pc EXCEPT ![r] = pc'[r]] /\ routed = {}
        /\ pc[Pipeline] \notin {"classify", "brief", "route"}
    BY <1>1, <1>3 DEF Progress, Classify, GateProjects, Brief, Route, FindInterrupt, Invoke,
                      GateResumes, CheckAfter, Finish, Goto, Undecided, IInv, TypeOK
  <2>2. CASE GateResumes(r)
    <3>1. pc'[r] = "brief" /\ local'[r] = decision[r] /\ UNCHANGED <<decision, audits, routed>>
      BY <1>1, <2>2 DEF GateResumes, Goto, IInv, TypeOK
    <3>2. ckpt' = [next |-> "brief", waiting |-> FALSE, decision |-> decision[r]]
      BY <2>2, <3>1 DEF GateResumes, Save
    <3>3. pc'[Pipeline] = "done"
      BY <3>1 DEF IInv, BegunAfterPause, Begun
    <3>4. ASSUME NEW q \in Requests \ {r} PROVE pc'[q] \in {"idle", "done"}
      <4>1. Running(r) /\ ~ Running(q)
        BY <2>2 DEF GateResumes, Running, Ended
      <4>. QED  BY <1>1, <2>1, <4>1 DEF Running, Ended, Undecided, IInv, TypeOK
    <3>. QED  BY <2>1, <3>1, <3>2, <3>3, <3>4 DEF Carrying, Beyond, Undecided
  <2>3. CASE ~ GateResumes(r)
    <3>1. /\ UNCHANGED <<audits, routed, ckpt>>
          /\ pc'[r] \in {"invoke", "gate", "projected", "done"}
          /\ pc'[r] = "done" \/ ckpt.waiting
      BY <1>1, <1>3, <2>1, <2>3
         DEF Progress, Classify, GateProjects, Brief, Route, FindInterrupt, Invoke, Resumption,
             CheckAfter, Finish, Goto, Undecided, IInv, TypeOK, PausedAtGate
    <3>2. /\ pc'[Pipeline] = pc[Pipeline] /\ \A q \in Requests \ {r} : pc'[q] = pc[q]
      BY <1>1, <2>1 DEF IInv, TypeOK, Executions
    <3>. QED  BY <2>1, <3>1, <3>2 DEF Undecided
  <2>. QED  BY <2>2, <2>3
<1>4. ASSUME NEW r \in Requests, FindRow(r) PROVE Undecided'
  <2>1. row /\ pc'[r] = "listed" /\ UNCHANGED <<audits, routed, ckpt, row>>
    BY <1>1, <1>4 DEF FindRow, Goto, IInv, TypeOK
  <2>2. pc'[Pipeline] = pc[Pipeline] /\ \A q \in Requests \ {r} : pc'[q] = pc[q]
    BY <1>1, <1>4 DEF FindRow, Goto, IInv, TypeOK, Executions
  <2>. QED  BY <2>1, <2>2 DEF Undecided
<1>5. UNCHANGED vars => Undecided'
  BY DEF vars, Undecided
<1>. QED  BY <1>2, <1>3, <1>4, <1>5 DEF QuietNext, Executions

(* The one beyond the gate goes on alone, with the decision it took.         *)
LEMMA CarryingStep ==
  ASSUME IInv, QuietNext, NEW r \in Requests, Carrying(r)
  PROVE  Carrying(r)' \/ Settled(r)'
<1>1. r # Pipeline /\ r \in Executions /\ Pipeline \in Executions
  BY PipelineAssumption DEF Executions
<1>2. Running(r) /\ \A e \in Executions : Progress(e) => e = r
  <2>1. ASSUME NEW e \in Executions, e # r PROVE ~ Progress(e)
    <3>1. pc[e] \in {"idle", "done"}
      BY <2>1 DEF Carrying, Executions
    <3>. QED  BY <3>1 DEF Progress, Classify, GateProjects, Brief, Route, GateInterrupts,
                          FindInterrupt, Invoke, GateResumes, CheckAfter, Finish
  <2>. QED  BY <2>1 DEF Running, Ended, Carrying, Beyond
<1>3. CASE UNCHANGED vars
  BY <1>3 DEF vars, Carrying
<1>4. CASE Brief(r)
  BY <1>1, <1>4 DEF Brief, Save, Goto, Carrying, Beyond, IInv, TypeOK
<1>5. CASE Route(r)
  BY <1>1, <1>5 DEF Route, Save, Goto, Carrying, Beyond, IInv, TypeOK
<1>6. CASE CheckAfter(r)
  BY <1>1, <1>6 DEF CheckAfter, Goto, Carrying, Beyond, IInv, TypeOK
<1>7. CASE Finish(r)
  <2>1. pc[r] = "finish"
    BY <1>7 DEF Finish, Carrying, Beyond
  <2>2. /\ pc' = [pc EXCEPT ![r] = "deleted"] /\ ~ row'
        /\ audits' = [audits EXCEPT ![r] = decision[r]]
        /\ UNCHANGED <<ckpt, decision, routed>>
    BY <1>7, <2>1 DEF Finish, Goto
  <2>3. audits' = [q \in Requests |-> IF q = r THEN decision[r] ELSE None]
    BY <2>2 DEF Carrying, IInv, TypeOK
  <2>4. /\ pc'[r] = "deleted" /\ pc'[Pipeline] = "done"
        /\ \A q \in Requests : q # r => pc'[q] \in {"idle", "done"}
    BY <1>1, <2>2 DEF Carrying, IInv, TypeOK, Executions
  <2>. QED  BY <2>1, <2>2, <2>3, <2>4 DEF Carrying, Settled
<1>8. Progress(r) => Brief(r) \/ Route(r) \/ CheckAfter(r) \/ Finish(r)
  BY <1>1 DEF Progress, Classify, GateProjects, FindInterrupt, Invoke, GateResumes, Carrying,
              Beyond
<1>. QED  BY <1>2, <1>3, <1>4, <1>5, <1>6, <1>7, <1>8 DEF QuietNext

(* Off the queue, the run is found by nobody.                               *)
LEMMA SettledStep ==
  ASSUME IInv, QuietNext, NEW r \in Requests, Settled(r)
  PROVE  Settled(r)'
<1>1. \A e \in Executions : pc[e] \in {"idle", "done", "deleted"}
  BY DEF Settled, Executions
<1>2. \A e \in Executions : ~ Progress(e)
  BY <1>1 DEF Progress, Classify, GateProjects, Brief, Route, GateInterrupts, FindInterrupt,
              Invoke, GateResumes, CheckAfter, Finish
<1>3. \A q \in Requests : ~ FindRow(q)
  BY DEF FindRow, Settled
<1>. QED  BY <1>2, <1>3 DEF QuietNext, vars, Settled

(***************************************************************************)
(* Resume requests that do not overlap, in a run without failures: the one   *)
(* that is accepted is the only one, its decision is the one the graph      *)
(* applied, routed once and audited, and the run has left the queue.        *)
(***************************************************************************)
THEOREM OneReviewerDecides == Spec => []OneReviewer
<1>1. Init => OneAtATime
  <2>1. SUFFICES ASSUME Init PROVE OneAtATime
    OBVIOUS
  <2>2. \A r \in Requests : pc[r] = "idle" /\ audits[r] = None
    BY <2>1, PipelineAssumption DEF Init, Executions
  <2>3. routed = {} /\ ~ row
    BY <2>1 DEF Init
  <2>. QED  BY <2>2, <2>3 DEF OneAtATime, Undecided, Running, Ended
<1>2. IInv /\ IInv' /\ OneAtATime /\ [Next]_vars => OneAtATime'
  <2>1. SUFFICES ASSUME IInv, IInv', OneAtATime, [Next]_vars, Quiet'
                 PROVE  /\ \A q, r \in Requests : Running(q)' /\ Running(r)' => q = r
                        /\ Undecided' \/ \E r \in Requests : Carrying(r)' \/ Settled(r)'
    BY DEF OneAtATime
  <2>2. Quiet /\ QuietNext
    BY <2>1, QuietBefore
  <2>. QED  BY <2>1, <2>2, OneRuns, UndecidedStep, CarryingStep, SettledStep DEF OneAtATime
<1>3. IInv /\ OneAtATime => OneReviewer
  BY DEF OneAtATime, Quiet, OneReviewer, Undecided, Carrying, Beyond, Settled, Running, Ended
<1>. QED  BY <1>1, <1>2, <1>3, ReviewInvariant, PTL DEF Spec
=============================================================================
