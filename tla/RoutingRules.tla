----------------------------- MODULE RoutingRules -----------------------------
(***************************************************************************)
(* The routing-rule table under its admins (api/routes/routing_rules.py),   *)
(* the audit rows of its changes, and node_route's reading of it            *)
(* (graph/nodes/route.py): two SELECTs of one session, at READ COMMITTED.  *)
(***************************************************************************)
EXTENDS RoutingResolve

CONSTANTS
    Editors,    \* requests that may be in progress together
    RuleIds,    \* numbers, for their order
    Topics, Severities,   \* keys of the two types
    Dests, Priorities,
    Same,       \* a field a PATCH leaves alone
    MaxEdits    \* bound: commits in a behaviour

RuleRows ==
    [type : {"topic"}, key : Topics, priority : Priorities, dest : Dests]
      \cup [type : {"severity"}, key : Severities, priority : Priorities, dest : Dests]

ASSUME RoutingRulesAssumption ==
    /\ RuleIds \subseteq Nat /\ IsFiniteSet(RuleIds) /\ Priorities \subseteq Nat
    /\ NoSeverity \notin Severities /\ NoRule \notin RuleRows \cup RuleIds /\ MaxEdits \in Nat

VARIABLES
    table,      \* [RuleIds -> committed row]
    used,       \* ids that have had a row
    auditRows,  \* audit rows so far
    told,       \* rules that an audit row says were deleted
    misquoted,  \* rules whose row some audit row quotes otherwise than it was
    edits,      \* [Editors -> the request in progress]
    contended,  \* rules that two requests have had in hand at once
    reader,     \* node_route: what it has read
    between     \* commits between its two reads

ruleAudit == <<auditRows, told, misquoted>>
ruleVars == <<table, used, ruleAudit, edits, contended, reader, between>>

(* A PATCH sends one field; those that send more are like several at once.  *)
Patches ==
    {p \in [priority : Priorities \cup {Same}, key : Topics \cup Severities \cup {Same},
            dest : Dests \cup {Same}] : Cardinality({f \in DOMAIN p : p[f] # Same}) = 1}
Keys(type) == IF type = "topic" THEN Topics ELSE Severities

Idle == [op |-> "none"]
NotReading == [phase |-> "none"]
Classifications ==
    [in_scope : BOOLEAN, categories : SUBSET Topics, severity : Severities \cup {NoSeverity}]

RulesTypeOK ==
    /\ table \in [RuleIds -> RuleRows \cup {NoRule}]
    /\ used \subseteq RuleIds
    /\ auditRows \in 0..MaxEdits /\ told \subseteq used /\ misquoted \subseteq used
    /\ \A e \in Editors : edits[e] = Idle \/ edits[e].rule \in used
    /\ contended \subseteq RuleIds
    /\ between \in 0..auditRows

RulesInit ==
    /\ table \in [RuleIds -> RuleRows \cup {NoRule}]
    /\ used = Existing(table)
    /\ auditRows = 0 /\ told = {} /\ misquoted = {}
    /\ edits = [e \in Editors |-> Idle]
    /\ contended = {}
    /\ reader = NotReading /\ between = 0
-----------------------------------------------------------------------------
Bounded == auditRows < MaxEdits

Holders(r) == {e \in Editors : edits[e] # Idle /\ edits[e].rule = r}
Take(e, edit) ==
    /\ edits[e] = Idle
    /\ edits' = [edits EXCEPT ![e] = edit]
    /\ contended' = IF Holders(edit.rule) # {} THEN contended \cup {edit.rule} ELSE contended

(* One audit row, in the transaction of the change.                         *)
Record(op, r, before) ==
    /\ auditRows' = auditRows + 1
    /\ told' = IF op = "delete" THEN told \cup {r} ELSE told
    /\ misquoted' = IF op = "update" /\ before # table[r] THEN misquoted \cup {r} ELSE misquoted
    /\ between' = IF reader = NotReading THEN 0 ELSE between + 1

(* POST: the body has one key, the one its type calls for.                  *)
CreateRule(e) ==
    /\ edits[e] = Idle /\ Bounded
    /\ \E r \in RuleIds \ used, content \in RuleRows :
          /\ table' = [table EXCEPT ![r] = content]
          /\ used' = used \cup {r}
          /\ Record("create", r, NoRule)
    /\ UNCHANGED <<edits, contended, reader>>

(* PATCH: a key of the other type is refused (422), and so is an empty one. *)
LoadRule(e) ==
    /\ \E r \in Existing(table), patch \in Patches :
          /\ patch.key \in Keys(table[r].type) \cup {Same}
          /\ Take(e, [op |-> "update", rule |-> r, patch |-> patch, before |-> table[r]])
    /\ UNCHANGED <<table, used, ruleAudit, reader, between>>

Net(edit) ==
    [f \in DOMAIN edit.patch |-> IF edit.patch[f] = edit.before[f] THEN Same ELSE edit.patch[f] ]
Patched(content, change) ==
    [f \in DOMAIN content |->
        IF f \in DOMAIN change /\ change[f] # Same THEN change[f] ELSE content[f] ]

(* MUTANT of CommitPatchRule: "before" is taken after the assignments.      *)
CommitQuotingAfter(e) ==
    /\ edits[e].op = "update" /\ Bounded
    /\ LET r == edits[e].rule
       IN /\ table[r] # NoRule
          /\ table' = [table EXCEPT ![r] = Patched(@, edits[e].patch)]
          /\ Record("update", r, Patched(edits[e].before, edits[e].patch))
    /\ edits' = [edits EXCEPT ![e] = Idle]
    /\ UNCHANGED <<used, contended, reader>>

(* The UPDATE of what differs from the loaded row, the audit row with the    *)
(* loaded row as "before", the COMMIT.  If nothing differs there is no      *)
(* UPDATE, and so nothing that meets a row deleted since.                  *)
CommitPatchRule(e) ==
    /\ edits[e].op = "update" /\ Bounded
    /\ LET r == edits[e].rule
           change == Net(edits[e])
       IN /\ table[r] # NoRule \/ \A f \in DOMAIN change : change[f] = Same
          /\ table' = IF table[r] = NoRule THEN table
                        ELSE [table EXCEPT ![r] = Patched(@, change)]
          /\ Record("update", r, edits[e].before)
    /\ edits' = [edits EXCEPT ![e] = Idle]
    /\ UNCHANGED <<used, contended, reader>>

(* DELETE: 404 if there is no such rule.                                    *)
LoadForRemoval(e) ==
    /\ \E r \in Existing(table) :
          Take(e, [op |-> "delete", rule |-> r, before |-> table[r] ])
    /\ UNCHANGED <<table, used, ruleAudit, reader, between>>

(* A DELETE that meets no row warns and goes on to its audit row.           *)
CommitRemoval(e) ==
    /\ edits[e].op = "delete" /\ Bounded
    /\ table' = [table EXCEPT ![edits[e].rule] = NoRule]
    /\ Record("delete", edits[e].rule, NoRule)
    /\ edits' = [edits EXCEPT ![e] = Idle]
    /\ UNCHANGED <<used, contended, reader>>

(* The UPDATE meets no row, or any statement fails: all is rolled back.     *)
RollbackEdit(e) ==
    /\ edits[e] # Idle
    /\ edits' = [edits EXCEPT ![e] = Idle]
    /\ UNCHANGED <<table, used, ruleAudit, contended, reader, between>>
-----------------------------------------------------------------------------
(* node_route: the topic rules ...                                          *)
ReadTopics ==
    /\ reader.phase = "none"
    /\ reader' = [phase |-> "topics", topics |-> RulesOrdered(table, "topic"), start |-> table]
    /\ between' = 0
    /\ UNCHANGED <<table, used, ruleAudit, edits, contended>>

(* ... then the severity rules, and a decision for each classification.     *)
ReadSeverities ==
    /\ reader.phase = "topics"
    /\ LET severities == RulesOrdered(table, "severity")
       IN  reader' = [phase |-> "decided", start |-> reader.start,
              decisions |-> [cls \in Classifications |-> Resolve(cls, reader.topics, severities)] ]
    /\ UNCHANGED <<table, used, ruleAudit, edits, contended, between>>

EndReading ==
    /\ reader.phase = "decided"
    /\ reader' = NotReading /\ between' = 0
    /\ UNCHANGED <<table, used, ruleAudit, edits, contended>>

RulesNext ==
    \/ \E e \in Editors :
          \/ CreateRule(e) \/ LoadRule(e) \/ CommitPatchRule(e)
          \/ LoadForRemoval(e) \/ CommitRemoval(e) \/ RollbackEdit(e)
    \/ ReadTopics \/ ReadSeverities \/ EndReading

RulesSpec == RulesInit /\ [][RulesNext]_ruleVars
-----------------------------------------------------------------------------
(***************************************************************************)
(* The audit rows tell the table's story: a rule is gone exactly if a row   *)
(* says it was deleted, and what an update says it replaced is what was     *)
(* there, for every rule that no two requests have had in hand at once.    *)
(***************************************************************************)
AuditTellsStory ==
    /\ \A r \in used : table[r] = NoRule <=> r \in told
    /\ misquoted \subseteq contended

Deciding == reader.phase = "topics" /\ reader'.phase = "decided"
DecidedByOneTable ==
    Deciding /\ between <= 1 =>
       \A cls \in Classifications : \E rules \in {reader.start, table} :
          Explains(rules, cls, reader'.decisions[cls])

(***************************************************************************)
(* A classification is routed by one state of the table: by the one before   *)
(* or the one after any single change that commits between the two reads,   *)
(* with the precedence resolve.py states.                                  *)
(***************************************************************************)
OneTableDecides == [][DecidedByOneTable]_ruleVars
=============================================================================
