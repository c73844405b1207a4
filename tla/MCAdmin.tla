------------------------------- MODULE MCAdmin -------------------------------
(***************************************************************************)
(* The two tables an admin edits, side by side.  They share nothing, so a   *)
(* behaviour moves one of them only, and the other keeps an empty table.    *)
(***************************************************************************)
EXTENDS Admin, TLC

VARIABLE desk   \* which of the two this behaviour is about

(* The first rule is a topic rule at the first priority, and each has a     *)
(* destination of its own; the second is any, or not there yet.            *)
SmallTable ==
    LET d == CHOOSE d \in Dests : TRUE
        p == CHOOSE p \in Priorities : \A q \in Priorities : p <= q
    IN  /\ table[1] # NoRule => table[1].type = "topic" /\ table[1].priority = p
        /\ \A r \in RuleIds : table[r] # NoRule => (table[r].dest = d <=> r = 1)
        /\ 1 \in used

Init ==
    /\ SourcesInit /\ RulesInit
    /\ \/ desk = "sources" /\ table = [r \in RuleIds |-> NoRule]
       \/ desk = "rules" /\ row = Unborn /\ SmallTable

Next ==
    /\ UNCHANGED desk
    /\ \/ desk = "sources" /\ SourcesNext /\ UNCHANGED ruleVars
       \/ desk = "rules" /\ RulesNext /\ UNCHANGED sourceVars

Spec == Init /\ [][Next]_<<desk, sourceVars, ruleVars>>

Symmetry == Permutations(Requests) \cup Permutations(Editors)
=============================================================================
