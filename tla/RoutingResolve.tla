---------------------------- MODULE RoutingResolve ----------------------------
(***************************************************************************)
(* The routing rules as a table, the two ordered reads of                   *)
(* db/repositories/routing_rules.py, and resolve_routing_decision           *)
(* (services/routing/resolve.py).  Keys are normalised: case and blanks are *)
(* left out, and a rule's team and channel are one destination.            *)
(***************************************************************************)
EXTENDS Naturals, Sequences, FiniteSetsExt

CONSTANTS
    NoRule,     \* no row, or no match
    NoSeverity  \* a classification without a severity

(* The order of both reads: priority, then id.                              *)
Precedes(table, r, s) ==
    \/ table[r].priority < table[s].priority
    \/ table[r].priority = table[s].priority /\ r < s

Existing(table) == {r \in DOMAIN table : table[r] # NoRule}

OfType(table, type) == {r \in Existing(table) : table[r].type = type}
(* Where ORDER BY puts a row: behind those that precede it.                 *)
PlaceIn(table, ids, r) == 1 + Cardinality({s \in ids : Precedes(table, s, r)})

(* list_topic_rules_ordered, list_severity_rules_ordered.                   *)
RulesOrdered(table, type) ==
    LET ids == OfType(table, type)
    IN  [k \in 1..Cardinality(ids) |->
            LET r == CHOOSE r \in ids : PlaceIn(table, ids, r) = k
            IN  [id |-> r, key |-> table[r].key, dest |-> table[r].dest] ]

(* The loop over a rule list: the first that matches.                       *)
FirstMatch(rules, keys) ==
    LET hits == {k \in DOMAIN rules : rules[k].key \in keys}
    IN  IF hits = {} THEN [id |-> NoRule] ELSE rules[Min(hits)]

Unmatched(reason) ==
    [matched |-> FALSE, team |-> NoRule, channel |-> NoRule, topic |-> NoRule,
     severityRule |-> NoRule, reason |-> reason]

(* MUTANT of Resolve: a severity rule takes the team as well.               *)
ResolveSeverityTakesAll(cls, topics, severities) ==
    LET topic == FirstMatch(topics, cls.categories)
        severe == FirstMatch(severities, {cls.severity} \ {NoSeverity})
    IN  IF ~ cls.in_scope THEN Unmatched("out_of_scope")
        ELSE IF topic.id = NoRule /\ severe.id = NoRule
          THEN Unmatched("no_rule_matched")
          ELSE LET d == IF severe.id # NoRule THEN severe.dest ELSE topic.dest
               IN  [matched |-> TRUE, team |-> d, channel |-> d, topic |-> topic.id,
                    severityRule |-> severe.id, reason |-> "none"]

Resolve(cls, topics, severities) ==
    LET topic == FirstMatch(topics, cls.categories)
        severe == FirstMatch(severities, {cls.severity} \ {NoSeverity})
    IN  IF ~ cls.in_scope THEN Unmatched("out_of_scope")
        ELSE IF topic.id = NoRule /\ severe.id = NoRule
          THEN Unmatched(IF cls.severity = NoSeverity /\ cls.categories = {}
                           THEN "no_severity_or_categories" ELSE "no_rule_matched")
          ELSE [matched |-> TRUE,
                team |-> IF topic.id # NoRule THEN topic.dest ELSE severe.dest,
                channel |-> IF severe.id # NoRule THEN severe.dest ELSE topic.dest,
                topic |-> topic.id, severityRule |-> severe.id, reason |-> "none"]
-----------------------------------------------------------------------------
(* What the precedence in the head of resolve.py promises, without the       *)
(* loops: r is the rule of its type that the table gives the classification. *)
Wins(table, type, keys, r) ==
    LET hits == {s \in OfType(table, type) : table[s].key \in keys}
    IN  IF hits = {} THEN r = NoRule
        ELSE r \in hits /\ \A s \in hits \ {r} : Precedes(table, r, s)

Explains(table, cls, d) ==
    IF ~ cls.in_scope THEN d = Unmatched("out_of_scope")
    ELSE /\ Wins(table, "topic", cls.categories, d.topic)
         /\ Wins(table, "severity", {cls.severity}, d.severityRule)
         /\ d.matched <=> (d.topic # NoRule \/ d.severityRule # NoRule)
         /\ d.topic # NoRule => d.team = table[d.topic].dest
         /\ d.severityRule # NoRule => d.channel = table[d.severityRule].dest
         /\ d.topic = NoRule /\ d.matched => d.team = table[d.severityRule].dest
         /\ d.severityRule = NoRule /\ d.matched => d.channel = table[d.topic].dest
=============================================================================
