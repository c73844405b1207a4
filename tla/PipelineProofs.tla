---------------------------- MODULE PipelineProofs ----------------------------
(***************************************************************************)
(* For any number of attempts and any sources: a fetch is neither given up   *)
(* too early nor kept up too long.  And for any updates, any number of        *)
(* requests and any faults: what a run of the graph has classified, put       *)
(* before a reviewer, briefed, routed and replayed is of one execution.      *)
(***************************************************************************)
EXTENDS Pipeline, FiniteSetTheorems, WellFoundedInduction, TLAPS


Passing == {"busy", "down"}
Lasting == {"garbled", "refused", "strange"}

(* A place that is being asked has had nothing but passing trouble, and has   *)
(* an attempt left.                                                        *)
Pending(p) ==
    /\ Len(answers[p]) < MAX_ATTEMPTS
    /\ \A k \in DOMAIN answers[p] : answers[p][k] \in Passing

(* A place that has been given up.                                          *)
Lost(p) == AllTransient(p) /\ Len(answers[p]) <= MAX_ATTEMPTS
             /\ (Exhausted(p) \/ EndsWith(p, Lasting))

InPlace ==
    /\ place = "idle" => answers = Unasked
    /\ place # "done" => outcome = "none"
    /\ place = "done" => outcome # "none"
    /\ place = "primary" => Pending("primary") /\ answers["fallback"] = <<>>
    /\ place = "fallback" =>
          source.mode # "none" /\ Lost("primary") /\ Pending("fallback")
    /\ place # "idle" => source \in [type : Types, mode : Modes]

FetchInv == FetchTypeOK /\ InPlace /\ FetchIsEarned

(* Nothing has been asked.                                                  *)
LEMMA UnaskedIsEarned ==
  ASSUME answers = Unasked, outcome = "none"
  PROVE  FetchIsEarned
<1>1. \A p \in Places : answers[p] = <<>> /\ Len(answers[p]) = 0
  BY DEF Unasked
<1>2. answers["fallback"] = <<>>
  BY <1>1 DEF Places
<1>. QED  BY <1>1, <1>2, FetchAssumption DEF FetchIsEarned, AllTransient

(* Before anybody has asked.                                               *)
LEMMA InitFetchInv == FetchInit => FetchInv
<1> SUFFICES ASSUME FetchInit PROVE FetchInv
  OBVIOUS
<1>1. FetchIsEarned
  BY UnaskedIsEarned DEF FetchInit
<1>2. answers \in [Places -> Seq(Answers)]
  BY DEF FetchInit, Unasked
<1>. QED  BY <1>1, <1>2 DEF FetchInit, FetchInv, FetchTypeOK, InPlace

(* The first attempt is still to come.                                      *)
LEMMA StartStep ==
  ASSUME FetchInv, StartFetch
  PROVE  FetchInv'
<1> USE DEF StartFetch, FetchInv, InPlace
<1>1. answers = Unasked /\ outcome = "none" /\ answers' = Unasked /\ outcome' = "none"
  OBVIOUS
<1>2. FetchIsEarned'
  <2>1. \A p \in Places : answers'[p] = <<>> /\ Len(answers'[p]) = 0
    BY <1>1 DEF Unasked
  <2>2. answers'["fallback"] = <<>>
    BY <2>1 DEF Places
  <2>. QED  BY <1>1, <2>1, <2>2, FetchAssumption DEF FetchIsEarned, AllTransient
<1>3. Pending("primary")' /\ answers'["fallback"] = <<>>
  BY <1>1, FetchAssumption DEF Pending, Unasked, Places
<1>4. FetchTypeOK'
  BY DEF FetchTypeOK, Places
<1>. QED  BY <1>1, <1>2, <1>3, <1>4

(* Everything is as before the fetch.                                       *)
LEMMA ForgetStep ==
  ASSUME FetchInv, Forget
  PROVE  FetchInv'
<1> USE DEF Forget
<1>1. FetchIsEarned'
  <2>1. \A p \in Places : answers'[p] = <<>> /\ Len(answers'[p]) = 0
    BY DEF Unasked
  <2>2. answers'["fallback"] = <<>>
    BY <2>1 DEF Places
  <2>. QED  BY <2>1, <2>2, FetchAssumption DEF FetchIsEarned, AllTransient
<1>2. answers' \in [Places -> Seq(Answers)]
  BY DEF Unasked
<1>. QED  BY <1>1, <1>2 DEF FetchInv, FetchTypeOK, InPlace

(* One attempt: what it adds to the place that is being asked.              *)
LEMMA AttemptStep ==
  ASSUME FetchInv, Attempt
  PROVE  FetchInv'
<1> USE FetchAssumption DEF FetchInv
<1>0. PICK p \in Places : p = place
  BY DEF Attempt
<1>1. place \in Places /\ outcome = "none" /\ Pending(p) /\ answers[p] \in Seq(Answers)
  BY <1>0 DEF Attempt, InPlace, FetchTypeOK, Places
<1> DEFINE c == Connector(p)
           n == Len(answers[p])
<1>2. PICK a \in Answers :
        /\ answers' = [answers EXCEPT ![p] = Append(@, a)]
        /\ \/ Usable(c, a) /\ End(p)
           \/ Retryable(c, a) /\ n + 1 < MAX_ATTEMPTS /\ UNCHANGED <<place, outcome>>
           \/ /\ ~ Usable(c, a)
              /\ Retryable(c, a) => n + 1 = MAX_ATTEMPTS
              /\ GiveUp(a)
  BY <1>0 DEF Attempt
<1>3. /\ answers' \in [Places -> Seq(Answers)]
      /\ answers'[p] = Append(answers[p], a)
      /\ \A q \in Places \ {p} : answers'[q] = answers[q]
  BY <1>1, <1>2 DEF FetchTypeOK
<1>4. /\ n \in Nat /\ n + 1 <= MAX_ATTEMPTS
      /\ answers'[p] # <<>> /\ Len(answers'[p]) = n + 1 /\ answers'[p][n + 1] = a
      /\ DOMAIN answers'[p] = 1..(n + 1)
      /\ \A k \in 1..n : answers'[p][k] \in Passing
  <2>1. n \in Nat /\ n < MAX_ATTEMPTS /\ \A k \in 1..n : answers[p][k] \in Passing
    BY <1>1 DEF Pending
  <2>2. \A k \in 1..n : Append(answers[p], a)[k] = answers[p][k]
    BY <1>1
  <2>. QED  BY <1>1, <1>3, <2>1, <2>2
<1>5. AllTransient(p)' /\ Len(answers'[p]) <= MAX_ATTEMPTS
  BY <1>3, <1>4, <1>1 DEF AllTransient, Passing
<1>6. UNCHANGED source /\ source \in [type : Types, mode : Modes]
  BY <1>1 DEF Attempt, InPlace, Places
<1>7. /\ \A q \in Places : Len(answers'[q]) <= MAX_ATTEMPTS /\ AllTransient(q)'
      /\ p = "primary" => answers'["fallback"] = <<>>
      /\ p = "fallback" => source.mode # "none" /\ Lost("primary")'
  <2>1. p = "primary" => answers'["fallback"] = <<>> /\ answers["fallback"] = <<>>
    BY <1>0, <1>3 DEF InPlace, Places
  <2>2. p = "fallback" =>
           /\ source.mode # "none" /\ Lost("primary")
           /\ answers'["primary"] = answers["primary"]
    BY <1>0, <1>3 DEF InPlace, Places
  <2>3. p = "fallback" => Lost("primary")'
    BY <2>2 DEF Lost, AllTransient, Exhausted, EndsWith
  <2>4. CASE p = "primary"
    <3>1. AllTransient("fallback")' /\ Len(answers'["fallback"]) = 0
      BY <2>1, <2>4 DEF AllTransient
    <3>. QED  BY <3>1, <1>5, <2>1, <2>4 DEF Places
  <2>5. CASE p = "fallback"
    <3>1. AllTransient("primary")' /\ Len(answers'["primary"]) <= MAX_ATTEMPTS
      BY <2>3, <2>5, <2>2 DEF Lost
    <3>. QED  BY <3>1, <1>5, <2>2, <2>3, <2>5 DEF Places
  <2>. QED  BY <1>1, <2>4, <2>5 DEF Places
<1>8. CASE Usable(c, a) /\ End(p)
  <2>1. outcome' = p /\ place' = "done" /\ outcome' \in Outcomes
    BY <1>0, <1>8, <1>1 DEF End, Outcomes, Places
  <2>2. EndsWith(p, {"body"} \cup IF source.type = "http"
                                    THEN {"garbled", "busy", "refused"} ELSE {})'
    <3>1. a \in {"body"} \cup IF source.type = "http" THEN {"garbled", "busy", "refused"} ELSE {}
      BY <1>8 DEF Usable, PageUsable, HtmlUsable, FeedUsable, Connector
    <3>. QED  BY <3>1, <1>4, <1>6 DEF EndsWith
  <2>3. FetchIsEarned'
    BY <2>1, <2>2, <1>7, <1>6, <1>1 DEF FetchIsEarned, Lost, Lasting, Places
  <2>. QED  BY <2>1, <2>3, <1>3, <1>6 DEF FetchTypeOK, InPlace, Places
<1>9. CASE Retryable(c, a) /\ n + 1 < MAX_ATTEMPTS /\ UNCHANGED <<place, outcome>>
  <2>1. a \in Passing
    BY <1>9 DEF Retryable, Passing
  <2>2. Pending(p)'
    BY <2>1, <1>4, <1>9 DEF Pending
  <2>3. FetchIsEarned'
    BY <1>0, <1>9, <1>1, <1>6, <1>7 DEF FetchIsEarned, Lost, Lasting, Places
  <2>. QED  BY <2>2, <2>3, <1>0, <1>1, <1>3, <1>6, <1>7, <1>9 DEF FetchTypeOK, InPlace, Places
<1>10. CASE ~ Usable(c, a) /\ (Retryable(c, a) => n + 1 = MAX_ATTEMPTS) /\ GiveUp(a)
  <2>1. a # "crash" => Lost(p)'
    <3> SUFFICES ASSUME a # "crash" PROVE Lost(p)'
      OBVIOUS
    <3>1. a \in Passing => n + 1 = MAX_ATTEMPTS
      BY <1>10 DEF Retryable, Passing
    <3>2. a \in Passing \cup Lasting
      BY <1>10 DEF Usable, PageUsable, HtmlUsable, FeedUsable, Answers, Passing, Lasting
    <3>3. Exhausted(p)' \/ EndsWith(p, Lasting)'
      BY <3>1, <3>2, <1>4 DEF Exhausted, EndsWith, Passing
    <3>. QED  BY <3>3, <1>5 DEF Lost
  <2>2. CASE a = "crash"
    <3>1. place' = "done" /\ outcome' \in {"crash", "fallback_crash"}
      BY <2>2, <1>0, <1>10 DEF GiveUp, End
    <3>2. FetchIsEarned'
      BY <3>1, <1>7, <1>6, <1>1 DEF FetchIsEarned, Lost, Lasting, Places
    <3>. QED  BY <3>1, <3>2, <1>3, <1>6 DEF FetchTypeOK, InPlace, Places, Outcomes
  <2>3. CASE a # "crash" /\ p = "fallback"
    <3>1. place' = "done" /\ outcome' = "both_failed"
      BY <2>3, <1>0, <1>10 DEF GiveUp, End
    <3>2. FetchIsEarned'
      BY <3>1, <2>1, <2>3, <1>7, <1>6 DEF FetchIsEarned, Lost, Lasting, Places
    <3>. QED  BY <3>1, <3>2, <1>3, <1>6 DEF FetchTypeOK, InPlace, Places, Outcomes
  <2>4. CASE a # "crash" /\ p = "primary" /\ ~ Configured
    <3>1. place' = "done" /\ outcome' = "failed" /\ source.mode = "none"
      BY <2>4, <1>0, <1>10 DEF GiveUp, End, Configured
    <3>2. FetchIsEarned'
      BY <3>1, <2>1, <2>4, <1>7, <1>6 DEF FetchIsEarned, Lost, Lasting, Places
    <3>. QED  BY <3>1, <3>2, <1>3, <1>6 DEF FetchTypeOK, InPlace, Places, Outcomes
  <2>5. CASE a # "crash" /\ p = "primary" /\ Configured
    <3>1. place' = "fallback" /\ outcome' = "none" /\ source.mode # "none"
      BY <2>5, <1>1, <1>0, <1>10 DEF GiveUp, End, Configured
    <3>2. FetchIsEarned'
      BY <3>1, <2>1, <2>5, <1>7, <1>6 DEF FetchIsEarned, Lost, Lasting, Places
    <3>3. Pending("fallback")'
      BY <1>7, <2>5 DEF Pending
    <3>. QED  BY <3>1, <3>2, <3>3, <2>1, <2>5, <1>3, <1>6 DEF FetchTypeOK, InPlace, Places
  <2>. QED  BY <2>2, <2>3, <2>4, <2>5, <1>1 DEF Places
<1>. QED  BY <1>2, <1>8, <1>9, <1>10

(* The invariant of a fetch, for every MAX_ATTEMPTS and every set of sources. *)
THEOREM FetchInvariant == FetchSpec => []FetchInv
<1>1. FetchInit => FetchInv
  BY InitFetchInv
<1>2. FetchInv /\ [FetchNext]_fetchVars => FetchInv'
  <2> SUFFICES ASSUME FetchInv, [FetchNext]_fetchVars PROVE FetchInv'
    OBVIOUS
  <2>1. CASE UNCHANGED fetchVars
    BY <2>1 DEF fetchVars, FetchInv, FetchTypeOK, InPlace, FetchIsEarned, Pending, Lost,
                AllTransient, Exhausted, EndsWith
  <2>. QED  BY <2>1, StartStep, AttemptStep, ForgetStep DEF FetchNext
<1>. QED  BY <1>1, <1>2, PTL DEF FetchSpec

(***************************************************************************)
(* FetchIsEarned holds for every MAX_ATTEMPTS and every set of sources.     *)
(***************************************************************************)
THEOREM FetchEarned == FetchSpec => []FetchIsEarned
<1>1. FetchInv => FetchIsEarned
  BY DEF FetchInv
<1>. QED  BY <1>1, FetchInvariant, PTL
-----------------------------------------------------------------------------
(* Before classify has returned, and after the gate.                        *)
Early == {"start", "scout", "normalize", "classify"}
Beyond == {"announce", "route", "end", "dead"}

(* Where each execution may be.                                             *)
InPlaces ==
    /\ at[Main] \notin {"idle", "invoke"}
    /\ \A r \in Resumers :
          /\ at[r] \in {"idle", "invoke", "gate", "brief", "announce", "route", "end", "dead"}
          /\ at[r] # "idle" => at[Main] = "paused" /\ body[r] \in Bodies
    /\ at[Replayer] \in {"idle", "gate", "brief", "route", "end"}

(* Nothing is in the channel until classify returns, and then a row for each  *)
(* update, in their order.                                                 *)
RowsInPlace(s) ==
    s.cls # <<>> =>
       /\ at[Main] \notin Early /\ Len(s.cls) = Len(norms)
       /\ \A k \in DOMAIN norms : s.cls[k].url = norms[k].url

Classifying ==
    /\ RowsInPlace(saved.state) /\ \A x \in Executions : RowsInPlace(state[x])
    /\ at[Main] \in Early =>
          ~ state[Main].flag /\ audits["classify"] = 0 /\ tries < MaxTries
    /\ audits["classify"] <= 1
    /\ paid \subseteq cached /\ repaid = {}

(* What the decision b may have made of what classify returned.             *)
Bears(cls, rows, b) ==
    /\ Len(cls) = Len(rows)
    /\ \A k \in DOMAIN rows :
          /\ cls[k].needs => /\ rows[k].needs /\ b.decision = "override"
                             /\ b.url # rows[k].url
                             /\ ~ (b.url = AnyUrl /\ rows[k].in_scope)
          /\ b.decision = "reject" => ~ cls[k].in_scope
          /\ ~ rows[k].in_scope => ~ cls[k].in_scope

(* These channels hold what a request that got to the gate has decided.     *)
HasDecided(s) ==
    s.by \in Resumers /\ Invoked(s.by) /\ Bears(s.cls, judged, body[s.by])

Reviewing ==
    /\ \A k \in DOMAIN judged : judged[k].needs => judged[k].in_scope
    /\ at[Main] = "brief" \/ Past(Main) => \A row \in ToSet(judged) : ~ row.needs
    /\ saved.next = "gate" =>
          at[Main] \in {"gate", "paused", "dead"} /\ saved.state.cls = judged
    /\ at[Main] = "paused" /\ saved.next # "gate" =>
          saved.next \in {"brief", "route", "end"} /\ HasDecided(saved.state)
    /\ \A r \in Resumers :
          /\ at[r] = "gate" => state[r].cls = judged
          /\ at[r] = "brief" \/ Past(r) => HasDecided(state[r])

(* No other request has invoked the graph.                                   *)
Sole(c) == (c # Main => Invoked(c)) /\ \A r \in Resumers \ {c} : ~ Invoked(r)

(* What its checkpoint says of the execution that goes on alone.             *)
Carried(c) ==
    /\ saved.state = state[c]
    /\ at[c] \in Early \cup {"gate", "brief", "route", "end"} => saved.next = at[c]
    /\ at[c] = "paused" => saved.next = "gate"
    /\ at[c] = "announce" => saved.next = "brief"
    /\ briefing # NoBriefing => at[c] \in Beyond /\ briefing = GroupsOf(c)
    /\ saved.next # "end" => state[c].decisions = {}
    /\ saved.next = "end" /\ "route" \notin state[c].errors =>
          state[c].decisions = Decide({}, state[c].cls)
    /\ saved.next \in {"route", "end"} =>
          IF briefing = NoBriefing THEN "brief" \in state[c].errors \/ GroupsOf(c) = {}
          ELSE "audit_write" \in state[c].errors \/ audits["briefing"] = 1

BriefedByOne ==
    /\ briefing # NoBriefing =>
          \E x \in Writers : at[x] \in Beyond /\ briefing = GroupsOf(x)
    /\ briefing = NoBriefing =>
          audits["briefing"] = 0 /\ \A x \in Executions : at[x] # "announce"
    /\ \A x \in Executions : at[x] = "announce" =>
          audits["briefing"] = 0 /\ \A y \in Executions : at[y] = "announce" => y = x
    /\ audits["briefing"] <= 1
    /\ \A c \in Writers : Sole(c) => Carried(c)

Replaying ==
    /\ saved.state.groups = {} /\ \A x \in Writers : state[x].groups = {}
    /\ at[Replayer] \in {"gate", "brief"} => state[Replayer].groups = {}
    /\ at[Replayer] \in {"route", "end"} =>
          "brief" \in state[Replayer].errors \/ state[Replayer].groups = GroupsOf(Replayer)

PipelineInv ==
    PipelineTypeOK /\ InPlaces /\ Classifying /\ Reviewing /\ BriefedByOne /\ Replaying

-----------------------------------------------------------------------------
(* A set of numbers has a least one.                                        *)
LEMMA LeastExists ==
  ASSUME NEW S \in SUBSET Nat, S # {}
  PROVE  \E x \in S : \A y \in S : x <= y
<1> DEFINE less == {p \in Nat \X Nat : p[1] < p[2]}
<1>1. IsWellFoundedOn(less, Nat)
  BY NatLessThanWellFounded DEF OpToRel
<1>2. PICK x \in S : \A y \in S : ~ (<<y, x>> \in less)
  BY <1>1, WFMin
<1>3. \A y \in S : ~ (y < x)
  BY <1>2
<1>. QED  BY <1>3

(* LastOf is the last row of a URL that has one.                            *)
LEMMA LastIs ==
  ASSUME NEW rows \in Seq(Rows), NEW url, \E row \in ToSet(rows) : row.url = url
  PROVE  /\ LastOf(rows, url) \in ToSet(rows) /\ LastOf(rows, url) \in Rows
         /\ LastOf(rows, url).url = url
<1> DEFINE Ends(n) == {k \in DOMAIN rows : k + n = Len(rows) /\ rows[k].url = url}
           Backwards == {n \in Nat : Ends(n) # {}}
<1>0. DOMAIN rows = 1..Len(rows) /\ Len(rows) \in Nat /\ \A k \in DOMAIN rows : rows[k] \in Rows
  OBVIOUS
<1>1. PICK i \in DOMAIN rows : rows[i].url = url
  BY DEF ToSet
<1>2. Len(rows) - i \in Backwards
  BY <1>0, <1>1
<1>3. PICK n \in Backwards : \A m \in Backwards : n <= m
  <2>1. Backwards \in SUBSET Nat /\ Backwards # {}
    BY <1>2
  <2> HIDE DEF Backwards
  <2>. QED  BY <2>1, LeastExists
<1>4. PICK k \in DOMAIN rows : k + n = Len(rows) /\ rows[k].url = url
  BY <1>3
<1>5. ASSUME NEW j \in DOMAIN rows, rows[j].url = url
      PROVE  j <= k
  <2>1. Len(rows) - j \in Backwards
    BY <1>0, <1>5
  <2>2. n <= Len(rows) - j
    BY <1>3, <2>1
  <2>. QED  BY <1>0, <1>4, <2>2
<1>6. /\ rows[k] \in ToSet(rows)
      /\ \E q \in DOMAIN rows : /\ rows[q] = rows[k] /\ rows[k].url = url
                                /\ \A j \in DOMAIN rows : rows[j].url = url => j <= q
  BY <1>4, <1>5 DEF ToSet
<1>7. /\ LastOf(rows, url) \in ToSet(rows)
      /\ \E q \in DOMAIN rows : rows[q] = LastOf(rows, url) /\ LastOf(rows, url).url = url
  BY <1>6 DEF LastOf
<1>. QED  BY <1>0, <1>7

(* What norms is made of.                                                   *)
LEMMA FeedFacts ==
  ASSUME norms \in Feeds
  PROVE  /\ Len(norms) \in Nat /\ DOMAIN norms = 1..Len(norms)
         /\ \A k \in DOMAIN norms : norms[k] \in Updates /\ norms[k].url \in Urls
<1>1. norms \in Seq(ToSet(norms))
  BY PipelineAssumption
<1>2. ToSet(norms) \subseteq Updates
  BY DEF Updates
<1>. QED  BY <1>1, <1>2 DEF Urls

(* What a briefing would say is of the updates, in groups with a key each.  *)
LEMMA MembersTyped ==
  ASSUME norms \in Feeds, NEW rows \in Seq(Rows), NEW stored \in BOOLEAN
  PROVE  /\ Members(rows, stored) \in SUBSET Briefed
         /\ rows = <<>> => Members(rows, stored) = {}
<1>1. ASSUME NEW k \in DOMAIN norms, \E row \in ToSet(rows) : row.url = norms[k].url
      PROVE  [update |-> k, severity |-> LastOf(rows, norms[k].url).severity,
              date |-> DateOf(norms[k], stored)] \in Briefed
  <2>1. LastOf(rows, norms[k].url) \in Rows
    BY <1>1, LastIs
  <2>2. LastOf(rows, norms[k].url).severity \in Severities \cup {NoSeverity}
    BY <2>1 DEF Rows
  <2>3. k \in Nat \ {0}
    BY FeedFacts
  <2>4. DateOf(norms[k], stored) \in {"published", "created", "unknown"}
    BY DEF DateOf
  <2>. QED  BY <2>2, <2>3, <2>4 DEF Briefed
<1>2. rows = <<>> => ToSet(rows) = {}
  BY DEF ToSet
<1>. QED  BY <1>1, <1>2 DEF Members

(* Groups parts its members by their key, and leaves none out.              *)
LEMMA GroupsOfMembers ==
  ASSUME NEW M \in SUBSET Briefed
  PROVE  /\ Groups(M) \in Briefings
         /\ UNION Groups(M) = M
         /\ Groups(M) = {} <=> M = {}
         /\ \A g, h \in Groups(M) : \A m \in g, n \in h : GroupKey(m) = GroupKey(n) <=> g = h
<1> DEFINE Keys == {GroupKey(m) : m \in M}
           Of(key) == {m \in M : GroupKey(m) = key}
<1>1. Groups(M) = {Of(key) : key \in Keys}
  BY DEF Groups
<1>2. \A key \in Keys : Of(key) \in SUBSET M /\ Of(key) # {}
  OBVIOUS
<1>3. \A m \in M : m \in Of(GroupKey(m)) /\ GroupKey(m) \in Keys
  OBVIOUS
<1>4. \A key \in Keys : \A m \in Of(key) : GroupKey(m) = key
  OBVIOUS
<1> HIDE DEF Keys, Of
<1>5. Groups(M) \in Briefings
  <2>1. ASSUME NEW g \in Groups(M) PROVE g \in (SUBSET Briefed) \ {{}}
    <3>1. PICK key \in Keys : g = Of(key)
      BY <1>1
    <3>. QED  BY <1>2, <3>1
  <2>. QED  BY <2>1 DEF Briefings
<1>6. UNION Groups(M) = M
  BY <1>1, <1>2, <1>3
<1>7. Groups(M) = {} <=> M = {}
  <2>1. M # {} => Groups(M) # {}
    BY <1>1, <1>3
  <2>2. Groups(M) # {} => M # {}
    BY <1>1, <1>2
  <2>. QED  BY <2>1, <2>2
<1>8. ASSUME NEW g \in Groups(M), NEW h \in Groups(M), NEW m \in g, NEW n \in h
      PROVE  GroupKey(m) = GroupKey(n) <=> g = h
  BY <1>1, <1>4
<1>. QED  BY <1>5, <1>6, <1>7, <1>8

(* What an execution would brief.                                           *)
LEMMA GroupsTyped ==
  ASSUME PipelineTypeOK, NEW x \in Executions
  PROVE  /\ GroupsOf(x) \in Briefings
         /\ state[x].cls = <<>> => GroupsOf(x) = {}
<1>1. state[x].cls \in Seq(Rows) /\ norms \in Feeds /\ Stored(x) \in BOOLEAN
  BY DEF PipelineTypeOK, Channels, Stored, InReplay
<1>2. /\ Members(state[x].cls, Stored(x)) \in SUBSET Briefed
      /\ state[x].cls = <<>> => Members(state[x].cls, Stored(x)) = {}
  BY <1>1, MembersTyped
<1>. QED  BY <1>2, GroupsOfMembers DEF GroupsOf

(* They are as they were while the rows and the updates are.                *)
LEMMA GroupsStay ==
  ASSUME NEW x \in Executions, norms' = norms, entry' = entry, state'[x].cls = state[x].cls
  PROVE  GroupsOf(x)' = GroupsOf(x)
<1>1. Members(state[x].cls, Stored(x))' = Members(state[x].cls, Stored(x))
  BY DEF Members, Stored
<1>. QED  BY <1>1 DEF GroupsOf

(* Adding changes errors alone.                                             *)
LEMMA AddingIs ==
  ASSUME NEW s \in Channels, NEW steps \in SUBSET Steps
  PROVE  /\ Adding(s, steps) \in Channels /\ Adding(s, {}) = s
         /\ Adding(s, steps).cls = s.cls /\ Adding(s, steps).flag = s.flag
         /\ Adding(s, steps).errors = s.errors \cup steps
         /\ Adding(s, steps).decisions = s.decisions /\ Adding(s, steps).groups = s.groups
         /\ Adding(s, steps).by = s.by
  BY DEF Adding, Channels

(* What everybody has who moves on.                                         *)
LEMMA AdvanceIs ==
  ASSUME PipelineTypeOK, NEW x \in Executions, NEW node \in Nodes, NEW s \in Channels,
         Advance(x, node, s)
  PROVE  /\ at' \in [Executions -> Nodes] /\ state' \in [Executions -> Channels]
         /\ saved' \in [next : Nodes, state : Channels]
         /\ at'[x] = node /\ state'[x] = s
         /\ \A y \in Executions : y # x => at'[y] = at[y] /\ state'[y] = state[y]
         /\ x = Replayer => saved' = saved
         /\ x # Replayer => saved'.next = node /\ saved'.state = s
  BY DEF PipelineTypeOK, Advance, Goto, Become, InReplay

(* The first invocation is not the replay.                                  *)
LEMMA MainIs ==
  Main \in Executions /\ Main \in Writers /\ Main # Replayer /\ Replayer \in Executions
  BY PipelineAssumption DEF Executions, Writers

(* Before the run has started.                                              *)
LEMMA InitPipelineInv == PipelineInit => PipelineInv
<1> SUFFICES ASSUME PipelineInit PROVE PipelineInv
  OBVIOUS
<1>1. /\ Empty \in Channels /\ Empty.cls = <<>> /\ ~ Empty.flag /\ Empty.errors = {}
      /\ Empty.groups = {} /\ Empty.decisions = {}
  BY DEF Empty, Channels, Briefings, Writers
<1>2. /\ \A x \in Executions : state[x] = Empty
      /\ saved.next = "start" /\ saved.state = Empty
      /\ at[Main] = "start" /\ \A x \in Executions : x # Main => at[x] = "idle"
  BY MainIs DEF PipelineInit
<1>3. PipelineTypeOK
  BY <1>1, PipelineAssumption
     DEF PipelineInit, PipelineTypeOK, Nodes, Actions, Briefings, NoBriefing
<1>4. InPlaces
  BY <1>2, PipelineAssumption DEF InPlaces, Executions, Writers
<1>5. Classifying
  BY <1>1, <1>2, MainIs, PipelineAssumption DEF PipelineInit, Classifying, RowsInPlace, Actions
<1>6. Reviewing
  BY <1>1, <1>2, MainIs, PipelineAssumption DEF Reviewing, judged, Past, Executions, Writers
<1>7. Replaying
  BY <1>1, <1>2, MainIs DEF Replaying, Executions
<1>8. BriefedByOne
  <2>1. briefing = {} /\ audits["briefing"] = 0
    BY DEF PipelineInit, Actions, NoBriefing
  <2>2. ASSUME NEW c \in Writers, Sole(c)
        PROVE  Carried(c)
    <3>1. c = Main
      BY <1>2, <2>2 DEF Sole, Invoked, Executions
    <3>. QED  BY <1>1, <1>2, <2>1, <3>1, MainIs DEF Carried, Early, NoBriefing
  <2>. QED  BY <1>2, <2>1, <2>2 DEF BriefedByOne, NoBriefing
<1>. QED  BY <1>3, <1>4, <1>5, <1>6, <1>7, <1>8 DEF PipelineInv

(* Before classify has returned there is nothing but the first invocation.  *)
LEMMA EarlyFacts ==
  ASSUME PipelineInv, at[Main] \in Early
  PROVE  /\ \A r \in Resumers : at[r] = "idle"
         /\ \A x \in Executions : state[x].cls = <<>>
         /\ saved.next = at[Main] /\ saved.state = state[Main]
         /\ briefing = {} /\ audits["briefing"] = 0 /\ audits["classify"] = 0
         /\ tries < MaxTries /\ ~ state[Main].flag /\ Sole(Main) /\ state[Main].decisions = {}
         /\ \A x \in Executions : at[x] # "announce"
<1>1. \A r \in Resumers : at[r] = "idle"
  BY DEF PipelineInv, InPlaces, Early
<1>2. Sole(Main) /\ Carried(Main)
  BY <1>1, MainIs DEF Sole, Invoked, PipelineInv, BriefedByOne
<1>3. saved.next = at[Main] /\ saved.state = state[Main]
  BY <1>2 DEF Carried
<1>4. briefing = {}
  BY <1>2 DEF Carried, Early, Beyond, NoBriefing
<1>5. audits["briefing"] = 0 /\ \A x \in Executions : at[x] # "announce"
  BY <1>4 DEF PipelineInv, BriefedByOne, NoBriefing
<1>6. state[Main].decisions = {}
  BY <1>2, <1>3 DEF Carried, Early
<1>7. \A x \in Executions : state[x].cls = <<>>
  BY DEF PipelineInv, Classifying, RowsInPlace
<1>. QED  BY <1>1, <1>2, <1>3, <1>4, <1>5, <1>6, <1>7 DEF PipelineInv, Classifying

(* A decision stands while its request and what classify returned do.       *)
LEMMA DecisionStands ==
  ASSUME NEW s, HasDecided(s), judged' = judged,
         \A q \in Resumers :
            at[q] \notin {"idle", "invoke"} =>
               at'[q] \notin {"idle", "invoke"} /\ body'[q] = body[q]
  PROVE  /\ s.by \in Resumers /\ at'[s.by] \notin {"idle", "invoke"}
         /\ Bears(s.cls, judged', body'[s.by])
BY DEF HasDecided, Invoked

(* What the invariant says of review, briefing and replay is of what the       *)
(* graph carries and stores alone.                                         *)
LEMMA UntouchedKept ==
  ASSUME PipelineInv, PipelineTypeOK', InPlaces', Classifying',
         UNCHANGED <<entry, norms, at, state, saved, body, audits, briefing>>
  PROVE  PipelineInv'
<1>1. Reviewing'
  BY DEF PipelineInv, Reviewing, HasDecided, Invoked, Past, judged
<1>2. \A x \in Executions : GroupsOf(x)' = GroupsOf(x)
  BY GroupsStay
<1>3. Writers \subseteq Executions /\ Replayer \in Executions
  BY DEF Executions
<1>4. Replaying'
  BY <1>2, <1>3 DEF PipelineInv, Replaying
<1>5. \A c \in Writers : Sole(c)' => Carried(c)'
  <2>1. TAKE c \in Writers
  <2>2. (Sole(c)' <=> Sole(c)) /\ GroupsOf(c)' = GroupsOf(c)
    BY <1>2, <1>3 DEF Sole, Invoked
  <2>. QED  BY <2>2 DEF PipelineInv, BriefedByOne, Carried
<1>6. BriefedByOne'
  BY <1>2, <1>3, <1>5 DEF PipelineInv, BriefedByOne
<1>. QED  BY <1>1, <1>4, <1>6 DEF PipelineInv

(* The nodes before classify: the next place, and perhaps an entry of errors. *)
LEMMA EarlyStep ==
  ASSUME PipelineInv, at[Main] \in Early, NEW node \in {"scout", "normalize", "classify"},
         NEW steps \in SUBSET Steps, Advance(Main, node, Adding(state[Main], steps)),
         norms' \in Feeds, faults' \in 0..MaxFaults,
         UNCHANGED <<entry, body, tries, web, audits, briefing, sent>>
  PROVE  PipelineInv'
<1> DEFINE s == Adding(state[Main], steps)
<1>0. PipelineTypeOK /\ state[Main] \in Channels
  BY MainIs DEF PipelineInv, PipelineTypeOK
<1>1. s \in Channels /\ s.cls = <<>> /\ s.flag = state[Main].flag /\ s.decisions = {}
      /\ s.groups = {}
  BY <1>0, AddingIs, EarlyFacts, MainIs DEF PipelineInv, Replaying
<1>2. Advance(Main, node, s)
  OBVIOUS
<1> HIDE DEF s
<1>3. /\ at' \in [Executions -> Nodes] /\ state' \in [Executions -> Channels]
      /\ saved' \in [next : Nodes, state : Channels]
      /\ at'[Main] = node /\ state'[Main] = s /\ saved'.next = node /\ saved'.state = s
      /\ \A y \in Executions : y # Main => at'[y] = at[y] /\ state'[y] = state[y]
  <2>1. node \in Nodes
    BY DEF Nodes
  <2>. QED  BY <1>0, <1>1, <1>2, <2>1, MainIs, AdvanceIs
<1>4. UNCHANGED <<entry, body, tries, cached, paid, repaid, audits, briefing,
                sent>>
  BY DEF web
<1>5. PipelineTypeOK'
  BY <1>0, <1>3, <1>4 DEF PipelineTypeOK
<1>6. \A r \in Resumers : at'[r] = "idle"
  BY <1>3, EarlyFacts, PipelineAssumption DEF Executions, Writers
<1>7. InPlaces'
  BY <1>3, <1>6, MainIs DEF PipelineInv, InPlaces
<1>8. \A x \in Executions : state'[x].cls = <<>>
  BY <1>1, <1>3, EarlyFacts
<1>9. Classifying'
  BY <1>1, <1>3, <1>4, <1>8, EarlyFacts, MainIs DEF PipelineInv, Classifying, RowsInPlace
<1>10. Reviewing'
  <2>1. judged' = <<>>
    BY <1>8, MainIs DEF judged
  <2>. QED  BY <1>3, <1>6, <2>1 DEF Reviewing, Past
<1>11. Replaying'
  <2>1. GroupsOf(Replayer) = {} /\ GroupsOf(Replayer)' = {}
    <3>1. GroupsOf(Replayer) = {}
      BY <1>0, EarlyFacts, MainIs, GroupsTyped
    <3>2. GroupsOf(Replayer)' = {}
      <4>1. Members(state[Replayer].cls, Stored(Replayer))' = {}
        <5>1. (state[Replayer].cls)' = <<>>
          BY <1>8, MainIs
        <5>. QED  BY <5>1 DEF Members, ToSet
      <4>2. Groups({}) = {}
        BY DEF Groups
      <4>. QED  BY <4>1, <4>2 DEF GroupsOf
    <3>. QED  BY <3>1, <3>2
  <2>2. at'[Replayer] = at[Replayer] /\ state'[Replayer] = state[Replayer]
    BY <1>3, MainIs
  <2>3. saved'.state.groups = {} /\ \A x \in Writers : state'[x].groups = {}
    BY <1>1, <1>3 DEF PipelineInv, Replaying, Executions
  <2>. QED  BY <2>1, <2>2, <2>3 DEF PipelineInv, Replaying
<1>12. BriefedByOne'
  <2>1. ASSUME NEW c \in Writers, Sole(c)'
        PROVE  Carried(c)'
    <3>1. c = Main
      BY <1>6, <2>1 DEF Sole, Invoked, Writers
    <3>. QED  BY <1>1, <1>3, <1>4, <3>1, EarlyFacts DEF Carried, Early, NoBriefing
  <2>2. briefing' = {} /\ audits'["briefing"] = 0 /\ \A x \in Executions : at'[x] # "announce"
    BY <1>3, <1>4, EarlyFacts
  <2>. QED  BY <2>1, <2>2 DEF BriefedByOne, NoBriefing
<1>. QED  BY <1>5, <1>7, <1>9, <1>10, <1>11, <1>12 DEF PipelineInv

(* An attempt of classify that raises merges nothing.                        *)
LEMMA RaisesStep ==
  ASSUME PipelineInv, ClassifyRaises
  PROVE  PipelineInv'
<1>0. PipelineTypeOK /\ at[Main] = "classify" /\ at[Main] \in Early
  BY DEF PipelineInv, ClassifyRaises, Early
<1>1. /\ UNCHANGED <<entry, norms, state, saved, body, audits, briefing, sent, faults>>
      /\ tries' = tries + 1
      /\ at' = [at EXCEPT ![Main] = IF tries' = MaxTries THEN "failed" ELSE "classify"]
  BY DEF ClassifyRaises, Goto
<1>2. tries \in Nat /\ tries < MaxTries /\ MaxTries \in Nat
  BY <1>0, EarlyFacts, PipelineAssumption DEF PipelineTypeOK
<1>3. /\ tries' \in 0..MaxTries
      /\ at'[Main] = "failed" \/ (at'[Main] = "classify" /\ tries' < MaxTries)
      /\ at' \in [Executions -> Nodes]
      /\ \A y \in Executions : y # Main => at'[y] = at[y]
  BY <1>0, <1>1, <1>2, MainIs DEF PipelineTypeOK, Nodes
<1>4. PICK n \in Asked : \E found \in SUBSET Searched(n) :
         /\ cached' = cached \cup found /\ paid' = paid \cup found
         /\ repaid' = repaid \cup (found \cap paid)
  BY DEF ClassifyRaises, Search, Pay
<1>5. PICK found \in SUBSET Searched(n) :
         /\ cached' = cached \cup found /\ paid' = paid \cup found
         /\ repaid' = repaid \cup (found \cap paid)
  BY <1>4
<1>51. found \subseteq Urls /\ found \cap cached = {}
  BY <1>0, FeedFacts DEF Searched, Asked, PipelineTypeOK
<1>6. paid' \subseteq cached' /\ repaid' = {} /\ cached' \subseteq Urls
  BY <1>0, <1>5, <1>51 DEF PipelineInv, Classifying, PipelineTypeOK
<1>7. PipelineTypeOK'
  BY <1>0, <1>1, <1>3, <1>6 DEF PipelineTypeOK
<1>8. \A r \in Resumers : at'[r] = "idle"
  BY <1>0, <1>3, EarlyFacts, PipelineAssumption DEF Executions, Writers
<1>9. InPlaces'
  BY <1>3, <1>8, MainIs DEF PipelineInv, InPlaces
<1>10. \A x \in Executions : state'[x].cls = <<>>
  BY <1>0, <1>1, EarlyFacts
<1>11. Classifying'
  <2>1. RowsInPlace(saved.state)' /\ \A x \in Executions : RowsInPlace(state[x])'
    <3>1. saved'.state.cls = <<>>
      BY <1>0, <1>1, EarlyFacts, MainIs
    <3>. QED  BY <1>10, <3>1 DEF RowsInPlace
  <2>2. ~ state'[Main].flag /\ audits'["classify"] = 0
    BY <1>0, <1>1, EarlyFacts
  <2>. QED  BY <1>3, <1>6, <2>1, <2>2 DEF Classifying, Early
<1>12. Reviewing'
  <2>1. judged' = <<>>
    BY <1>10, MainIs DEF judged
  <2>2. saved'.next = "classify"
    BY <1>0, <1>1, EarlyFacts
  <2>. QED  BY <1>3, <1>8, <2>1, <2>2 DEF Reviewing, Past
<1>13. Replaying'
  <2>1. GroupsOf(Replayer)' = GroupsOf(Replayer)
    BY <1>1, MainIs, GroupsStay
  <2>. QED  BY <1>1, <1>3, <2>1, MainIs DEF PipelineInv, Replaying
<1>14. BriefedByOne'
  <2>1. ASSUME NEW c \in Writers, Sole(c)'
        PROVE  Carried(c)'
    <3>1. c = Main
      BY <1>8, <2>1 DEF Sole, Invoked, Writers
    <3>2. saved'.next = "classify" /\ saved'.state = state'[Main] /\ state'[Main].decisions = {}
      BY <1>0, <1>1, EarlyFacts
    <3>. QED  BY <1>0, <1>1, <1>3, <3>1, <3>2, EarlyFacts DEF Carried, Early, NoBriefing
  <2>2. briefing' = {} /\ audits'["briefing"] = 0 /\ \A x \in Executions : at'[x] # "announce"
    BY <1>0, <1>1, <1>3, EarlyFacts
  <2>. QED  BY <2>1, <2>2 DEF BriefedByOne, NoBriefing
<1>. QED  BY <1>7, <1>9, <1>11, <1>12, <1>13, <1>14 DEF PipelineInv

(* An evicted answer is no longer among those that were paid for.            *)
LEMMA EvictStep ==
  ASSUME PipelineInv, Evict
  PROVE  PipelineInv'
<1>1. PICK url \in cached : cached' = cached \ {url} /\ paid' = paid \ {url}
  BY DEF Evict
<1>2. UNCHANGED <<entry, norms, at, state, saved, body, tries, repaid, audits, briefing, sent,
                  faults>>
  BY DEF Evict
<1>3. PipelineTypeOK'
  BY <1>1, <1>2 DEF PipelineInv, PipelineTypeOK
<1>4. InPlaces'
  BY <1>2 DEF PipelineInv, InPlaces
<1>5. Classifying'
  BY <1>1, <1>2 DEF PipelineInv, Classifying, RowsInPlace
<1>. QED  BY <1>2, <1>3, <1>4, <1>5, UntouchedKept

(* node_classify returns: a row for each update, and the flag is up if one   *)
(* of them is to be reviewed.                                              *)
LEMMA ClassifyStep ==
  ASSUME PipelineInv, Classify
  PROVE  PipelineInv'
<1>0. PipelineTypeOK /\ at[Main] = "classify" /\ at[Main] \in Early /\ state[Main] \in Channels
  BY MainIs DEF PipelineInv, PipelineTypeOK, Classify, Early
<1>1. PICK rows \in Classified, errors \in {{}, {"audit_write"}} :
         LET s == state[Main]
             flag == Aggregate(s.flag, rows)
             failed == \E k \in Asked : rows[k].severity = NoSeverity
         IN  /\ Written("classify", errors)
             /\ Advance(Main, IF flag THEN "gate" ELSE "brief",
                        [Adding(s, errors \cup IF failed THEN {"classify"} ELSE {})
                            EXCEPT !.cls = @ \o rows, !.flag = flag])
  BY DEF Classify
<1>2. PICK more \in SUBSET Steps :
         Advance(Main, IF Aggregate(state[Main].flag, rows) THEN "gate" ELSE "brief",
                 [Adding(state[Main], more)
                     EXCEPT !.cls = @ \o rows, !.flag = Aggregate(state[Main].flag, rows)])
  BY <1>1 DEF Steps
<1>3. /\ rows \in Seq(Rows) /\ DOMAIN rows = DOMAIN norms /\ Len(rows) = Len(norms)
      /\ DOMAIN rows = 1..Len(rows)
      /\ \A k \in DOMAIN norms : rows[k].url = norms[k].url
      /\ \A k \in DOMAIN norms : rows[k].needs => rows[k].in_scope
  <2>1. norms \in Feeds
    BY <1>0 DEF PipelineTypeOK
  <2>2. rows \in [1..Len(norms) -> Rows] /\ Len(norms) \in Nat
    BY <2>1, FeedFacts DEF Classified
  <2>3. rows \in Seq(Rows) /\ Len(rows) = Len(norms)
    BY <2>2
  <2>4. ASSUME NEW k \in DOMAIN norms
        PROVE  rows[k].url = norms[k].url /\ (rows[k].needs => rows[k].in_scope)
    <3>1. PICK v \in Verdicts \cup {Failed} : rows[k] = RowOf(norms[k], v)
      BY DEF Classified
    <3>2. /\ rows[k].url = norms[k].url /\ rows[k].in_scope = InScope(norms[k])
          /\ rows[k].needs = (InScope(norms[k]) /\ ForReview(v))
      BY <3>1 DEF RowOf
    <3>. QED  BY <3>2
  <2>. QED  BY <2>1, <2>2, <2>3, <2>4, FeedFacts
<1> DEFINE flag == Aggregate(state[Main].flag, rows)
           s == [Adding(state[Main], more) EXCEPT !.cls = @ \o rows, !.flag = flag]
           node == IF flag THEN "gate" ELSE "brief"
<1>4. /\ flag \in BOOLEAN
      /\ ~ flag => \A row \in ToSet(rows) : ~ row.needs
  BY DEF Aggregate
<1>5. Advance(Main, node, s)
  BY <1>2
<1>6. /\ s \in Channels /\ s.cls = rows /\ s.flag = flag /\ s.decisions = {} /\ s.groups = {}
  <2>1. /\ Adding(state[Main], more) \in Channels /\ Adding(state[Main], more).cls = <<>>
        /\ Adding(state[Main], more).decisions = {} /\ Adding(state[Main], more).groups = {}
    BY <1>0, AddingIs, EarlyFacts, MainIs DEF PipelineInv, Replaying
  <2>2. <<>> \o rows = rows
    BY <1>3
  <2> HIDE DEF flag
  <2>. QED  BY <1>3, <1>4, <2>1, <2>2 DEF Channels
<1>7. /\ node \in Nodes /\ node \in {"gate", "brief"}
      /\ node = "brief" => \A row \in ToSet(rows) : ~ row.needs
  BY <1>4 DEF Nodes
<1> HIDE DEF flag, s, node
<1>8. /\ at' \in [Executions -> Nodes] /\ state' \in [Executions -> Channels]
      /\ saved' \in [next : Nodes, state : Channels]
      /\ at'[Main] = node /\ state'[Main] = s /\ saved'.next = node /\ saved'.state = s
      /\ \A y \in Executions : y # Main => at'[y] = at[y] /\ state'[y] = state[y]
  BY <1>0, <1>5, <1>6, <1>7, MainIs, AdvanceIs
<1>9. /\ audits' \in [Actions -> Nat] /\ audits'["briefing"] = 0 /\ audits'["classify"] <= 1
      /\ faults' \in 0..MaxFaults
  <2>1. audits \in [Actions -> Nat] /\ audits["classify"] = 0 /\ audits["briefing"] = 0
        /\ faults \in 0..MaxFaults /\ MaxFaults \in Nat
    BY <1>0, EarlyFacts, PipelineAssumption DEF PipelineTypeOK
  <2>2. Written("classify", errors)
    BY <1>1
  <2>. QED  BY <2>1, <2>2 DEF Written, Cost, Actions
<1>10. /\ UNCHANGED <<entry, norms, body, tries, briefing, sent>>
       /\ cached' = {} /\ paid' = {}
  BY DEF Classify, LastSearch
<1>11. repaid' = {}
  <2>1. PICK found \in SUBSET Searched(Len(norms)) : repaid' = repaid \cup (found \cap paid)
    BY DEF Classify, LastSearch
  <2>2. found \cap cached = {}
    BY DEF Searched
  <2>. QED  BY <2>1, <2>2 DEF PipelineInv, Classifying
<1>12. PipelineTypeOK'
  BY <1>0, <1>8, <1>9, <1>10, <1>11 DEF PipelineTypeOK
<1>13. \A r \in Resumers : at'[r] = "idle"
  BY <1>0, <1>8, EarlyFacts, PipelineAssumption DEF Executions, Writers
<1>14. InPlaces'
  BY <1>7, <1>8, <1>13, MainIs DEF PipelineInv, InPlaces
<1>15. Classifying'
  <2>1. at'[Main] \notin Early
    BY <1>7, <1>8 DEF Early
  <2>2. RowsInPlace(saved.state)' /\ \A x \in Executions : RowsInPlace(state[x])'
    <3>1. \A x \in Executions : x # Main => state'[x].cls = <<>>
      BY <1>0, <1>8, EarlyFacts
    <3>. QED  BY <1>3, <1>6, <1>8, <1>10, <2>1, <3>1 DEF RowsInPlace
  <2>. QED  BY <1>9, <1>10, <1>11, <2>1, <2>2 DEF Classifying
<1>16. Reviewing'
  <2>1. judged' = rows
    BY <1>6, <1>8 DEF judged
  <2>. QED  BY <1>3, <1>6, <1>7, <1>8, <1>13, <2>1 DEF Reviewing, Past
<1>17. Replaying'
  <2>1. GroupsOf(Replayer)' = GroupsOf(Replayer)
    BY <1>8, <1>10, MainIs, GroupsStay
  <2>2. at'[Replayer] = at[Replayer] /\ state'[Replayer] = state[Replayer]
    BY <1>8, MainIs
  <2>3. saved'.state.groups = {} /\ \A x \in Writers : state'[x].groups = {}
    BY <1>6, <1>8 DEF PipelineInv, Replaying, Executions
  <2>. QED  BY <2>1, <2>2, <2>3 DEF PipelineInv, Replaying
<1>18. BriefedByOne'
  <2>1. ASSUME NEW c \in Writers, Sole(c)'
        PROVE  Carried(c)'
    <3>1. c = Main
      BY <1>13, <2>1 DEF Sole, Invoked, Writers
    <3>. QED  BY <1>0, <1>6, <1>7, <1>8, <1>10, <3>1, EarlyFacts DEF Carried, Early, NoBriefing
  <2>2. briefing' = {} /\ \A x \in Executions : at'[x] # "announce"
    BY <1>0, <1>7, <1>8, <1>10, EarlyFacts
  <2>. QED  BY <1>9, <2>1, <2>2 DEF BriefedByOne, NoBriefing
<1>. QED  BY <1>12, <1>14, <1>15, <1>16, <1>17, <1>18 DEF PipelineInv

(* Whether an execution is alone depends on who is idle.                     *)
LEMMA StillStep ==
  ASSUME PipelineInv, NEW x \in Writers, NEW node \in Nodes,
         \/ x = Main /\ at[Main] = "gate" /\ node = "paused"
         \/ /\ at[x] \in Nodes \ {"idle", "invoke", "paused", "end", "failed", "dead"}
            /\ node = "dead",
         at' = [at EXCEPT ![x] = node], faults' \in 0..MaxFaults,
         UNCHANGED <<entry, norms, state, saved, body, tries, web, audits, briefing, sent>>
  PROVE  PipelineInv'
<1>0. PipelineTypeOK /\ x \in Executions /\ x # Replayer
  BY PipelineAssumption DEF PipelineInv, Executions, Writers
<1>1. /\ at' \in [Executions -> Nodes] /\ at'[x] = node
      /\ \A y \in Executions : y # x => at'[y] = at[y]
  BY <1>0 DEF PipelineTypeOK
<1>2. UNCHANGED <<entry, norms, state, saved, body, tries, cached, paid, repaid, audits, briefing,
                sent>>
  BY DEF web
<1>3. PipelineTypeOK'
  BY <1>0, <1>1, <1>2 DEF PipelineTypeOK
<1>4. /\ node \in {"paused", "dead"} /\ at[x] \notin {"idle", "invoke", "paused"}
      /\ node = "paused" => x = Main /\ at[x] = "gate"
  OBVIOUS
<1>5. x = Main => \A r \in Resumers : at[r] = "idle"
  BY <1>4 DEF PipelineInv, InPlaces
<1>6. InPlaces'
  <2>1. at'[Main] # "idle"
    BY <1>1, <1>4, MainIs DEF PipelineInv, InPlaces
  <2>2. at'[Replayer] = at[Replayer]
    BY <1>0, <1>1, MainIs
  <2>3. ASSUME NEW r \in Resumers
        PROVE  /\ at'[r] \in {"idle", "invoke", "gate", "brief", "announce", "route", "end",
                            "dead"}
               /\ at'[r] # "idle" => at'[Main] = "paused" /\ body'[r] \in Bodies
    <3>1. r \in Executions /\ r # Main
      BY PipelineAssumption DEF Executions, Writers
    <3>2. CASE x = Main
      BY <1>1, <1>5, <3>1, <3>2
    <3>3. CASE x # Main
      <4>1. at'[Main] = at[Main]
        BY <1>1, <3>3, MainIs
      <4>2. CASE r = x
        BY <1>1, <1>2, <1>4, <3>1, <4>1, <4>2 DEF PipelineInv, InPlaces
      <4>3. CASE r # x
        <5>1. at'[r] = at[r]
          BY <1>1, <3>1, <4>3
        <5>2. /\ at[r] \in {"idle", "invoke", "gate", "brief", "announce", "route", "end", "dead"}
              /\ at[r] # "idle" => at[Main] = "paused" /\ body[r] \in Bodies
          BY DEF PipelineInv, InPlaces
        <5>. QED  BY <1>2, <4>1, <5>1, <5>2
      <4>. QED  BY <4>2, <4>3
    <3>. QED  BY <3>2, <3>3
  <2>. QED  BY <2>1, <2>2, <2>3 DEF PipelineInv, InPlaces
<1>7. at'[Main] \in Early => at[Main] \in Early
  BY <1>1, <1>4, MainIs DEF Early
<1>8. Classifying'
  BY <1>2, <1>7 DEF PipelineInv, Classifying, RowsInPlace
<1>9. Reviewing'
  <2>1. judged' = judged
    BY <1>2 DEF judged
  <2>2. \A y \in Executions : /\ at'[y] = "gate" => at[y] = "gate"
                              /\ at'[y] = "brief" => at[y] = "brief"
                              /\ Past(y)' => Past(y)
    BY <1>1, <1>4 DEF Past
  <2>3. saved.next = "gate" => at'[Main] \in {"gate", "paused", "dead"}
    BY <1>1, <1>4, MainIs DEF PipelineInv, Reviewing
  <2>4. \A r \in Resumers : r \in Executions
    BY DEF Executions, Writers
  <2>5. \A q \in Resumers : at[q] \notin {"idle", "invoke"} =>
           at'[q] \notin {"idle", "invoke"} /\ body'[q] = body[q]
    BY <1>1, <1>2, <1>4, <2>4
  <2>6. /\ \A r \in Resumers : HasDecided(state[r]) => HasDecided(state[r])'
        /\ HasDecided(saved.state) => HasDecided(saved.state)'
    BY <1>2, <2>1, <2>5, DecisionStands DEF HasDecided, Invoked
  <2>7. at'[Main] = "paused" /\ saved.next # "gate" => at[Main] = "paused"
    <3>1. CASE x = Main /\ node = "paused"
      <4>1. Sole(Main)
        BY <1>5, <3>1 DEF Sole, Invoked
      <4>. QED  BY <1>4, <3>1, <4>1, MainIs DEF PipelineInv, BriefedByOne, Carried
    <3>2. CASE x # Main \/ node = "dead"
      BY <1>1, <3>2, MainIs
    <3>. QED  BY <1>4, <3>1, <3>2
  <2>. QED  BY <1>2, <2>1, <2>2, <2>3, <2>4, <2>6, <2>7, MainIs DEF PipelineInv, Reviewing
<1>10. \A y \in Executions : GroupsOf(y)' = GroupsOf(y)
  BY <1>2, GroupsStay
<1>11. Replaying'
  <2>1. GroupsOf(Replayer)' = GroupsOf(Replayer)
    BY <1>10, MainIs
  <2>. QED  BY <1>0, <1>1, <1>2, <2>1, MainIs DEF PipelineInv, Replaying
<1>12. ASSUME NEW c \in Writers, Sole(c)'
       PROVE  Carried(c)'
  <2>1. c = x
    <3>1. CASE x = Main
      BY <1>1, <1>5, <1>12, <3>1, PipelineAssumption DEF Sole, Invoked, Executions, Writers
    <3>2. CASE x # Main
      <4>1. x \in Resumers /\ at'[x] = "dead"
        BY <1>1, <1>4, <3>2 DEF Writers
      <4>. QED  BY <1>12, <4>1 DEF Sole, Invoked
    <3>. QED  BY <3>1, <3>2
  <2>2. Sole(c)
    BY <1>0, <1>1, <1>4, <1>12, <2>1, PipelineAssumption DEF Sole, Invoked, Executions, Writers
  <2>3. Carried(c)
    BY <2>2 DEF PipelineInv, BriefedByOne
  <2>4. GroupsOf(c)' = GroupsOf(c)
    BY <1>0, <1>10, <2>1
  <2>. QED  BY <1>1, <1>2, <1>4, <2>1, <2>3, <2>4 DEF Carried, Early, Beyond
<1>13. BriefedByOne'
  <2>1. briefing # NoBriefing =>
           \E y \in Writers : at'[y] \in Beyond /\ briefing' = GroupsOf(y)'
    <3>1. SUFFICES ASSUME briefing # NoBriefing
                   PROVE  \E y \in Writers : at'[y] \in Beyond /\ briefing' = GroupsOf(y)'
      OBVIOUS
    <3>2. PICK y \in Writers : at[y] \in Beyond /\ briefing = GroupsOf(y)
      BY <3>1 DEF PipelineInv, BriefedByOne
    <3>3. y \in Executions
      BY DEF Executions
    <3>. QED  BY <1>1, <1>2, <1>4, <1>10, <3>2, <3>3 DEF Beyond
  <2>2. \A y \in Executions : at'[y] = "announce" => at[y] = "announce"
    BY <1>1, <1>4
  <2>. QED  BY <1>2, <1>12, <2>1, <2>2 DEF PipelineInv, BriefedByOne
<1>. QED  BY <1>3, <1>6, <1>8, <1>9, <1>11, <1>13 DEF PipelineInv

(* Nothing is done yet for a request that has found the interrupt.           *)
LEMMA FindInterruptStep ==
  ASSUME PipelineInv, NEW r \in Resumers, FindInterrupt(r)
  PROVE  PipelineInv'
<1>0. PipelineTypeOK /\ r \in Writers /\ r \in Executions /\ r # Main /\ r # Replayer
  BY PipelineAssumption DEF PipelineInv, Executions, Writers
<1>1. /\ at[r] = "idle" /\ at[Main] = "paused" /\ saved.next = "gate"
      /\ at' = [at EXCEPT ![r] = "invoke"]
      /\ \E b \in Bodies : body' = [body EXCEPT ![r] = b]
  BY DEF FindInterrupt, Goto
<1>2. UNCHANGED <<entry, norms, state, saved, tries, cached, paid, repaid, audits, briefing,
                sent, faults>>
  BY DEF FindInterrupt, trace, web
<1>3. /\ at' \in [Executions -> Nodes] /\ at'[r] = "invoke"
      /\ \A y \in Executions : y # r => at'[y] = at[y]
  BY <1>0, <1>1 DEF PipelineTypeOK, Nodes
<1>4. /\ body' \in [Resumers -> Bodies \cup {NoBody}] /\ body'[r] \in Bodies
      /\ \A q \in Resumers : q # r => body'[q] = body[q]
  BY <1>0, <1>1 DEF PipelineTypeOK
<1>5. PipelineTypeOK'
  BY <1>0, <1>2, <1>3, <1>4 DEF PipelineTypeOK
<1>6. \A q \in Resumers : q \in Executions /\ q # Main /\ q # Replayer
  BY PipelineAssumption DEF Executions, Writers
<1>7. InPlaces'
  BY <1>0, <1>1, <1>3, <1>4, <1>6, MainIs DEF PipelineInv, InPlaces
<1>8. at'[Main] = at[Main] /\ at'[Replayer] = at[Replayer] /\ judged' = judged
  BY <1>0, <1>2, <1>3, MainIs DEF judged
<1>9. Classifying'
  BY <1>2, <1>8 DEF PipelineInv, Classifying, RowsInPlace
<1>10. Reviewing'
  <2>1. \A q \in Resumers : at[q] \notin {"idle", "invoke"} =>
           at'[q] \notin {"idle", "invoke"} /\ body'[q] = body[q]
    BY <1>1, <1>3, <1>4, <1>6
  <2>2. ASSUME NEW q \in Resumers
        PROVE  /\ at'[q] = "gate" => state'[q].cls = judged
               /\ at'[q] = "brief" \/ Past(q)' => HasDecided(state[q])'
    <3>1. CASE q = r
      BY <1>3, <3>1 DEF Past
    <3>2. CASE q # r
      <4>1. at'[q] = at[q] /\ state'[q] = state[q]
        BY <1>2, <1>3, <1>6, <3>2
      <4>2. HasDecided(state[q]) => HasDecided(state[q])'
        BY <1>8, <2>1, <4>1, DecisionStands DEF HasDecided, Invoked
      <4>. QED  BY <4>1, <4>2 DEF PipelineInv, Reviewing, Past
    <3>. QED  BY <3>1, <3>2
  <2>. QED  BY <1>1, <1>2, <1>8, <2>2 DEF PipelineInv, Reviewing, Past
<1>11. \A y \in Executions : GroupsOf(y)' = GroupsOf(y)
  BY <1>2, GroupsStay
<1>12. Replaying'
  BY <1>2, <1>8, <1>11, MainIs DEF PipelineInv, Replaying
<1>13. ASSUME NEW c \in Writers, Sole(c)'
       PROVE  Carried(c)'
  <2>1. c # r /\ c \in Executions
    BY <1>0, <1>3, <1>13 DEF Sole, Invoked, Executions
  <2>2. \A q \in Resumers : Invoked(q) => Invoked(q)'
    BY <1>1, <1>3, <1>6 DEF Invoked
  <2>3. Sole(c)
    BY <1>3, <1>13, <2>1, <2>2 DEF Sole, Invoked
  <2>4. Carried(c) /\ at'[c] = at[c] /\ GroupsOf(c)' = GroupsOf(c)
    BY <1>3, <1>11, <2>1, <2>3 DEF PipelineInv, BriefedByOne
  <2>. QED  BY <1>2, <2>4 DEF Carried
<1>14. BriefedByOne'
  <2>1. briefing # NoBriefing =>
           \E y \in Writers : at'[y] \in Beyond /\ briefing' = GroupsOf(y)'
    <3>1. SUFFICES ASSUME briefing # NoBriefing
                   PROVE  \E y \in Writers : at'[y] \in Beyond /\ briefing' = GroupsOf(y)'
      OBVIOUS
    <3>2. PICK y \in Writers : at[y] \in Beyond /\ briefing = GroupsOf(y)
      BY <3>1 DEF PipelineInv, BriefedByOne
    <3>3. y \in Executions /\ y # r
      BY <1>1, <3>2 DEF Executions, Beyond
    <3>. QED  BY <1>2, <1>3, <1>11, <3>2, <3>3
  <2>2. \A y \in Executions : at'[y] = "announce" => at[y] = "announce"
    BY <1>3
  <2>. QED  BY <1>2, <1>13, <2>1, <2>2 DEF PipelineInv, BriefedByOne
<1>. QED  BY <1>5, <1>7, <1>9, <1>10, <1>12, <1>14 DEF PipelineInv

(* A request takes up the checkpoint: the gate's, or that of rows which       *)
(* another request has decided on.                                         *)
LEMMA InvokeStep ==
  ASSUME PipelineInv, NEW r \in Resumers, Invoke(r)
  PROVE  PipelineInv'
<1>0. PipelineTypeOK /\ r \in Writers /\ r \in Executions /\ r # Main /\ r # Replayer
  BY PipelineAssumption DEF PipelineInv, Executions, Writers
<1>1. /\ at[r] = "invoke" /\ at[Main] = "paused" /\ body[r] \in Bodies
      /\ at' = [at EXCEPT ![r] = saved.next] /\ state' = [state EXCEPT ![r] = saved.state]
  BY DEF Invoke, Goto, Become, PipelineInv, InPlaces
<1>2. UNCHANGED <<entry, norms, saved, body, tries, cached, paid, repaid, audits, briefing,
                sent, faults>>
  BY DEF Invoke, trace, web
<1>3. /\ saved.next \in {"gate", "brief", "route", "end"}
      /\ saved.next = "gate" => saved.state.cls = judged
      /\ saved.next # "gate" => HasDecided(saved.state)
  BY <1>1 DEF PipelineInv, Reviewing
<1>4. /\ at' \in [Executions -> Nodes] /\ state' \in [Executions -> Channels]
      /\ at'[r] = saved.next /\ state'[r] = saved.state
      /\ \A y \in Executions : y # r => at'[y] = at[y] /\ state'[y] = state[y]
  BY <1>0, <1>1 DEF PipelineTypeOK
<1>5. PipelineTypeOK'
  BY <1>0, <1>2, <1>4 DEF PipelineTypeOK
<1>6. \A q \in Resumers : q \in Executions /\ q # Main /\ q # Replayer
  BY PipelineAssumption DEF Executions, Writers
<1>7. InPlaces'
  BY <1>0, <1>1, <1>2, <1>3, <1>4, <1>6, MainIs DEF PipelineInv, InPlaces
<1>8. /\ at'[Main] = at[Main] /\ state'[Main] = state[Main] /\ at[Main] \notin Early
      /\ at'[Replayer] = at[Replayer] /\ judged' = judged
  BY <1>0, <1>1, <1>4, MainIs DEF judged, Early
<1>9. Classifying'
  <2>1. RowsInPlace(saved.state)' /\ \A x \in Executions : RowsInPlace(state[x])'
    BY <1>0, <1>2, <1>4, <1>8 DEF PipelineInv, Classifying, RowsInPlace
  <2>. QED  BY <1>2, <1>8, <2>1 DEF PipelineInv, Classifying
<1>10. Reviewing'
  <2>1. \A q \in Resumers : at[q] \notin {"idle", "invoke"} =>
           at'[q] \notin {"idle", "invoke"} /\ body'[q] = body[q]
    BY <1>1, <1>2, <1>4, <1>6
  <2>2. HasDecided(saved.state) => HasDecided(saved.state)'
    BY <1>2, <1>8, <2>1, DecisionStands DEF HasDecided, Invoked
  <2>3. ASSUME NEW q \in Resumers
        PROVE  /\ at'[q] = "gate" => state'[q].cls = judged
               /\ at'[q] = "brief" \/ Past(q)' => HasDecided(state[q])'
    <3>1. CASE q = r
      <4>1. HasDecided(saved.state) => HasDecided(state[r])'
        BY <1>4, <1>8, <2>1, DecisionStands DEF HasDecided, Invoked
      <4>. QED  BY <1>3, <1>4, <3>1, <4>1 DEF Past
    <3>2. CASE q # r
      <4>1. at'[q] = at[q] /\ state'[q] = state[q]
        BY <1>4, <1>6, <3>2
      <4>2. HasDecided(state[q]) => HasDecided(state[q])'
        BY <1>8, <2>1, <4>1, DecisionStands DEF HasDecided, Invoked
      <4>. QED  BY <4>1, <4>2 DEF PipelineInv, Reviewing, Past
    <3>. QED  BY <3>1, <3>2
  <2>. QED  BY <1>1, <1>2, <1>3, <1>8, <2>2, <2>3 DEF PipelineInv, Reviewing, Past
<1>11. \A y \in Executions : y # r => GroupsOf(y)' = GroupsOf(y)
  BY <1>2, <1>4, GroupsStay
<1>12. Replaying'
  <2>1. GroupsOf(Replayer)' = GroupsOf(Replayer) /\ state'[Replayer] = state[Replayer]
    BY <1>0, <1>4, <1>11, MainIs
  <2>2. \A x \in Writers : state'[x].groups = {}
    BY <1>4 DEF PipelineInv, Replaying, Executions
  <2>. QED  BY <1>2, <1>8, <2>1, <2>2 DEF PipelineInv, Replaying
<1>13. ASSUME NEW c \in Writers, Sole(c)'
       PROVE  Carried(c)'
  <2>1. c = r
    BY <1>3, <1>4, <1>13 DEF Sole, Invoked
  <2>2. Sole(Main)
    <3>1. \A q \in Resumers \ {r} : ~ Invoked(q)'
      BY <1>13, <2>1 DEF Sole
    <3>. QED  BY <1>1, <1>4, <1>6, <3>1 DEF Sole, Invoked
  <2>3. Carried(Main)
    BY <2>2, MainIs DEF PipelineInv, BriefedByOne
  <2>4. saved.next = "gate" /\ briefing = {} /\ saved.state.decisions = {}
    BY <1>1, <2>3 DEF Carried, Beyond, NoBriefing
  <2>. QED  BY <1>2, <1>4, <2>1, <2>4 DEF Carried, NoBriefing
<1>14. BriefedByOne'
  <2>1. briefing # NoBriefing =>
           \E y \in Writers : at'[y] \in Beyond /\ briefing' = GroupsOf(y)'
    <3>1. SUFFICES ASSUME briefing # NoBriefing
                   PROVE  \E y \in Writers : at'[y] \in Beyond /\ briefing' = GroupsOf(y)'
      OBVIOUS
    <3>2. PICK y \in Writers : at[y] \in Beyond /\ briefing = GroupsOf(y)
      BY <3>1 DEF PipelineInv, BriefedByOne
    <3>3. y \in Executions /\ y # r
      BY <1>1, <3>2 DEF Executions, Beyond
    <3>. QED  BY <1>2, <1>4, <1>11, <3>2, <3>3
  <2>2. \A y \in Executions : at'[y] = "announce" => at[y] = "announce"
    BY <1>3, <1>4
  <2>. QED  BY <1>2, <1>13, <2>1, <2>2 DEF PipelineInv, BriefedByOne
<1>. QED  BY <1>5, <1>7, <1>9, <1>10, <1>12, <1>14 DEF PipelineInv

(* apply_human_review_resume, row by row.                                    *)
LEMMA DecidedIs ==
  ASSUME NEW b \in Bodies, NEW rows \in Seq(Rows)
  PROVE  /\ Decided(b, rows) \in Seq(Rows) /\ Len(Decided(b, rows)) = Len(rows)
         /\ \A k \in DOMAIN rows :
               /\ Decided(b, rows)[k].url = rows[k].url
               /\ Decided(b, rows)[k].needs => /\ rows[k].needs
                                               /\ b.decision = "reject" => ~ rows[k].in_scope
                                               /\ b.decision # "approve"
                                               /\ b.decision # "reject" => ~ Matches(b, rows[k])
               /\ b.decision = "reject" => ~ Decided(b, rows)[k].in_scope
               /\ ~ rows[k].in_scope => ~ Decided(b, rows)[k].in_scope
<1> DEFINE now(k) == CASE b.decision = "approve" -> [rows[k] EXCEPT !.needs = FALSE]
                       [] b.decision = "reject" -> Rejected(rows[k])
                       [] OTHER -> Overridden(b, rows[k])
<1>1. Decided(b, rows) = [k \in DOMAIN rows |-> now(k)]
  BY DEF Decided
<1>2. ASSUME NEW row \in Rows
      PROVE  /\ [row EXCEPT !.needs = FALSE] \in Rows
             /\ [row EXCEPT !.needs = FALSE].url = row.url
             /\ [row EXCEPT !.needs = FALSE].in_scope = row.in_scope
             /\ ~ [row EXCEPT !.needs = FALSE].needs
  BY DEF Rows
<1>3. ASSUME NEW row \in Rows
      PROVE  /\ Rejected(row) \in Rows /\ Rejected(row).url = row.url /\ ~ Rejected(row).in_scope
             /\ Rejected(row).needs => row.needs /\ ~ row.in_scope
  BY DEF Rows, Rejected
<1>4. ASSUME NEW row \in Rows, b.decision \notin {"approve", "reject"}
      PROVE  /\ Overridden(b, row) \in Rows /\ Overridden(b, row).url = row.url
             /\ Overridden(b, row).in_scope = row.in_scope
             /\ Overridden(b, row).needs => row.needs /\ ~ Matches(b, row)
  <2>1. b.severity \in Severities
    BY <1>4, PipelineAssumption DEF Bodies
  <2>2. CASE Matches(b, row)
    BY <2>1, <2>2 DEF Overridden, Rows
  <2>3. CASE ~ Matches(b, row)
    BY <2>3 DEF Overridden
  <2>. QED  BY <2>2, <2>3
<1>5. ASSUME NEW k \in DOMAIN rows
      PROVE  /\ now(k) \in Rows /\ now(k).url = rows[k].url
             /\ now(k).needs => /\ rows[k].needs
                                /\ b.decision = "reject" => ~ rows[k].in_scope
                                /\ b.decision # "approve"
                                /\ b.decision # "reject" => ~ Matches(b, rows[k])
             /\ b.decision = "reject" => ~ now(k).in_scope
             /\ ~ rows[k].in_scope => ~ now(k).in_scope
  <2>1. rows[k] \in Rows
    OBVIOUS
  <2>2. CASE b.decision = "approve"
    BY <1>2, <2>1, <2>2
  <2>3. CASE b.decision = "reject"
    BY <1>3, <2>1, <2>3
  <2>4. CASE b.decision \notin {"approve", "reject"}
    BY <1>4, <2>1, <2>4
  <2>. QED  BY <2>2, <2>3, <2>4
<1> HIDE DEF now
<1>6. Decided(b, rows) \in Seq(Rows) /\ Len(Decided(b, rows)) = Len(rows)
  <2>1. DOMAIN rows = 1..Len(rows) /\ Len(rows) \in Nat
    OBVIOUS
  <2>2. [k \in 1..Len(rows) |-> now(k)] \in [1..Len(rows) -> Rows]
    BY <1>5, <2>1
  <2>. QED  BY <1>1, <2>1, <2>2
<1>7. \A k \in DOMAIN rows : Decided(b, rows)[k] = now(k)
  BY <1>1
<1>. QED  BY <1>5, <1>6, <1>7

(* interrupt() returns: what the request decided replaces the rows.          *)
LEMMA GateStep ==
  ASSUME PipelineInv, NEW r \in Resumers, Gate(r)
  PROVE  PipelineInv'
<1>0. PipelineTypeOK /\ r \in Writers /\ r \in Executions /\ r # Main /\ r # Replayer
      /\ state[r] \in Channels
  BY PipelineAssumption DEF PipelineInv, PipelineTypeOK, Executions, Writers
<1>1. PICK more \in SUBSET Steps :
         Advance(r, "brief", [Adding(state[r], more)
                                EXCEPT !.cls = Decided(body[r], state[r].cls), !.flag = FALSE,
                                       !.by = r])
  BY DEF Gate, Steps
<1>2. /\ at[r] = "gate" /\ at[Main] = "paused" /\ body[r] \in Bodies /\ state[r].cls = judged
  BY DEF Gate, PipelineInv, InPlaces, Reviewing
<1> DEFINE rows == Decided(body[r], judged)
           s == [Adding(state[r], more) EXCEPT !.cls = rows, !.flag = FALSE, !.by = r]
<1>3. judged \in Seq(Rows)
  BY <1>0, <1>2 DEF Channels
<1>4. /\ rows \in Seq(Rows) /\ Len(rows) = Len(judged)
      /\ \A k \in DOMAIN judged :
            /\ rows[k].url = judged[k].url
            /\ rows[k].needs => /\ judged[k].needs
                                /\ body[r].decision = "reject" => ~ judged[k].in_scope
                                /\ body[r].decision # "approve"
                                /\ body[r].decision # "reject" => ~ Matches(body[r], judged[k])
            /\ body[r].decision = "reject" => ~ rows[k].in_scope
            /\ ~ judged[k].in_scope => ~ rows[k].in_scope
  BY <1>2, <1>3, DecidedIs
<1>5. Advance(r, "brief", s)
  BY <1>1, <1>2
<1> HIDE DEF rows
<1>6. /\ s \in Channels /\ s.cls = rows /\ s.groups = {} /\ s.by = r
      /\ s.decisions = state[r].decisions
  <2>1. /\ Adding(state[r], more) \in Channels
        /\ Adding(state[r], more).decisions = state[r].decisions
        /\ Adding(state[r], more).groups = {}
    BY <1>0, AddingIs DEF PipelineInv, Replaying
  <2>. QED  BY <1>0, <1>4, <2>1 DEF Channels
<1> HIDE DEF s
<1>7. /\ at' \in [Executions -> Nodes] /\ state' \in [Executions -> Channels]
      /\ saved' \in [next : Nodes, state : Channels]
      /\ at'[r] = "brief" /\ state'[r] = s /\ saved'.next = "brief" /\ saved'.state = s
      /\ \A y \in Executions : y # r => at'[y] = at[y] /\ state'[y] = state[y]
  BY <1>0, <1>5, <1>6, AdvanceIs DEF Nodes
<1>8. UNCHANGED <<entry, norms, body, tries, cached, paid, repaid, audits, briefing,
                sent, faults>>
  BY DEF Gate, web
<1>9. PipelineTypeOK'
  BY <1>0, <1>7, <1>8 DEF PipelineTypeOK
<1>10. \A q \in Resumers : q \in Executions /\ q # Main /\ q # Replayer
  BY PipelineAssumption DEF Executions, Writers
<1>11. InPlaces'
  BY <1>0, <1>2, <1>7, <1>8, <1>10, MainIs DEF PipelineInv, InPlaces
<1>12. judged' = judged /\ at'[Main] = at[Main] /\ at[Main] \notin Early
  BY <1>0, <1>2, <1>7, MainIs DEF judged, Early
<1>13. Classifying'
  <2>1. rows # <<>> => judged # <<>>
    BY <1>3, <1>4
  <2>2. RowsInPlace(state[Main])
    BY MainIs DEF PipelineInv, Classifying
  <2>3. norms \in Feeds /\ DOMAIN norms = 1..Len(norms)
    BY <1>0, FeedFacts DEF PipelineTypeOK
  <2>4. rows # <<>> =>
           Len(rows) = Len(norms) /\ \A k \in DOMAIN norms : rows[k].url = norms[k].url
    BY <1>3, <1>4, <2>1, <2>2, <2>3 DEF RowsInPlace, judged
  <2>5. RowsInPlace(saved.state)' /\ \A x \in Executions : RowsInPlace(state[x])'
    BY <1>6, <1>7, <1>8, <1>12, <2>4 DEF PipelineInv, Classifying, RowsInPlace
  <2>. QED  BY <1>0, <1>7, <1>8, <1>12, <2>5, MainIs DEF PipelineInv, Classifying
<1>14. Reviewing'
  <2>1. Bears(rows, judged, body[r])
    <3>1. ASSUME NEW k \in DOMAIN judged, rows[k].needs
          PROVE  /\ judged[k].needs /\ body[r].decision = "override"
                 /\ body[r].url # judged[k].url
                 /\ ~ (body[r].url = AnyUrl /\ judged[k].in_scope)
      <4>1. /\ judged[k].needs /\ judged[k].in_scope /\ body[r].decision = "override"
            /\ ~ Matches(body[r], judged[k])
        BY <1>2, <1>4, <3>1 DEF PipelineInv, Reviewing, Bodies
      <4>. QED  BY <4>1 DEF Matches
    <3>. QED  BY <1>4, <3>1 DEF Bears
  <2>2. /\ s.by \in Resumers /\ at'[s.by] \notin {"idle", "invoke"}
        /\ Bears(s.cls, judged', body'[s.by])
    BY <1>6, <1>7, <1>8, <1>12, <2>1
  <2>3. \A q \in Resumers : at[q] \notin {"idle", "invoke"} =>
           at'[q] \notin {"idle", "invoke"} /\ body'[q] = body[q]
    BY <1>7, <1>8, <1>10
  <2>4. ASSUME NEW q \in Resumers
        PROVE  /\ at'[q] = "gate" => state'[q].cls = judged
               /\ at'[q] = "brief" \/ Past(q)' => HasDecided(state[q])'
    <3>1. CASE q = r
      BY <1>7, <2>2, <3>1 DEF HasDecided, Invoked
    <3>2. CASE q # r
      <4>1. at'[q] = at[q] /\ state'[q] = state[q]
        BY <1>7, <1>10, <3>2
      <4>2. HasDecided(state[q]) => HasDecided(state[q])'
        BY <1>12, <2>3, <4>1, DecisionStands DEF HasDecided, Invoked
      <4>. QED  BY <1>12, <4>1, <4>2 DEF PipelineInv, Reviewing, Past
    <3>. QED  BY <3>1, <3>2
  <2>5. HasDecided(saved.state)'
    BY <1>7, <2>2 DEF HasDecided, Invoked
  <2>. QED  BY <1>7, <1>12, <2>4, <2>5 DEF PipelineInv, Reviewing, Past
<1>15. \A y \in Executions : y # r => GroupsOf(y)' = GroupsOf(y)
  BY <1>7, <1>8, GroupsStay
<1>16. Replaying'
  <2>1. GroupsOf(Replayer)' = GroupsOf(Replayer)
    BY <1>0, <1>15, MainIs
  <2>2. saved'.state.groups = {} /\ \A x \in Writers : state'[x].groups = {}
    BY <1>6, <1>7 DEF PipelineInv, Replaying, Executions
  <2>. QED  BY <1>0, <1>7, <2>1, <2>2, MainIs DEF PipelineInv, Replaying
<1>17. ASSUME NEW c \in Writers, Sole(c)'
       PROVE  Carried(c)'
  <2>1. c = r
    BY <1>7, <1>17 DEF Sole, Invoked
  <2>2. Sole(r)
    BY <1>2, <1>7, <1>10, <1>17, <2>1 DEF Sole, Invoked
  <2>3. Carried(r)
    BY <1>0, <2>2 DEF PipelineInv, BriefedByOne
  <2>4. briefing = {} /\ state[r].decisions = {}
    BY <1>2, <2>3 DEF Carried, Beyond, NoBriefing
  <2>. QED  BY <1>6, <1>7, <1>8, <2>1, <2>4 DEF Carried, NoBriefing
<1>18. BriefedByOne'
  <2>1. briefing # NoBriefing =>
           \E y \in Writers : at'[y] \in Beyond /\ briefing' = GroupsOf(y)'
    <3>1. SUFFICES ASSUME briefing # NoBriefing
                   PROVE  \E y \in Writers : at'[y] \in Beyond /\ briefing' = GroupsOf(y)'
      OBVIOUS
    <3>2. PICK y \in Writers : at[y] \in Beyond /\ briefing = GroupsOf(y)
      BY <3>1 DEF PipelineInv, BriefedByOne
    <3>3. y \in Executions /\ y # r
      BY <1>2, <3>2 DEF Executions, Beyond
    <3>. QED  BY <1>7, <1>8, <1>15, <3>2, <3>3
  <2>2. \A y \in Executions : at'[y] = "announce" => at[y] = "announce"
    BY <1>7
  <2>. QED  BY <1>8, <1>17, <2>1, <2>2 DEF PipelineInv, BriefedByOne
<1>. QED  BY <1>9, <1>11, <1>13, <1>14, <1>16, <1>18 DEF PipelineInv

(* brief and route leave the rows as the gate has them.  `Onward` is what every  *)
(* step of theirs does: x goes on with the rows it had, and its channels     *)
(* become the checkpoint, unless it stays within the node.                   *)
Onward(x, node, s) ==
    /\ at[x] \in {"brief", "announce", "route"} /\ node \in {"announce", "route", "end"}
    /\ s \in Channels /\ s.cls = state[x].cls /\ s.groups = {} /\ s.by = state[x].by
    /\ at' = [at EXCEPT ![x] = node] /\ state' = [state EXCEPT ![x] = s]
    /\ saved' = saved \/ (node # "announce" /\ saved' = [next |-> node, state |-> s])
    /\ audits' \in [Actions -> Nat] /\ audits'["classify"] = audits["classify"]
    /\ briefing' \in Briefings /\ sent' \subseteq Writers /\ faults' \in 0..MaxFaults
    /\ UNCHANGED <<entry, norms, body, tries, cached, paid, repaid>>

(* Most of the invariant does not depend on which node it was.              *)
LEMMA OnwardKeeps ==
  ASSUME PipelineInv, NEW x \in Writers, NEW node, NEW s, Onward(x, node, s)
  PROVE  /\ PipelineTypeOK' /\ InPlaces' /\ Classifying' /\ Reviewing' /\ Replaying'
         /\ at'[x] = node /\ state'[x] = s
         /\ \A y \in Executions : y # x => at'[y] = at[y] /\ state'[y] = state[y]
         /\ \A y \in Executions : GroupsOf(y)' = GroupsOf(y)
         /\ \A c \in Writers : Sole(c)' => c = x /\ Sole(c) /\ Carried(c)
<1>0. PipelineTypeOK /\ x \in Executions /\ x # Replayer
  BY PipelineAssumption DEF PipelineInv, Executions, Writers
<1>1. /\ at' \in [Executions -> Nodes] /\ state' \in [Executions -> Channels]
      /\ saved' \in [next : Nodes, state : Channels]
      /\ at'[x] = node /\ state'[x] = s
      /\ \A y \in Executions : y # x => at'[y] = at[y] /\ state'[y] = state[y]
  BY <1>0 DEF PipelineTypeOK, Onward, Nodes
<1>2. UNCHANGED <<entry, norms, body, tries, cached, paid, repaid>>
  BY DEF Onward
<1>3. PipelineTypeOK'
  BY <1>0, <1>1, <1>2 DEF PipelineTypeOK, Onward
<1>4. \A q \in Resumers : q \in Executions /\ q # Main /\ q # Replayer
  BY PipelineAssumption DEF Executions, Writers
<1>5. /\ at[x] \in {"brief", "announce", "route"} /\ node \in {"announce", "route", "end"}
      /\ s.cls = state[x].cls /\ s.groups = {} /\ s.by = state[x].by
  BY DEF Onward
<1>6. x = Main => \A q \in Resumers : at[q] = "idle"
  BY <1>5 DEF PipelineInv, InPlaces
<1>7. x # Main => x \in Resumers /\ at'[Main] = at[Main] /\ at[Main] = "paused"
  BY <1>1, <1>5, MainIs DEF PipelineInv, InPlaces, Writers
<1>8. InPlaces'
  <2>1. at'[Main] # "idle" /\ at'[Replayer] = at[Replayer]
    BY <1>0, <1>1, <1>5, <1>7, MainIs
  <2>2. ASSUME NEW q \in Resumers
        PROVE  /\ at'[q] \in {"idle", "invoke", "gate", "brief", "announce", "route", "end",
                            "dead"}
               /\ at'[q] # "idle" => at'[Main] = "paused" /\ body'[q] \in Bodies
    <3>1. CASE x = Main
      BY <1>1, <1>4, <1>6, <3>1
    <3>2. CASE x # Main
      <4>1. CASE q = x
        BY <1>1, <1>2, <1>5, <1>7, <3>2, <4>1 DEF PipelineInv, InPlaces
      <4>2. CASE q # x
        <5>1. at'[q] = at[q]
          BY <1>1, <1>4, <4>2
        <5>2. /\ at[q] \in {"idle", "invoke", "gate", "brief", "announce", "route", "end", "dead"}
              /\ at[q] # "idle" => at[Main] = "paused" /\ body[q] \in Bodies
          BY DEF PipelineInv, InPlaces
        <5>. QED  BY <1>2, <1>7, <3>2, <5>1, <5>2
      <4>. QED  BY <4>1, <4>2
    <3>. QED  BY <3>1, <3>2
  <2>3. at'[Main] # "invoke"
    BY <1>1, <1>5, <1>7, MainIs
  <2>4. at'[Replayer] \in {"idle", "gate", "brief", "route", "end"}
    BY <2>1 DEF PipelineInv, InPlaces
  <2>. QED  BY <2>1, <2>2, <2>3, <2>4 DEF InPlaces
<1>9. at[Main] \notin Early /\ at'[Main] \notin Early
  BY <1>1, <1>5, <1>7, MainIs DEF Early
<1>10. \A y \in Executions : state'[y].cls = state[y].cls /\ state'[y].by = state[y].by
  BY <1>1, <1>5
<1>11. judged' = judged
  BY <1>10, MainIs DEF judged
<1>12. Classifying'
  <2>1. \A y \in Executions : RowsInPlace(state[y])'
    BY <1>2, <1>9, <1>10 DEF PipelineInv, Classifying, RowsInPlace
  <2>2. RowsInPlace(saved.state)'
    <3>1. saved'.state.cls \in {saved.state.cls, state[x].cls}
      BY <1>5 DEF Onward
    <3>. QED  BY <1>0, <1>2, <1>9, <3>1 DEF PipelineInv, Classifying, RowsInPlace
  <2>. QED  BY <1>2, <1>9, <2>1, <2>2 DEF PipelineInv, Classifying, Onward
<1>13. Reviewing'
  <2>1. at'[Main] = "brief" \/ Past(Main)' => at[Main] = "brief" \/ Past(Main)
    BY <1>5, <1>7, <1>1, MainIs DEF Past
  <2>2. saved'.next = "gate" =>
           at'[Main] \in {"gate", "paused", "dead"} /\ saved'.state.cls = judged
    <3>1. CASE saved' = saved
      <4>1. saved.next = "gate" =>
               at[Main] \in {"gate", "paused", "dead"} /\ saved.state.cls = judged
        BY DEF PipelineInv, Reviewing
      <4>2. at[Main] \in {"gate", "paused", "dead"} => x # Main
        BY <1>5
      <4>. QED  BY <1>7, <3>1, <4>1, <4>2
    <3>2. CASE saved' = [next |-> node, state |-> s]
      BY <1>5, <3>2
    <3>. QED  BY <3>1, <3>2 DEF Onward
  <2>3. \A q \in Resumers : at[q] \notin {"idle", "invoke"} =>
           at'[q] \notin {"idle", "invoke"} /\ body'[q] = body[q]
    BY <1>1, <1>2, <1>4, <1>5
  <2>4. ASSUME NEW q \in Resumers
        PROVE  /\ at'[q] = "gate" => state'[q].cls = judged
               /\ at'[q] = "brief" \/ Past(q)' => HasDecided(state[q])'
    <3>1. /\ at'[q] = "gate" => at[q] = "gate"
          /\ at'[q] = "brief" \/ Past(q)' => at[q] = "brief" \/ Past(q)
      BY <1>1, <1>4, <1>5 DEF Past
    <3>2. HasDecided(state[q]) => HasDecided(state[q])'
      BY <1>4, <1>10, <1>11, <2>3, DecisionStands DEF HasDecided, Invoked
    <3>. QED  BY <1>4, <1>10, <3>1, <3>2 DEF PipelineInv, Reviewing
  <2>5. at'[Main] = "paused" /\ saved'.next # "gate" =>
           saved'.next \in {"brief", "route", "end"} /\ HasDecided(saved.state)'
    <3>1. at'[Main] = "paused" => x # Main /\ at[Main] = "paused"
      BY <1>1, <1>5, <1>7, MainIs
    <3>2. CASE saved' = saved
      <4>1. HasDecided(saved.state) => HasDecided(saved.state)'
        BY <1>11, <2>3, <3>2, DecisionStands DEF HasDecided, Invoked
      <4>. QED  BY <3>1, <3>2, <4>1 DEF PipelineInv, Reviewing
    <3>3. CASE node # "announce" /\ saved' = [next |-> node, state |-> s]
      <4>1. x # Main => HasDecided(state[x])
        BY <1>5, <1>7 DEF PipelineInv, Reviewing, Past
      <4>2. HasDecided(state[x]) => HasDecided(saved.state)'
        BY <1>5, <1>11, <2>3, <3>3, DecisionStands DEF HasDecided, Invoked
      <4>. QED  BY <1>5, <3>1, <3>3, <4>1, <4>2
    <3>. QED  BY <3>2, <3>3 DEF Onward
  <2>. QED  BY <1>11, <2>1, <2>2, <2>4, <2>5 DEF PipelineInv, Reviewing
<1>14. \A y \in Executions : GroupsOf(y)' = GroupsOf(y)
  BY <1>2, <1>10, GroupsStay
<1>15. Replaying'
  <2>1. GroupsOf(Replayer)' = GroupsOf(Replayer)
    BY <1>14, MainIs
  <2>2. saved'.state.groups = {} /\ \A y \in Writers : state'[y].groups = {}
    BY <1>1, <1>5 DEF PipelineInv, Replaying, Executions, Onward
  <2>. QED  BY <1>0, <1>1, <2>1, <2>2, MainIs DEF PipelineInv, Replaying
<1>16. ASSUME NEW c \in Writers, Sole(c)'
       PROVE  c = x /\ Sole(c) /\ Carried(c)
  <2>1. c = x
    <3>1. CASE x = Main
      BY <1>1, <1>4, <1>6, <1>16, <3>1 DEF Sole, Invoked, Writers
    <3>2. CASE x # Main
      BY <1>1, <1>5, <1>7, <1>16, <3>2 DEF Sole, Invoked
    <3>. QED  BY <3>1, <3>2
  <2>2. Sole(c)
    BY <1>1, <1>4, <1>5, <1>16, <2>1 DEF Sole, Invoked
  <2>. QED  BY <2>1, <2>2 DEF PipelineInv, BriefedByOne
<1>. QED  BY <1>1, <1>3, <1>8, <1>12, <1>13, <1>14, <1>15, <1>16

(* ... and the rest holds if the step leaves the briefing alone.            *)
LEMMA OnwardTellsNothing ==
  ASSUME PipelineInv, NEW x \in Writers, NEW node \in {"route", "end"}, NEW s,
         Onward(x, node, s),
         briefing' = briefing, audits'["briefing"] = audits["briefing"],
         Sole(x)' => Carried(x)'
  PROVE  PipelineInv'
<1>1. \A y \in Executions : at'[y] = "announce" => at[y] = "announce"
  BY OnwardKeeps
<1>2. briefing # NoBriefing =>
         \E y \in Writers : at'[y] \in Beyond /\ briefing' = GroupsOf(y)'
  <2>1. SUFFICES ASSUME briefing # NoBriefing
                 PROVE  \E y \in Writers : at'[y] \in Beyond /\ briefing' = GroupsOf(y)'
    OBVIOUS
  <2>2. PICK y \in Writers : at[y] \in Beyond /\ briefing = GroupsOf(y)
    BY <2>1 DEF PipelineInv, BriefedByOne
  <2>3. y \in Executions
    BY DEF Executions
  <2>4. at'[y] \in Beyond /\ GroupsOf(y)' = GroupsOf(y)
    BY <2>2, <2>3, OnwardKeeps DEF Beyond
  <2>. QED  BY <2>2, <2>4
<1>3. \A c \in Writers : Sole(c)' => Carried(c)'
  <2>1. TAKE c \in Writers
  <2>2. Sole(c)' => c = x
    BY OnwardKeeps
  <2>. QED  BY <2>2
<1>4. BriefedByOne'
  BY <1>1, <1>2, <1>3 DEF PipelineInv, BriefedByOne
<1>. QED  BY <1>4, OnwardKeeps DEF PipelineInv

(* An Advance of brief or route, with one writer.                            *)
LEMMA AdvanceIsOnward ==
  ASSUME PipelineInv, NEW x \in Writers, at[x] \in {"brief", "announce", "route"},
         NEW node \in {"route", "end"}, NEW s \in Channels, Advance(x, node, s),
         s.cls = state[x].cls, s.groups = {}, s.by = state[x].by,
         sent' \subseteq Writers, faults' \in 0..MaxFaults,
         audits' \in [Actions -> Nat], audits'["classify"] = audits["classify"],
         briefing' \in Briefings, UNCHANGED <<entry, norms, body, tries, web>>
  PROVE  Onward(x, node, s) /\ saved'.next = node /\ saved'.state = s
<1>1. x # Replayer
  BY PipelineAssumption DEF Writers
<1>2. /\ at' = [at EXCEPT ![x] = node] /\ state' = [state EXCEPT ![x] = s]
      /\ saved' = [next |-> node, state |-> s]
  BY <1>1 DEF Advance, Goto, Become, InReplay
<1>3. UNCHANGED <<cached, paid, repaid>>
  BY DEF web
<1>. QED  BY <1>2, <1>3 DEF Onward

(* What an execution of the run carries.                                    *)
LEMMA WriterHas ==
  ASSUME PipelineInv, NEW x \in Writers
  PROVE  /\ x \in Executions /\ state[x] \in Channels /\ state[x].groups = {}
         /\ sent \subseteq Writers /\ faults \in 0..MaxFaults /\ MaxFaults \in Nat
         /\ audits \in [Actions -> Nat] /\ briefing \in Briefings
         /\ GroupsOf(x) \in Briefings
<1>1. x \in Executions /\ PipelineTypeOK
  BY DEF Executions, PipelineInv
<1>. QED  BY <1>1, GroupsTyped, PipelineAssumption DEF PipelineInv, PipelineTypeOK, Replaying

(* Nothing to brief: the checkpoint goes on to route without a row.         *)
LEMMA BriefNothingStep ==
  ASSUME PipelineInv, NEW x \in Writers, BriefNothing(x)
  PROVE  PipelineInv'
<1>1. /\ at[x] = "brief" /\ GroupsOf(x) = {} /\ Advance(x, "route", state[x])
      /\ UNCHANGED <<entry, norms, body, tries, web, audits, briefing, sent, faults>>
  BY DEF BriefNothing
<1>2. Onward(x, "route", state[x]) /\ saved'.next = "route" /\ saved'.state = state[x]
  BY <1>1, WriterHas, AdvanceIsOnward
<1>3. ASSUME Sole(x)' PROVE Carried(x)'
  <2>1. Carried(x) /\ at'[x] = "route" /\ state'[x] = state[x] /\ GroupsOf(x)' = {}
    BY <1>1, <1>2, <1>3, WriterHas, OnwardKeeps
  <2>2. saved.next = "brief" /\ briefing = {}
    BY <1>1, <2>1 DEF Carried, Beyond, NoBriefing
  <2>. QED  BY <1>1, <1>2, <2>1, <2>2 DEF Carried, NoBriefing
<1>. QED  BY <1>1, <1>2, <1>3, OnwardTellsNothing

(* The error that the step leaves tells that there may be no row.           *)
LEMMA BriefFailsStep ==
  ASSUME PipelineInv, NEW x \in Writers, BriefFails(x)
  PROVE  PipelineInv'
<1> DEFINE s == Adding(state[x], {"brief"})
<1>1. /\ at[x] = "brief" /\ Cost(1) /\ Advance(x, "route", s)
      /\ UNCHANGED <<entry, norms, body, tries, web, audits, briefing, sent>>
  BY DEF BriefFails
<1>2. /\ s \in Channels /\ s.cls = state[x].cls /\ s.groups = {} /\ s.by = state[x].by
      /\ s.decisions = state[x].decisions /\ "brief" \in s.errors
  BY WriterHas, AddingIs DEF Steps
<1>3. faults' \in 0..MaxFaults
  BY <1>1, WriterHas DEF Cost
<1> HIDE DEF s
<1>4. Onward(x, "route", s) /\ saved'.next = "route" /\ saved'.state = s
  BY <1>1, <1>2, <1>3, WriterHas, AdvanceIsOnward
<1>5. ASSUME Sole(x)' PROVE Carried(x)'
  <2>1. Carried(x) /\ at'[x] = "route" /\ state'[x] = s
    BY <1>4, <1>5, OnwardKeeps
  <2>2. saved.next = "brief" /\ briefing = {} /\ state[x].decisions = {}
    BY <1>1, <2>1 DEF Carried, Beyond, NoBriefing
  <2>. QED  BY <1>1, <1>2, <1>4, <2>1, <2>2 DEF Carried, NoBriefing
<1>. QED  BY <1>1, <1>4, <1>5, OnwardTellsNothing

(* Decide gives decisions.                                                  *)
LEMMA DecideTyped ==
  ASSUME NEW ds \in SUBSET Decisions, NEW rows \in Seq(Rows)
  PROVE  Decide(ds, rows) \in SUBSET Decisions
<1>1. ASSUME NEW k \in DOMAIN rows
      PROVE  [url |-> rows[k].url, in_scope |-> rows[k].in_scope, severity |-> rows[k].severity]
                \in Decisions
  <2>1. rows[k] \in Rows
    OBVIOUS
  <2>. QED  BY <2>1 DEF Rows, Decisions
<1>. QED  BY <1>1 DEF Decide

(* The decisions are those of the rows, unless there is an error of route.  *)
LEMMA RouteStep ==
  ASSUME PipelineInv, NEW x \in Writers, Route(x)
  PROVE  PipelineInv'
<1>0. x # Replayer /\ at[x] = "route"
  BY PipelineAssumption DEF Writers, Route
<1>1. UNCHANGED <<entry, norms, body, tries, web, audits, briefing>>
  BY DEF Route
<1>2. \E s \in Channels :
         /\ Advance(x, "end", s) /\ s.cls = state[x].cls /\ s.groups = {}
         /\ s.by = state[x].by
         /\ state[x].errors \subseteq s.errors
         /\ "route" \in s.errors \/ s.decisions = Decide(state[x].decisions, state[x].cls)
         /\ sent' \subseteq Writers /\ faults' \in 0..MaxFaults
  <2> DEFINE decisions == Decide(state[x].decisions, state[x].cls)
  <2>1. decisions \in SUBSET Decisions
    BY WriterHas, DecideTyped DEF Channels
  <2>2. CASE /\ Advance(x, "end", [state[x] EXCEPT !.decisions = decisions])
             /\ sent' \in {sent, sent \cup {x}} /\ UNCHANGED faults
    <3> DEFINE s == [state[x] EXCEPT !.decisions = decisions]
    <3> HIDE DEF decisions
    <3>1. /\ s \in Channels /\ s.cls = state[x].cls /\ s.groups = {}
          /\ s.errors = state[x].errors /\ s.by = state[x].by
          /\ s.decisions = decisions
      BY <2>1, WriterHas DEF Channels
    <3>2. sent' \subseteq Writers /\ faults' \in 0..MaxFaults
      BY <2>2, WriterHas
    <3>. QED  BY <2>2, <3>1, <3>2 DEF decisions
  <2>3. CASE Cost(1) /\ Advance(x, "end", Adding(state[x], {"route"})) /\ UNCHANGED sent
    <3>1. faults' \in 0..MaxFaults
      BY <2>3, WriterHas DEF Cost
    <3>2. /\ Adding(state[x], {"route"}) \in Channels
          /\ Adding(state[x], {"route"}).cls = state[x].cls
          /\ Adding(state[x], {"route"}).groups = {}
          /\ Adding(state[x], {"route"}).by = state[x].by
          /\ Adding(state[x], {"route"}).errors = state[x].errors \cup {"route"}
      BY WriterHas, AddingIs DEF Steps
    <3>. QED  BY <2>3, <3>1, <3>2, WriterHas
  <2>. QED  BY <2>2, <2>3 DEF Route
<1>3. PICK s \in Channels :
         /\ Advance(x, "end", s) /\ s.cls = state[x].cls /\ s.groups = {}
         /\ s.by = state[x].by
         /\ state[x].errors \subseteq s.errors
         /\ "route" \in s.errors \/ s.decisions = Decide(state[x].decisions, state[x].cls)
         /\ sent' \subseteq Writers /\ faults' \in 0..MaxFaults
  BY <1>2
<1>4. Onward(x, "end", s) /\ saved'.next = "end" /\ saved'.state = s
  BY <1>0, <1>1, <1>3, WriterHas, AdvanceIsOnward
<1>5. ASSUME Sole(x)' PROVE Carried(x)'
  <2>1. Carried(x) /\ at'[x] = "end" /\ state'[x] = s /\ GroupsOf(x)' = GroupsOf(x)
    BY <1>4, <1>5, WriterHas, OnwardKeeps
  <2>2. saved.next = "route" /\ state[x].decisions = {}
    BY <1>0, <2>1 DEF Carried
  <2>3. "route" \notin s.errors => s.decisions = Decide({}, s.cls)
    BY <1>3, <2>2
  <2>4. Decide({}, s.cls) = Decide({}, state[x].cls)'
    BY <2>1 DEF Decide
  <2>. QED  BY <1>1, <1>3, <1>4, <2>1, <2>2, <2>3, <2>4 DEF Carried, Beyond
<1>. QED  BY <1>1, <1>4, <1>5, OnwardTellsNothing

(* The row is created: nobody had told of a briefing.  Or it is replaced, and *)
(* another request has been here.                                          *)
LEMMA BriefStep ==
  ASSUME PipelineInv, NEW x \in Writers, Brief(x)
  PROVE  PipelineInv'
<1>1. /\ at[x] = "brief" /\ GroupsOf(x) # {} /\ briefing' = GroupsOf(x)
      /\ UNCHANGED <<entry, norms, body, tries, web, audits, sent, faults>>
  BY DEF Brief
<1>2. CASE briefing = {}
  <2>1. Goto(x, "announce") /\ UNCHANGED <<state, saved>>
    BY <1>2 DEF Brief, NoBriefing
  <2>2. Onward(x, "announce", state[x])
    <3>1. state' = [state EXCEPT ![x] = state[x]]
      BY <2>1, WriterHas DEF PipelineInv, PipelineTypeOK
    <3>2. UNCHANGED <<cached, paid, repaid>>
      BY <1>1 DEF web
    <3>. QED  BY <1>1, <2>1, <3>1, <3>2, WriterHas DEF Onward, Goto
  <2>3. /\ at'[x] = "announce" /\ \A y \in Executions : y # x => at'[y] = at[y]
        /\ x \in Executions /\ GroupsOf(x)' = GroupsOf(x)
    BY <2>2, WriterHas, OnwardKeeps
  <2>4. audits["briefing"] = 0 /\ \A y \in Executions : at[y] # "announce"
    BY <1>2 DEF PipelineInv, BriefedByOne, NoBriefing
  <2>5. ASSUME NEW c \in Writers, Sole(c)'
        PROVE  Carried(c)'
    <3>1. c = x /\ Carried(x)
      BY <2>2, <2>5, OnwardKeeps
    <3>2. saved.state = state[x] /\ saved.next = "brief" /\ state[x].decisions = {}
      BY <1>1, <3>1 DEF Carried
    <3>. QED  BY <1>1, <2>1, <2>3, <3>1, <3>2 DEF Carried, Early, Beyond
  <2>6. BriefedByOne'
    <3>1. at'[x] \in Beyond /\ briefing' = GroupsOf(x)' /\ briefing' # NoBriefing
      BY <1>1, <2>3 DEF Beyond, NoBriefing
    <3>. QED  BY <1>1, <2>3, <2>4, <2>5, <3>1 DEF BriefedByOne
  <2>. QED  BY <2>2, <2>6, OnwardKeeps DEF PipelineInv
<1>3. CASE briefing # {}
  <2>1. Advance(x, "route", state[x])
    BY <1>3 DEF Brief, NoBriefing
  <2>2. Onward(x, "route", state[x])
    BY <1>1, <2>1, WriterHas, AdvanceIsOnward
  <2>3. /\ at'[x] = "route" /\ \A y \in Executions : y # x => at'[y] = at[y]
        /\ x \in Executions /\ GroupsOf(x)' = GroupsOf(x)
    BY <2>2, WriterHas, OnwardKeeps
  <2>4. ASSUME NEW c \in Writers, Sole(c)'
        PROVE  FALSE
    <3>1. c = x /\ Carried(x)
      BY <2>2, <2>4, OnwardKeeps
    <3>. QED  BY <1>1, <1>3, <3>1 DEF Carried, Beyond, NoBriefing
  <2>5. BriefedByOne'
    <3>1. at'[x] \in Beyond /\ briefing' = GroupsOf(x)' /\ briefing' # NoBriefing
      BY <1>1, <2>3 DEF Beyond, NoBriefing
    <3>2. \A y \in Executions : at'[y] = "announce" => at[y] = "announce"
      BY <2>3
    <3>. QED  BY <1>1, <2>4, <3>1, <3>2 DEF PipelineInv, BriefedByOne
  <2>. QED  BY <2>2, <2>5, OnwardKeeps DEF PipelineInv
<1>. QED  BY <1>2, <1>3

(* Only one execution ever announces, and then nobody does any more.        *)
LEMMA AnnounceStep ==
  ASSUME PipelineInv, NEW x \in Writers, Announce(x)
  PROVE  PipelineInv'
<1>1. PICK errors \in {{}, {"audit_write"}} :
         Written("briefing", errors) /\ Advance(x, "route", Adding(state[x], errors))
  BY DEF Announce
<1> DEFINE s == Adding(state[x], errors)
<1>2. /\ at[x] = "announce"
      /\ UNCHANGED <<entry, norms, body, tries, web, briefing, sent>>
  BY DEF Announce
<1>3. /\ s \in Channels /\ s.cls = state[x].cls /\ s.groups = {} /\ s.by = state[x].by
      /\ s.decisions = state[x].decisions /\ state[x].errors \subseteq s.errors
      /\ errors \subseteq s.errors
  BY WriterHas, AddingIs DEF Steps
<1>4. /\ audits["briefing"] = 0 /\ briefing # {}
      /\ \A y \in Executions : at[y] = "announce" => y = x
  BY <1>2, WriterHas DEF PipelineInv, BriefedByOne, NoBriefing
<1>5. /\ audits' \in [Actions -> Nat] /\ audits'["classify"] = audits["classify"]
      /\ faults' \in 0..MaxFaults /\ audits'["briefing"] <= 1
      /\ audits'["briefing"] = 1 \/ "audit_write" \in errors
  BY <1>1, <1>4, WriterHas DEF Written, Cost, Actions
<1>6. Advance(x, "route", s)
  BY <1>1
<1> HIDE DEF s
<1>7. Onward(x, "route", s) /\ saved'.next = "route" /\ saved'.state = s
  BY <1>2, <1>3, <1>5, <1>6, WriterHas, AdvanceIsOnward
<1>8. /\ at'[x] = "route" /\ state'[x] = s /\ x \in Executions
      /\ \A y \in Executions : y # x => at'[y] = at[y]
      /\ \A y \in Executions : GroupsOf(y)' = GroupsOf(y)
  BY <1>7, WriterHas, OnwardKeeps
<1>9. \A y \in Executions : at'[y] # "announce"
  BY <1>4, <1>8
<1>10. ASSUME NEW c \in Writers, Sole(c)'
       PROVE  Carried(c)'
  <2>1. c = x /\ Carried(x)
    BY <1>7, <1>10, OnwardKeeps
  <2>2. saved.next = "brief" /\ state[x].decisions = {} /\ briefing = GroupsOf(x)
    BY <1>2, <1>4, <2>1 DEF Carried, NoBriefing
  <2>. QED  BY <1>2, <1>3, <1>4, <1>5, <1>7, <1>8, <2>1, <2>2
               DEF Carried, Early, Beyond, NoBriefing
<1>11. \E y \in Writers : at'[y] \in Beyond /\ briefing' = GroupsOf(y)'
  <2>1. PICK y \in Writers : at[y] \in Beyond /\ briefing = GroupsOf(y)
    BY <1>4 DEF PipelineInv, BriefedByOne, NoBriefing
  <2>2. y \in Executions
    BY DEF Executions
  <2>. QED  BY <1>2, <1>8, <2>1, <2>2 DEF Beyond
<1>12. BriefedByOne'
  BY <1>2, <1>4, <1>5, <1>9, <1>10, <1>11 DEF BriefedByOne, NoBriefing
<1>. QED  BY <1>7, <1>12, OnwardKeeps DEF PipelineInv

(* A step of the replay: only its own place and channels change.            *)
LEMMA ReplayStep ==
  ASSUME PipelineInv, NEW node \in {"gate", "brief", "route", "end"}, NEW s \in Channels,
         at' = [at EXCEPT ![Replayer] = node], state' = [state EXCEPT ![Replayer] = s],
         RowsInPlace(s),
         node \in {"gate", "brief"} => s.groups = {},
         node \in {"route", "end"} =>
            /\ s.cls = state[Replayer].cls
            /\ "brief" \in s.errors \/ s.groups = GroupsOf(Replayer),
         faults' \in 0..MaxFaults,
         UNCHANGED <<entry, norms, saved, body, tries, web, audits, briefing, sent>>
  PROVE  PipelineInv'
<1>0. PipelineTypeOK
  BY DEF PipelineInv
<1>1. /\ at' \in [Executions -> Nodes] /\ state' \in [Executions -> Channels]
      /\ at'[Replayer] = node /\ state'[Replayer] = s
      /\ \A y \in Executions : y # Replayer => at'[y] = at[y] /\ state'[y] = state[y]
  BY <1>0, MainIs DEF PipelineTypeOK, Nodes
<1>2. UNCHANGED <<entry, norms, saved, body, tries, cached, paid, repaid, audits, briefing,
                sent>>
  BY DEF web
<1>3. PipelineTypeOK'
  BY <1>0, <1>1, <1>2 DEF PipelineTypeOK
<1>4. \A c \in Writers : /\ c \in Executions /\ c # Replayer
                         /\ at'[c] = at[c] /\ state'[c] = state[c]
  BY <1>1, PipelineAssumption DEF Executions, Writers
<1>5. Resumers \subseteq Writers /\ at'[Main] = at[Main] /\ state'[Main] = state[Main]
  BY <1>4, MainIs DEF Writers
<1>6. InPlaces'
  BY <1>1, <1>2, <1>4, <1>5 DEF PipelineInv, InPlaces
<1>7. Classifying'
  <2>1. RowsInPlace(s)'
    BY <1>2, <1>5 DEF RowsInPlace
  <2>2. \A y \in Executions : RowsInPlace(state[y])'
    BY <1>1, <1>2, <1>5, <2>1 DEF PipelineInv, Classifying, RowsInPlace
  <2>. QED  BY <1>2, <1>5, <2>2 DEF PipelineInv, Classifying, RowsInPlace
<1>8. Reviewing'
  <2>1. judged' = judged
    BY <1>5 DEF judged
  <2>2. \A q \in Resumers : at[q] \notin {"idle", "invoke"} =>
           at'[q] \notin {"idle", "invoke"} /\ body'[q] = body[q]
    BY <1>2, <1>4, <1>5
  <2>3. /\ \A r \in Resumers : HasDecided(state[r]) => HasDecided(state[r])'
        /\ HasDecided(saved.state) => HasDecided(saved.state)'
    BY <1>2, <1>4, <1>5, <2>1, <2>2, DecisionStands DEF HasDecided, Invoked
  <2>. QED  BY <1>2, <1>4, <1>5, <2>1, <2>3 DEF PipelineInv, Reviewing, Past
<1>9. \A c \in Writers : GroupsOf(c)' = GroupsOf(c)
  BY <1>2, <1>4, GroupsStay
<1>10. BriefedByOne'
  <2>1. ASSUME NEW c \in Writers, Sole(c)'
        PROVE  Carried(c)'
    <3>1. Sole(c)
      BY <1>4, <1>5, <2>1 DEF Sole, Invoked
    <3>2. Carried(c)
      BY <3>1 DEF PipelineInv, BriefedByOne
    <3>. QED  BY <1>2, <1>4, <1>9, <3>2 DEF Carried
  <2>2. briefing # NoBriefing =>
           \E x \in Writers : at'[x] \in Beyond /\ briefing' = GroupsOf(x)'
    BY <1>2, <1>4, <1>9 DEF PipelineInv, BriefedByOne
  <2>3. \A y \in Executions : at'[y] = "announce" => at[y] = "announce"
    BY <1>1
  <2>. QED  BY <1>2, <2>1, <2>2, <2>3 DEF PipelineInv, BriefedByOne
<1>11. Replaying'
  <2>1. node \in {"route", "end"} =>
           "brief" \in s.errors \/ s.groups = GroupsOf(Replayer)'
    BY <1>1, <1>2, MainIs, GroupsStay
  <2>. QED  BY <1>1, <1>2, <1>4, <2>1 DEF PipelineInv, Replaying
<1>. QED  BY <1>3, <1>6, <1>7, <1>8, <1>10, <1>11 DEF PipelineInv

(* What the replay carries.                                                 *)
LEMMA ReplayHas ==
  ASSUME PipelineInv
  PROVE  /\ state[Replayer] \in Channels /\ RowsInPlace(state[Replayer])
         /\ saved.state \in Channels /\ RowsInPlace(saved.state) /\ saved.state.groups = {}
         /\ faults \in 0..MaxFaults /\ MaxFaults \in Nat
         /\ at[Replayer] \in {"gate", "brief"} => state[Replayer].groups = {}
         /\ at[Replayer] \in {"route", "end"} =>
               \/ "brief" \in state[Replayer].errors
               \/ state[Replayer].groups = GroupsOf(Replayer)
  BY MainIs, PipelineAssumption DEF PipelineInv, PipelineTypeOK, Classifying, Replaying

(* The replay takes up the checkpoint, which has no groups.                 *)
LEMMA StartReplayStep ==
  ASSUME PipelineInv, StartReplay
  PROVE  PipelineInv'
<1>1. PICK from \in Tails : Goto(Replayer, from)
  BY DEF StartReplay
<1>2. /\ at' = [at EXCEPT ![Replayer] = from]
      /\ state' = [state EXCEPT ![Replayer] = saved.state]
      /\ UNCHANGED <<entry, norms, saved, body, tries, web, audits, briefing, sent, faults>>
  BY <1>1 DEF StartReplay, Goto, Become, trace, web
<1>3. from \in {"gate", "brief"}
  BY DEF Tails
<1>. QED  BY <1>2, <1>3, ReplayHas, ReplayStep

(* The gate of a replay leaves the rows.                                    *)
LEMMA GatePassedStep ==
  ASSUME PipelineInv, GatePassed
  PROVE  PipelineInv'
<1> DEFINE s == [state[Replayer] EXCEPT !.flag = FALSE]
<1>1. /\ at[Replayer] = "gate"
      /\ at' = [at EXCEPT ![Replayer] = "brief"] /\ state' = [state EXCEPT ![Replayer] = s]
      /\ UNCHANGED <<entry, norms, saved, body, tries, web, audits, briefing, sent, faults>>
  BY DEF GatePassed, Advance, Goto, Become, InReplay
<1>2. s \in Channels /\ s.cls = state[Replayer].cls /\ s.groups = {}
  BY <1>1, ReplayHas DEF Channels
<1> HIDE DEF s
<1>3. RowsInPlace(s)
  BY <1>2, ReplayHas DEF RowsInPlace
<1>. QED  BY <1>1, <1>2, <1>3, ReplayHas, ReplayStep

(* The groups are those of the rows the replay carries.                     *)
LEMMA BriefReplayedStep ==
  ASSUME PipelineInv, BriefReplayed
  PROVE  PipelineInv'
<1> DEFINE s == [state[Replayer] EXCEPT !.groups = GroupsOf(Replayer)]
<1>1. /\ at' = [at EXCEPT ![Replayer] = "route"] /\ state' = [state EXCEPT ![Replayer] = s]
      /\ UNCHANGED <<entry, norms, saved, body, tries, web, audits, briefing, sent, faults>>
  BY DEF BriefReplayed, Advance, Goto, Become, InReplay
<1>2. GroupsOf(Replayer) \in Briefings
  BY MainIs, GroupsTyped DEF PipelineInv
<1>3. s \in Channels /\ s.cls = state[Replayer].cls /\ s.groups = GroupsOf(Replayer)
  BY <1>2, ReplayHas DEF Channels
<1> HIDE DEF s
<1>4. RowsInPlace(s)
  BY <1>3, ReplayHas DEF RowsInPlace
<1>. QED  BY <1>1, <1>3, <1>4, ReplayHas, ReplayStep

(* brief and route, in the replay as in a run.                              *)
LEMMA BriefNothingReplayed ==
  ASSUME PipelineInv, BriefNothing(Replayer)
  PROVE  PipelineInv'
<1>1. /\ at[Replayer] = "brief" /\ GroupsOf(Replayer) = {}
      /\ at' = [at EXCEPT ![Replayer] = "route"]
      /\ state' = [state EXCEPT ![Replayer] = state[Replayer]]
      /\ UNCHANGED <<entry, norms, saved, body, tries, web, audits, briefing, sent, faults>>
  BY DEF BriefNothing, Advance, Goto, Become, InReplay
<1>. QED  BY <1>1, ReplayHas, ReplayStep

(* The replay of brief leaves an error in place of the groups.              *)
LEMMA BriefFailsReplayed ==
  ASSUME PipelineInv, BriefFails(Replayer)
  PROVE  PipelineInv'
<1> DEFINE s == Adding(state[Replayer], {"brief"})
<1>1. /\ at' = [at EXCEPT ![Replayer] = "route"] /\ state' = [state EXCEPT ![Replayer] = s]
      /\ Cost(1)
      /\ UNCHANGED <<entry, norms, saved, body, tries, web, audits, briefing, sent>>
  BY DEF BriefFails, Advance, Goto, Become, InReplay
<1>2. s \in Channels /\ s.cls = state[Replayer].cls /\ "brief" \in s.errors
  BY ReplayHas, AddingIs DEF Steps
<1>3. faults' \in 0..MaxFaults
  BY <1>1, ReplayHas DEF Cost
<1> HIDE DEF s
<1>4. RowsInPlace(s)
  BY <1>2, ReplayHas DEF RowsInPlace
<1>. QED  BY <1>1, <1>2, <1>3, <1>4, ReplayStep

(* The replay of route keeps the groups.                                    *)
LEMMA RouteReplayed ==
  ASSUME PipelineInv, Route(Replayer)
  PROVE  PipelineInv'
<1> DEFINE decisions == Decide(state[Replayer].decisions, state[Replayer].cls)
           routed == [state[Replayer] EXCEPT !.decisions = decisions]
           failed == Adding(state[Replayer], {"route"})
<1>1. decisions \in SUBSET Decisions
  BY ReplayHas, DecideTyped DEF Channels
<1>2. /\ at[Replayer] = "route" /\ UNCHANGED <<entry, norms, body, tries, web, audits, briefing>>
      /\ \/ Advance(Replayer, "end", routed) /\ UNCHANGED <<sent, faults>>
         \/ Cost(1) /\ Advance(Replayer, "end", failed) /\ UNCHANGED sent
  BY DEF Route, InReplay
<1> HIDE DEF decisions
<1>3. /\ routed \in Channels /\ routed.cls = state[Replayer].cls
      /\ routed.groups = state[Replayer].groups /\ routed.errors = state[Replayer].errors
  BY <1>1, ReplayHas DEF Channels
<1>4. /\ failed \in Channels /\ failed.cls = state[Replayer].cls
      /\ failed.groups = state[Replayer].groups
      /\ state[Replayer].errors \subseteq failed.errors
  BY ReplayHas, AddingIs DEF Steps
<1> HIDE DEF routed, failed
<1>5. PICK s \in {routed, failed} : Advance(Replayer, "end", s) /\ faults' \in 0..MaxFaults
  BY <1>2, ReplayHas DEF Cost
<1>6. /\ at' = [at EXCEPT ![Replayer] = "end"] /\ state' = [state EXCEPT ![Replayer] = s]
      /\ UNCHANGED <<entry, norms, saved, body, tries, web, audits, briefing, sent>>
  BY <1>2, <1>5 DEF Advance, Goto, Become, InReplay
<1>7. /\ s \in Channels /\ s.cls = state[Replayer].cls
      /\ "brief" \in s.errors \/ s.groups = GroupsOf(Replayer)
  BY <1>2, <1>3, <1>4, <1>5, ReplayHas
<1>8. RowsInPlace(s)
  BY <1>7, ReplayHas DEF RowsInPlace
<1>. QED  BY <1>5, <1>6, <1>7, <1>8, ReplayStep

(* Each step of the graph.                                                  *)
LEMMA StartNodeStep ==
  ASSUME PipelineInv, Start
  PROVE  PipelineInv'
<1>1. PICK node \in {"scout", "normalize", "classify"} : Advance(Main, node, state[Main])
  BY DEF Start
<1>2. state[Main] = Adding(state[Main], {}) /\ norms \in Feeds /\ faults \in 0..MaxFaults
  BY MainIs, AddingIs DEF PipelineInv, PipelineTypeOK
<1>. QED  BY <1>1, <1>2, EarlyStep DEF Start, Early

(* scout, with what was fetched or an error.                                *)
LEMMA ScoutNodeStep ==
  ASSUME PipelineInv, ScoutSkips \/ Scout
  PROVE  PipelineInv'
<1>1. state[Main] = Adding(state[Main], {}) /\ norms \in Feeds /\ faults \in 0..MaxFaults
  BY MainIs, AddingIs DEF PipelineInv, PipelineTypeOK
<1>2. PICK steps \in {{}, {"scout"}} : Advance(Main, "normalize", Adding(state[Main], steps))
  BY <1>1 DEF ScoutSkips, Scout
<1>3. steps \in SUBSET Steps
  BY DEF Steps
<1>. QED  BY <1>1, <1>2, <1>3, EarlyStep DEF ScoutSkips, Scout, Early

(* normalize, with the updates or an error.                                 *)
LEMMA NormalizeStep ==
  ASSUME PipelineInv, Normalize
  PROVE  PipelineInv'
<1>1. /\ state[Main] = Adding(state[Main], {}) /\ norms \in Feeds
      /\ faults \in 0..MaxFaults /\ MaxFaults \in Nat /\ <<>> \in Feeds
  BY MainIs, AddingIs, PipelineAssumption DEF PipelineInv, PipelineTypeOK
<1>2. PICK steps \in {{}, {"normalize"}} : Advance(Main, "classify", Adding(state[Main], steps))
  BY <1>1 DEF Normalize
<1>3. norms' \in Feeds /\ faults' \in 0..MaxFaults /\ steps \in SUBSET Steps
  BY <1>1 DEF Normalize, Cost, Steps
<1>. QED  BY <1>2, <1>3, EarlyStep DEF Normalize, Early

(* The run waits.                                                           *)
LEMMA InterruptStep ==
  ASSUME PipelineInv, Interrupt
  PROVE  PipelineInv'
<1>1. UNCHANGED <<entry, norms, state, saved, body, tries, web, audits, briefing, sent>>
      /\ faults' \in 0..MaxFaults
  BY DEF Interrupt, trace, web, PipelineInv, PipelineTypeOK
<1>. QED  BY <1>1, MainIs, StillStep DEF Interrupt, Goto, Nodes

(* An execution is lost where it is.                                        *)
LEMMA DieStep ==
  ASSUME PipelineInv, NEW x \in Writers, Die(x)
  PROVE  PipelineInv'
<1>1. UNCHANGED <<entry, norms, state, saved, body, tries, web, audits, briefing, sent>>
      /\ faults' \in 0..MaxFaults
  BY PipelineAssumption DEF Die, Cost, trace, web, PipelineInv, PipelineTypeOK
<1>. QED  BY <1>1, StillStep DEF Die, Goto, Nodes

(* Nothing of the run changes: the fetch goes on.                           *)
LEMMA IdleStep ==
  ASSUME PipelineInv, UNCHANGED pipelineVars
  PROVE  PipelineInv'
<1> USE DEF pipelineVars, trace, web
<1>1. UNCHANGED <<entry, norms, at, state, saved, body, tries, cached, paid, repaid, audits,
                  briefing, sent, faults>>
  OBVIOUS
<1>2. PipelineTypeOK' /\ InPlaces'
  BY DEF PipelineInv, PipelineTypeOK, InPlaces
<1>3. Classifying'
  BY DEF PipelineInv, Classifying, RowsInPlace
<1>. QED  BY <1>1, <1>2, <1>3, UntouchedKept DEF PipelineInv

(* The invariant is inductive.                                              *)
LEMMA NextKeepsPipelineInv ==
  ASSUME PipelineInv, [PipelineNext]_<<pipelineVars, fetchVars>>
  PROVE  PipelineInv'
<1>1. CASE Start
  BY <1>1, StartNodeStep
<1>2. CASE ScoutSkips \/ Scout
  BY <1>2, ScoutNodeStep
<1>3. CASE ScoutAsks
  BY <1>3, IdleStep DEF ScoutAsks
<1>4. CASE Normalize
  BY <1>4, NormalizeStep
<1>5. CASE ClassifyRaises
  BY <1>5, RaisesStep
<1>6. CASE Classify
  BY <1>6, ClassifyStep
<1>7. CASE Interrupt
  BY <1>7, InterruptStep
<1>8. ASSUME NEW r \in Resumers, FindInterrupt(r) \/ Invoke(r) \/ Gate(r)
      PROVE  PipelineInv'
  BY <1>8, FindInterruptStep, InvokeStep, GateStep
<1>9. ASSUME NEW x \in Executions, BriefNothing(x) \/ BriefFails(x) \/ Route(x)
      PROVE  PipelineInv'
  <2>1. CASE x \in Writers
    BY <1>9, <2>1, BriefNothingStep, BriefFailsStep, RouteStep
  <2>2. CASE x = Replayer
    BY <1>9, <2>2, BriefNothingReplayed, BriefFailsReplayed, RouteReplayed
  <2>. QED  BY <2>1, <2>2 DEF Executions
<1>10. ASSUME NEW x \in Writers, Brief(x) \/ Announce(x) \/ Die(x)
       PROVE  PipelineInv'
  BY <1>10, BriefStep, AnnounceStep, DieStep
<1>11. CASE StartReplay
  BY <1>11, StartReplayStep
<1>12. CASE GatePassed \/ BriefReplayed
  BY <1>12, GatePassedStep, BriefReplayedStep
<1>13. CASE UNCHANGED <<pipelineVars, fetchVars>>
  BY <1>13, IdleStep
<1>14. CASE Evict
  BY <1>14, EvictStep
<1>. QED
  BY <1>1, <1>2, <1>3, <1>4, <1>5, <1>6, <1>7, <1>8, <1>9, <1>10, <1>11, <1>12, <1>13, <1>14
     DEF PipelineNext

(* In every state of a run, with any updates, any number of requests and any  *)
(* faults, the invariant holds: PipelineTypeOK, and what is where.          *)
THEOREM PipelineInvariant == PipelineSpec => []PipelineInv
<1>1. PipelineInit => PipelineInv
  BY InitPipelineInv
<1>2. PipelineInv /\ [PipelineNext]_<<pipelineVars, fetchVars>> => PipelineInv'
  BY NextKeepsPipelineInv
<1>. QED  BY <1>1, <1>2, PTL DEF PipelineSpec, Init

(* The retry policy executes classify again as a whole: there is one row for  *)
(* each update, one audit row, and no search paid for again while the        *)
(* process still had the answer.                                           *)
THEOREM RetriesLeaveNothing == PipelineSpec => []RetryLeavesNothing
<1>1. PipelineInv => RetryLeavesNothing
  BY DEF PipelineInv, Classifying, RowsInPlace, RetryLeavesNothing
<1>. QED  BY <1>1, PipelineInvariant, PTL

(* Two are two.                                                             *)
LEMMA PairHasTwo ==
  ASSUME NEW x, NEW y, x # y
  PROVE  IsFiniteSet({x, y}) /\ Cardinality({x, y}) = 2
<1>1. IsFiniteSet({x}) /\ Cardinality({x}) = 1
  BY FS_Singleton
<1>2. {x, y} = {x} \cup {y} /\ y \notin {x}
  OBVIOUS
<1>. QED  BY <1>1, <1>2, FS_AddElement

(* Only with a request's decision on it does anything pass the gate, which of *)
(* the requests it may be (node_human_review_gate, apply_human_review_resume, *)
(* resume_run_after_review).                                               *)
THEOREM NothingUnreviewed == PipelineSpec => []ReviewedBeforeBriefed
<1>1. ASSUME PipelineInv PROVE ReviewedBeforeBriefed
  <2>1. ASSUME NEW r \in Resumers, Past(r)
        PROVE  LET q == state[r].by
               IN  /\ q \in Resumers /\ (q # r => Overlapped)
                   /\ \A k \in DOMAIN judged :
                         /\ state[r].cls[k].needs => judged[k].needs /\ OpenTo(body[q], k)
                         /\ body[q].decision = "reject" => ~ state[r].cls[k].in_scope
                         /\ ~ judged[k].in_scope => ~ state[r].cls[k].in_scope
    <3> DEFINE q == state[r].by
    <3>1. q \in Resumers /\ Invoked(q) /\ Bears(state[r].cls, judged, body[q])
      BY <1>1, <2>1 DEF PipelineInv, Reviewing, HasDecided
    <3>2. q # r => Overlapped
      <4>1. SUFFICES ASSUME q # r PROVE Overlapped
        OBVIOUS
      <4>2. Invoked(r)
        BY <2>1 DEF Past, Invoked
      <4> DEFINE R == {x \in Resumers : Invoked(x)}
      <4> HIDE DEF q
      <4>3. q \in R /\ r \in R
        BY <3>1, <4>2
      <4>4. IsFiniteSet(R)
        BY PipelineAssumption, FS_Subset
      <4>5. {q, r} \subseteq R /\ IsFiniteSet({q, r}) /\ Cardinality({q, r}) = 2
        BY <4>1, <4>3, PairHasTwo
      <4>6. Cardinality({q, r}) <= Cardinality(R) /\ Cardinality(R) \in Nat
        BY <4>4, <4>5, FS_Subset, FS_CardinalityType
      <4>. QED  BY <4>5, <4>6 DEF Overlapped
    <3>3. \A k \in DOMAIN judged :
             /\ state[r].cls[k].needs => judged[k].needs /\ OpenTo(body[q], k)
             /\ body[q].decision = "reject" => ~ state[r].cls[k].in_scope
             /\ ~ judged[k].in_scope => ~ state[r].cls[k].in_scope
      BY <3>1 DEF Bears, OpenTo
    <3>. QED  BY <3>1, <3>2, <3>3
  <2>2. Past(Main) => \A row \in ToSet(judged) : ~ row.needs
    BY <1>1 DEF PipelineInv, Reviewing
  <2>. QED  BY <2>1, <2>2 DEF ReviewedBeforeBriefed
<1>. QED  BY <1>1, PipelineInvariant, PTL

(* Without two requests at once, one execution has done it all.             *)
LEMMA OneHasDoneIt ==
  ASSUME PipelineInv, saved.next = "end", ~ Overlapped, "brief" \notin saved.state.errors
  PROVE  \E c \in Writers : /\ saved.state = state[c] /\ Carried(c)
                            /\ briefing = GroupsOf(c)
<1> DEFINE R == {r \in Resumers : Invoked(r)}
<1>1. IsFiniteSet(R)
  BY PipelineAssumption, FS_Subset
<1>2. Cardinality(R) \in Nat /\ ~ (Cardinality(R) > 1)
  BY <1>1, FS_CardinalityType DEF Overlapped
<1>3. Cardinality(R) = 0 \/ Cardinality(R) = 1
  BY <1>2
<1>4. PICK c \in Writers : Sole(c)
  <2>1. CASE Cardinality(R) = 0
    <3>1. R = {}
      BY <1>1, <2>1, FS_EmptySet
    <3>. QED  BY <3>1, MainIs DEF Sole, Invoked
  <2>2. CASE Cardinality(R) = 1
    <3>1. PICK r : R = {r}
      BY <1>1, <2>2, FS_Singleton
    <3>. QED  BY <3>1 DEF Sole, Invoked, Writers
  <2>. QED  BY <1>3, <2>1, <2>2
<1>5. Carried(c)
  BY <1>4 DEF PipelineInv, BriefedByOne
<1>6. briefing = GroupsOf(c)
  BY <1>5 DEF Carried, NoBriefing
<1>. QED  BY <1>5, <1>6 DEF Carried

(* An update that shares its URL with no other has its own row, and is        *)
(* briefed if and only if that row is in scope.                             *)
LEMMA AloneIsTold ==
  ASSUME norms \in Feeds, NEW rows \in Seq(Rows), Len(rows) = Len(norms),
         \A k \in DOMAIN norms : rows[k].url = norms[k].url,
         NEW k \in DOMAIN rows, Alone(k), NEW stored \in BOOLEAN
  PROVE  /\ rows[k].in_scope <=> \E m \in Members(rows, stored) : m.update = k
         /\ \A m \in Members(rows, stored) : m.update = k => m.severity = rows[k].severity
         /\ \E d \in Decide({}, rows) :
               /\ d.url = rows[k].url /\ d.in_scope = rows[k].in_scope
               /\ d.severity = rows[k].severity
<1>1. DOMAIN rows = 1..Len(rows) /\ DOMAIN norms = DOMAIN rows /\ Len(rows) \in Nat
  BY FeedFacts
<1>2. rows[k] \in ToSet(rows) /\ rows[k].url = norms[k].url
  BY <1>1 DEF ToSet
<1>3. LastOf(rows, norms[k].url) = rows[k]
  <2>1. /\ LastOf(rows, norms[k].url) \in ToSet(rows)
        /\ LastOf(rows, norms[k].url).url = norms[k].url
    BY <1>2, LastIs
  <2>2. PICK j \in DOMAIN rows : rows[j] = LastOf(rows, norms[k].url)
    BY <2>1 DEF ToSet
  <2>3. j = k
    BY <1>1, <2>1, <2>2 DEF Alone
  <2>. QED  BY <2>2, <2>3
<1>4. rows[k].in_scope => \E m \in Members(rows, stored) : m.update = k
  <2>1. SUFFICES ASSUME rows[k].in_scope
                 PROVE  \E m \in Members(rows, stored) : m.update = k
    OBVIOUS
  <2> DEFINE m == [update |-> k, severity |-> LastOf(rows, norms[k].url).severity,
                   date |-> DateOf(norms[k], stored)]
  <2>2. m \in Members(rows, stored)
    BY <1>1, <1>2, <1>3, <2>1 DEF Members
  <2>. QED  BY <2>2
<1>5. ASSUME NEW m \in Members(rows, stored), m.update = k
      PROVE  rows[k].in_scope /\ m.severity = rows[k].severity
  <2>1. PICK j \in DOMAIN norms :
           /\ LastOf(rows, norms[j].url).in_scope
           /\ m = [update |-> j, severity |-> LastOf(rows, norms[j].url).severity,
                   date |-> DateOf(norms[j], stored)]
    BY DEF Members
  <2>2. j = k /\ m.severity = LastOf(rows, norms[j].url).severity
    BY <1>5, <2>1
  <2>. QED  BY <1>3, <2>1, <2>2
<1>6. [url |-> rows[k].url, in_scope |-> rows[k].in_scope, severity |-> rows[k].severity]
         \in Decide({}, rows)
  <2>1. \A i \in 1..(k - 1) : rows[i].url # rows[k].url
    <3>1. TAKE i \in 1..(k - 1)
    <3>2. i \in DOMAIN norms /\ i # k
      BY <1>1
    <3>. QED  BY <1>1, <3>2 DEF Alone
  <2>. QED  BY <2>1 DEF Decide
<1>7. \E d \in Decide({}, rows) :
         /\ d.url = rows[k].url /\ d.in_scope = rows[k].in_scope
         /\ d.severity = rows[k].severity
  BY <1>6
<1>. QED  BY <1>4, <1>5, <1>7

(* What the briefings table holds of a run is what one execution decided, and *)
(* of a run that ended well what the notifications were routed by.          *)
THEOREM BriefingIsTheRuns == PipelineSpec => []BriefingMatchesRun
<1>1. ASSUME PipelineInv PROVE BriefingMatchesRun
  <2>0. PipelineTypeOK /\ audits["briefing"] <= 1
    BY <1>1 DEF PipelineInv, BriefedByOne
  <2>1. ASSUME briefing # NoBriefing
        PROVE  /\ \E x \in Writers : briefing = GroupsOf(x)
               /\ \A g, h \in briefing : \A m \in g, n \in h :
                     GroupKey(m) = GroupKey(n) <=> g = h
    <3>1. PICK x \in Writers : briefing = GroupsOf(x)
      BY <1>1, <2>1 DEF PipelineInv, BriefedByOne
    <3>2. state[x].cls \in Seq(Rows) /\ norms \in Feeds /\ Stored(x) \in BOOLEAN
      BY <2>0 DEF PipelineTypeOK, Channels, Stored, InReplay, Executions
    <3>3. Members(state[x].cls, Stored(x)) \in SUBSET Briefed
      BY <3>2, MembersTyped
    <3>. QED  BY <3>1, <3>3, GroupsOfMembers DEF GroupsOf
  <2>2. ASSUME saved.next = "end", ~ Overlapped,
               saved.state.errors \cap {"brief", "route"} = {}
        PROVE  /\ briefing = NoBriefing => audits["briefing"] = 0
               /\ briefing # NoBriefing /\ "audit_write" \notin saved.state.errors =>
                     audits["briefing"] = 1
               /\ \A row \in ToSet(saved.state.cls), k \in DOMAIN norms :
                     Alone(k) /\ row.url = norms[k].url =>
                         /\ row.in_scope <=> \E m \in UNION briefing : m.update = k
                         /\ \A m \in UNION briefing : m.update = k => m.severity = row.severity
                         /\ \E d \in saved.state.decisions :
                               /\ d.url = row.url /\ d.in_scope = row.in_scope
                               /\ d.severity = row.severity
    <3>1. PICK c \in Writers : /\ saved.state = state[c] /\ Carried(c)
                               /\ briefing = GroupsOf(c)
      BY <1>1, <2>2, OneHasDoneIt
    <3> DEFINE rows == state[c].cls
    <3>2. rows \in Seq(Rows) /\ norms \in Feeds /\ Stored(c) \in BOOLEAN
      BY <2>0 DEF PipelineTypeOK, Channels, Stored, InReplay, Executions
    <3>3. Members(rows, Stored(c)) \in SUBSET Briefed
      BY <3>2, MembersTyped
    <3>4. UNION briefing = Members(rows, Stored(c))
      BY <3>1, <3>3, GroupsOfMembers DEF GroupsOf
    <3>5. state[c].decisions = Decide({}, rows)
      BY <2>2, <3>1 DEF Carried
    <3>6. RowsInPlace(saved.state)
      BY <1>1 DEF PipelineInv, Classifying
    <3>7. ASSUME NEW row \in ToSet(rows), NEW k \in DOMAIN norms, Alone(k), row.url = norms[k].url
          PROVE  /\ row.in_scope <=> \E m \in UNION briefing : m.update = k
                 /\ \A m \in UNION briefing : m.update = k => m.severity = row.severity
                 /\ \E d \in state[c].decisions :
                       /\ d.url = row.url /\ d.in_scope = row.in_scope
                       /\ d.severity = row.severity
      <4>1. PICK j \in DOMAIN rows : row = rows[j]
        BY <3>7 DEF ToSet
      <4>2. Len(rows) = Len(norms) /\ \A i \in DOMAIN norms : rows[i].url = norms[i].url
        <5>1. rows # <<>>
          BY <3>2, <4>1
        <5>. QED  BY <3>1, <3>6, <5>1 DEF RowsInPlace
      <4>3. j \in DOMAIN norms
        BY <3>2, <4>1, <4>2, FeedFacts
      <4>4. j = k
        BY <3>7, <4>1, <4>2, <4>3 DEF Alone
      <4> HIDE DEF rows
      <4>. QED  BY <3>2, <3>4, <3>5, <3>7, <4>1, <4>2, <4>4, AloneIsTold
    <3>8. briefing = NoBriefing => audits["briefing"] = 0
      BY <1>1 DEF PipelineInv, BriefedByOne
    <3>9. briefing # NoBriefing /\ "audit_write" \notin saved.state.errors =>
             audits["briefing"] = 1
      BY <2>2, <3>1 DEF Carried
    <3>. QED  BY <3>1, <3>7, <3>8, <3>9
  <2>. QED  BY <2>0, <2>1, <2>2 DEF BriefingMatchesRun
<1>. QED  BY <1>1, PipelineInvariant, PTL

(* Whoever is not the replay leaves its place alone.                        *)
LEMMA ReplayStays ==
  ASSUME PipelineInv, at'[Replayer] # at[Replayer], [PipelineNext]_<<pipelineVars, fetchVars>>
  PROVE  \/ StartReplay \/ GatePassed \/ BriefReplayed
         \/ BriefNothing(Replayer) \/ BriefFails(Replayer) \/ Route(Replayer)
<1>1. at \in [Executions -> Nodes]
  BY DEF PipelineInv, PipelineTypeOK
<1>2. ASSUME NEW x \in Writers, NEW node, at' = [at EXCEPT ![x] = node]
      PROVE  FALSE
  <2>1. x # Replayer
    BY PipelineAssumption DEF Writers
  <2>. QED  BY <1>1, <1>2, <2>1, MainIs
<1>3. at' # at
  OBVIOUS
<1>4. ~ (Start \/ ScoutSkips \/ Scout \/ Normalize \/ ClassifyRaises \/ Classify \/ Interrupt)
  BY <1>2, MainIs DEF Start, ScoutSkips, Scout, Normalize, ClassifyRaises, Classify, Interrupt,
                      Advance, Goto
<1>5. ~ ScoutAsks /\ ~ UNCHANGED <<pipelineVars, fetchVars>>
  BY <1>3 DEF ScoutAsks, pipelineVars
<1>6. ASSUME NEW x \in Writers
      PROVE  ~ (BriefNothing(x) \/ BriefFails(x) \/ Route(x) \/ Announce(x) \/ Die(x))
  BY <1>2 DEF BriefNothing, BriefFails, Route, Announce, Die, Advance, Goto
<1>7. ASSUME NEW x \in Writers
      PROVE  ~ Brief(x)
  BY <1>2 DEF Brief, Advance, Goto
<1>8. ASSUME NEW r \in Resumers
      PROVE  ~ (FindInterrupt(r) \/ Invoke(r) \/ Gate(r))
  <2>1. r \in Writers
    BY DEF Writers
  <2>. QED  BY <1>2, <2>1 DEF FindInterrupt, Invoke, Gate, Advance, Goto
<1>9. ~ Evict
  BY <1>3 DEF Evict
<1>. QED  BY <1>4, <1>5, <1>6, <1>7, <1>8, <1>9 DEF PipelineNext, Executions

(* Without a stored row that is dated otherwise, the replay's groups are the  *)
(* run's.                                                                  *)
LEMMA ReplayShowsBriefing ==
  ASSUME PipelineInv, saved.next = "end", state[Replayer].cls = saved.state.cls, ~ Overlapped,
         "brief" \notin saved.state.errors,
         entry = "default" \/ \A u \in ToSet(norms) : u.dated
  PROVE  GroupsOf(Replayer) = briefing
<1>1. PICK c \in Writers : saved.state = state[c] /\ briefing = GroupsOf(c)
  BY OneHasDoneIt
<1>2. norms \in Feeds /\ \A k \in DOMAIN norms : norms[k] \in ToSet(norms)
  BY DEF PipelineInv, PipelineTypeOK, ToSet
<1>3. \A k \in DOMAIN norms : DateOf(norms[k], Stored(c)) = DateOf(norms[k], Stored(Replayer))
  BY <1>2 DEF DateOf, Stored
<1>4. Members(state[c].cls, Stored(c)) = Members(state[c].cls, Stored(Replayer))
  BY <1>3 DEF Members
<1>. QED  BY <1>1, <1>4 DEF GroupsOf

(* In replay_mode nothing is stored, sent or recorded, whatever the replay    *)
(* meets; and what its graph computes is what the run had briefed.         *)
THEOREM ReplaysLeaveNoTrace == PipelineSpec => ReplayLeavesNoTrace
<1>1. ASSUME PipelineInv, [PipelineNext]_<<pipelineVars, fetchVars>>
      PROVE  LeavesNoTrace
  <2>1. SUFFICES ASSUME at'[Replayer] # at[Replayer]
                 PROVE  /\ UNCHANGED trace
                        /\ at'[Replayer] = "end" /\ OfItsRun =>
                              state'[Replayer].groups = briefing
    BY DEF LeavesNoTrace
  <2>2. \/ StartReplay \/ GatePassed \/ BriefReplayed
        \/ BriefNothing(Replayer) \/ BriefFails(Replayer) \/ Route(Replayer)
    BY <1>1, <2>1, ReplayStays
  <2>3. UNCHANGED trace
    BY <2>2 DEF StartReplay, GatePassed, BriefReplayed, BriefNothing, BriefFails, Route, Advance,
                InReplay, trace
  <2>4. at \in [Executions -> Nodes] /\ state \in [Executions -> Channels]
    BY <1>1 DEF PipelineInv, PipelineTypeOK
  <2>5. ASSUME at'[Replayer] = "end", OfItsRun
        PROVE  state'[Replayer].groups = briefing
    <3>1. Route(Replayer)
      BY <2>2, <2>4, <2>5, MainIs DEF StartReplay, GatePassed, BriefReplayed, BriefNothing,
                                     BriefFails, Advance, Goto, Tails
    <3>2. /\ state'[Replayer].groups = state[Replayer].groups
          /\ state[Replayer].errors \subseteq state'[Replayer].errors
      <4> DEFINE decisions == Decide(state[Replayer].decisions, state[Replayer].cls)
                 routed == [state[Replayer] EXCEPT !.decisions = decisions]
                 failed == Adding(state[Replayer], {"route"})
      <4>1. routed.groups = state[Replayer].groups /\ routed.errors = state[Replayer].errors
        BY <2>4, MainIs DEF Channels
      <4>2. /\ failed.groups = state[Replayer].groups
            /\ state[Replayer].errors \subseteq failed.errors
        BY <1>1, ReplayHas, AddingIs DEF Steps
      <4>3. Become(Replayer, routed) \/ Become(Replayer, failed)
        BY <3>1 DEF Route, Advance
      <4> HIDE DEF routed, failed
      <4>4. state'[Replayer] = routed \/ state'[Replayer] = failed
        BY <2>4, <4>3, MainIs DEF Become
      <4>. QED  BY <4>1, <4>2, <4>4
    <3>3. "brief" \notin state[Replayer].errors /\ "brief" \notin saved.state.errors
      BY <2>5, <3>2 DEF OfItsRun
    <3>4. state[Replayer].groups = GroupsOf(Replayer)
      BY <1>1, <3>1, <3>3, ReplayHas DEF Route
    <3>5. GroupsOf(Replayer) = briefing
      BY <1>1, <2>5, <3>3, ReplayShowsBriefing DEF OfItsRun
    <3>. QED  BY <3>2, <3>4, <3>5
  <2>. QED  BY <2>3, <2>5
<1>2. PipelineInv /\ [PipelineNext]_<<pipelineVars, fetchVars>> => [LeavesNoTrace]_pipelineVars
  BY <1>1
<1>. QED  BY <1>2, PipelineInvariant, PTL DEF PipelineSpec, Init, ReplayLeavesNoTrace

(* node_scout fetches as execute_poll does, and the other nodes leave the     *)
(* fetch alone.                                                            *)
THEOREM PipelineFetches == PipelineSpec => FetchSpec
<1>1. [PipelineNext]_<<pipelineVars, fetchVars>> => [FetchNext]_fetchVars
  BY DEF PipelineNext, FetchNext, Start, ScoutSkips, ScoutAsks, Scout, Normalize, ClassifyRaises,
         Evict, Classify, Interrupt, FindInterrupt, Invoke, Gate, BriefNothing, BriefFails,
         Route, Brief, Announce, Die, StartReplay, GatePassed, BriefReplayed
<1>. QED  BY <1>1, PTL DEF PipelineSpec, Init, FetchSpec

(* What a run fetches, it fetches with as many attempts as it should.        *)
THEOREM PipelineFetchEarned == PipelineSpec => []FetchIsEarned
BY PipelineFetches, FetchEarned, PTL

(* Every variable of a run and of its fetch has its type.                   *)
THEOREM PipelineTyped == PipelineSpec => []TypeOK
<1>1. PipelineInv /\ FetchInv => TypeOK
  BY DEF PipelineInv, FetchInv, TypeOK
<1>. QED  BY <1>1, PipelineInvariant, PipelineFetches, FetchInvariant, PTL
=============================================================================
