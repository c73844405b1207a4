-------------------------------- MODULE Fetch --------------------------------
(***************************************************************************)
(* Fetching a source: the attempts at one place with their retries          *)
(* (services/connectors/fetch_retry.py and the three connectors), and the   *)
(* fallback (services/connectors/scout_fetch.py).  Both node_scout and      *)
(* execute_poll fetch this way.  The waits between attempts are left out.  *)
(***************************************************************************)
EXTENDS Naturals, Sequences

CONSTANTS
    Types,        \* SourceType: rss, http
    Modes,        \* FallbackMode of the sources to consider: none, ...
    MAX_ATTEMPTS, \* 4 in the code
    NoSource      \* no fetch is under way

ASSUME FetchAssumption == MAX_ATTEMPTS \in Nat \ {0}

VARIABLES
    source,   \* [type, mode] of the row; a fallback mode comes with a URL
    place,    \* "idle", then the place being asked, then "done"
    answers,  \* [place -> the answers to its attempts so far]
    outcome   \* how the fetch ended

fetchVars == <<source, place, answers, outcome>>

Places == {"primary", "fallback"}
(* What an attempt meets: a body, a body that does not parse or is not of    *)
(* its type, 429, another 4xx, a 500 to 504 or a broken connection, any     *)
(* other status or error, and an exception of the connector's own code.    *)
Answers == {"body", "garbled", "busy", "refused", "down", "strange", "crash"}
Outcomes == {"primary", "fallback", "failed", "both_failed", "fallback_crash", "crash"}

FetchTypeOK ==
    /\ source \in [type : Types, mode : Modes] \cup {NoSource}
    /\ place \in Places \cup {"idle", "done"}
    /\ answers \in [Places -> Seq(Answers)]
    /\ outcome \in Outcomes \cup {"none"}

Unasked == [p \in Places |-> <<>>]

FetchInit ==
    /\ source = NoSource /\ place = "idle" /\ answers = Unasked /\ outcome = "none"
-----------------------------------------------------------------------------
(* fetch_by_source_type, fetch_fallback_items: whose code asks at p.        *)
Connector(p) == IF p = "fallback" /\ source.mode = "html_page" THEN "html" ELSE source.type

(* fetch_rss_items: any error status raises, and so does feedparser, though   *)
(* not for a feed that is merely malformed.                                 *)
FeedUsable(a) == a = "body"

(* fetch_html_page_items: any error status, a body that is not HTML, and one   *)
(* that cannot be parsed.                                                   *)
HtmlUsable(a) == a = "body"

(* fetch_http_page_item: the body of whatever is below 500 is an item.       *)
PageUsable(a) == a \in {"body", "garbled", "busy", "refused"}

Usable(connector, a) ==
    CASE connector = "http" -> PageUsable(a)
      [] connector = "html" -> HtmlUsable(a)
      [] OTHER -> FeedUsable(a)

(* RETRYABLE_HTTP_STATUSES and the transient httpx errors.  With a page that *)
(* is not parsed, 429 is never an error.                                   *)
Retryable(connector, a) == ~ Usable(connector, a) /\ a \in {"busy", "down"}

(* fallback_configured *)
Configured == source.mode # "none"

(* The caller has read the row.                                             *)
StartFetch ==
    /\ place = "idle"
    /\ source' \in [type : Types, mode : Modes]
    /\ place' = "primary"
    /\ UNCHANGED <<answers, outcome>>

End(how) == place' = "done" /\ outcome' = how

(* fetch_scout_items_with_fallback, when the place has failed.              *)
GiveUp(a) ==
    \/ a = "crash" /\ End(IF place = "primary" THEN "crash" ELSE "fallback_crash")
    \/ a # "crash" /\ place = "fallback" /\ End("both_failed")
    \/ a # "crash" /\ place = "primary" /\ ~ Configured /\ End("failed")
    \/ a # "crash" /\ place = "primary" /\ Configured
          /\ place' = "fallback" /\ UNCHANGED outcome

(* MUTANT of Attempt: the count is compared before the attempt is counted.  *)
AttemptOnceMore ==
    /\ place \in Places
    /\ \E a \in Answers :
          LET connector == Connector(place)
          IN  /\ answers' = [answers EXCEPT ![place] = Append(@, a)]
              /\ \/ Usable(connector, a) /\ End(place)
                 \/ /\ Retryable(connector, a) /\ Len(answers[place]) < MAX_ATTEMPTS
                    /\ UNCHANGED <<place, outcome>>
                 \/ /\ ~ Usable(connector, a)
                    /\ Retryable(connector, a) => Len(answers[place]) = MAX_ATTEMPTS
                    /\ GiveUp(a)
    /\ UNCHANGED source

(* run_http_attempt_with_retry: one turn of the loop.  Every error is turned *)
(* into ConnectorFetchFailed at once, but for those worth another attempt.  *)
Attempt ==
    /\ place \in Places
    /\ \E a \in Answers :
          LET connector == Connector(place)
              attempt == Len(answers[place]) + 1
          IN  /\ answers' = [answers EXCEPT ![place] = Append(@, a)]
              /\ \/ Usable(connector, a) /\ End(place)
                 \/ /\ Retryable(connector, a) /\ attempt < MAX_ATTEMPTS
                    /\ UNCHANGED <<place, outcome>>
                 \/ /\ ~ Usable(connector, a)
                    /\ Retryable(connector, a) => attempt = MAX_ATTEMPTS
                    /\ GiveUp(a)
    /\ UNCHANGED source

(* The caller has taken the outcome.                                        *)
Forget == source' = NoSource /\ place' = "idle" /\ answers' = Unasked /\ outcome' = "none"

FetchNext == StartFetch \/ Attempt \/ Forget

FetchSpec == FetchInit /\ [][FetchNext]_fetchVars
-----------------------------------------------------------------------------
AllTransient(p) ==
    \A k \in DOMAIN answers[p] \ {Len(answers[p])} : answers[p][k] \in {"busy", "down"}
EndsWith(p, set) == answers[p] # <<>> /\ answers[p][Len(answers[p])] \in set
Exhausted(p) == Len(answers[p]) = MAX_ATTEMPTS /\ EndsWith(p, {"busy", "down"})

(***************************************************************************)
(* A fetch is neither given up too early nor kept up too long: no place is   *)
(* asked more than MAX_ATTEMPTS times or after an answer that another try   *)
(* will not change, a place is given up for a passing trouble only after    *)
(* all its attempts, the fallback is asked exactly when the primary failed   *)
(* for good and there is one, and a crash of the connector asks nobody.     *)
(***************************************************************************)
FetchIsEarned ==
    /\ \A p \in Places : Len(answers[p]) <= MAX_ATTEMPTS /\ AllTransient(p)
    /\ answers["fallback"] # <<>> =>
          /\ source.mode # "none"
          /\ Exhausted("primary") \/ EndsWith("primary", {"garbled", "refused", "strange"})
    /\ outcome = "primary" => answers["fallback"] = <<>>
    /\ outcome = "failed" => source.mode = "none"
    /\ outcome \in {"failed", "both_failed"} =>
          LET last == IF outcome = "failed" THEN "primary" ELSE "fallback"
          IN  Exhausted(last) \/ EndsWith(last, {"garbled", "refused", "strange"})
    /\ outcome \in {"primary", "fallback"} =>
          EndsWith(outcome, {"body"} \cup IF source.type = "http"
                                            THEN {"garbled", "busy", "refused"} ELSE {})
=============================================================================
