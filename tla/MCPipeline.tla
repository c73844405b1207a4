------------------------------ MODULE MCPipeline ------------------------------
(***************************************************************************)
(* A small instance of Pipeline: at most two updates, alike but for what     *)
(* the run makes of them.                                                  *)
(***************************************************************************)
EXTENDS Pipeline, TLC

Update(url, jurisdiction, text, dated) ==
    [url |-> url, jurisdiction |-> jurisdiction, text |-> text, dated |-> dated]

(* Nothing; one update; two with URLs of their own, one of them perhaps out  *)
(* of scope or undated; and two that share a URL.                          *)
SmallFeeds ==
    LET a == Update("a", "eu", TRUE, TRUE)
        b == Update("b", "eu", TRUE, TRUE)
        undated == Update("b", "eu", TRUE, FALSE)
        foreign == Update("b", "moon", TRUE, TRUE)
        blank == Update("a", "eu", FALSE, TRUE)
    IN  {<<>>, <<a>>, <<a, b>>, <<a, undated>>, <<foreign, a>>, <<a, a>>, <<a, blank>>}

SmallCorrections ==
    {[url |-> "a", severity |-> "low"], [url |-> AnyUrl, severity |-> "low"]}

Symmetry == Permutations(Resumers)
=============================================================================
