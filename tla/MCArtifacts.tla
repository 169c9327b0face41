---------------------------- MODULE MCArtifacts ----------------------------
(***************************************************************************)
(* What a run leaves behind and what is made of it: the provenance of its  *)
(* artifacts, its summary, and the comparison of two runs' dumps.  The      *)
(* three share no state, so `part` picks the one that moves.                *)
(***************************************************************************)
EXTENDS Provenance, Summary, CompareResults

VARIABLE part
mcVars == <<part, vars, summaryVars, compareVars>>

NoKey == [key |-> "none", val |-> "unset"]
Extras ==
    {NoKey} \union
    {[key |-> k[1], val |-> k[2]] :
        k \in {<<"api_key", "tok">>, <<"unknown", "dsn">>, <<"unread", "two">>, <<"hnsw.dsn", "two">>,
               <<"number_of_shards", "two">>}}

Config(id, name, token, e, decl, extra, policies) ==
    [id |-> id, name |-> name, token |-> token, engine |-> e, file |-> id, wanted |-> TRUE, decl |-> decl,
     extra |-> extra, policies |-> policies]

\* The texts that take a reader through each of its branches.
TellingTexts(how) ==
    CASE how \in {"parsed", "wait", "env_first", "config_first"} -> {"two", "junk"}
      [] how = "flag" -> {"on", "junk"}
      [] how \in {"or", "raw"} -> {"two", "dsn"}
      [] how = "opt" -> {"two", "blank"}
      [] how = "secs" -> {"two", "junk"}
      [] how = "strict_config_first" -> {"on", "junk"}
      [] how = "choice" -> {"two", "junk"}
      [] how \in {"required", "present"} -> {"two"}
      [] how = "clamped" -> {"two", "zero"}
      [] how \in {"config", "connection"} -> {}
NoEnv == [var |-> <<"none", "none">>, raw |-> "unset"]
Envs(e) ==
    {NoEnv} \union
    {[var |-> Var(e, k.name), raw |-> r] :
        k \in create_engine[e], r \in {"two", "junk", "on", "dsn", "tok", "blank", "zero"}}
Telling(e) ==
    {v \in Envs(e) : \E k \in create_engine[e] :
        Var(e, k.name) = v.var /\ v.raw \in IF is_secret(k.name) THEN {"tok"} ELSE TellingTexts(k.how)} \union {NoEnv}

Needed(e) ==
    {[var |-> Var(e, k.name), raw |-> "two"] : k \in {x \in create_engine[e] : x.how = "required"}}

\* Two configurations whose names, tokens and files may collide, and one outside the run.
PlanInit ==
    /\ host = "plain"
    /\ partial \in BOOLEAN /\ scalar \in BOOLEAN /\ budget \in BOOLEAN
    /\ \E e, f \in {"redis", "mongodb", "qdrant", "misspelt"}, n \in {"a", "a!", "b"}, w \in BOOLEAN :
        /\ configs = {Config(1, "a", "a", e, "unset", NoKey, {"none"}),
                      [Config(2, n, IF n = "b" THEN "b" ELSE "a", f, "unset", NoKey,
                              {"none"} \union IF n = "b" /\ f = "redis" THEN {"two"} ELSE {}) EXCEPT !.wanted = w]}
        /\ env \in {NoEnv, [var |-> Var(e, ExactEnv(e)), raw |-> "on"]}
    /\ broken \in SUBSET {1, 2}

\* One configuration of every engine, under every telling environment or with one more
\* key, and a Redis one with two hybrid searches.
ProvInit ==
    /\ host \in {"plain", "dsn"}
    /\ partial = FALSE /\ scalar = FALSE /\ budget = FALSE
    /\ broken = {}
    /\ \E e \in supported_engines, decl \in {"unset", "one"}, x \in Extras, ps \in {{"two"}, {"one", "two"}} :
        /\ env \in IF x = NoKey /\ host = "plain" THEN Telling(e) ELSE {NoEnv} \union Needed(e)
        /\ configs = {Config(1, "a", "a", e, decl, x, {"none"}), Config(2, "b", "b", "redis", "unset", NoKey, ps)}

ProvenanceInit == Unstarted /\ (PlanInit \/ ProvInit) /\ KnownTexts
ProvenanceOff ==
    /\ Unstarted
    /\ configs = {} /\ broken = {} /\ env = NoEnv /\ partial = FALSE /\ scalar = FALSE /\ budget = FALSE /\ host = "plain"

-----------------------------------------------------------------------------
\* Rows on both sides of the bucket boundaries, saturated or not.
Row(w, ef, parallel, precision, qps, saturated) ==
    [workload |-> w, ef |-> ef, parallel |-> parallel, precision |-> precision, qps |-> qps,
     p95 |-> parallel, saturated |-> saturated]
MCSummaryRows ==
    {Row("vector", 64, 1, 9699, 10, FALSE), Row("vector", 64, 2, 9700, 30, TRUE),
     Row("vector", 64, 2, 9710, 20, FALSE), Row("vector", 64, 4, 9700, 20, FALSE),
     Row("hybrid", 32, 1, 9650, 40, TRUE), Row("hybrid", 32, 2, 9650, 40, FALSE),
     Row("filter-only", 64, 1, 0, 90, FALSE), Row("fulltext", 64, 2, 0, 90, FALSE),
     Row("hybrid-rrf", 64, 1, 9700, 90, FALSE)}

-----------------------------------------------------------------------------
Attempt(q, seq, ok, rows) == [query |-> q, seq |-> seq, ok |-> ok, rows |-> rows]
Both == {Attempt(1, 1, TRUE, <<1, 2>>), Attempt(2, 2, TRUE, <<2>>)}
Reordered == {Attempt(2, 1, TRUE, <<2>>), Attempt(1, 2, TRUE, <<2, 1>>)}
Longer == {Attempt(1, 1, TRUE, <<1, 2, 3>>), Attempt(2, 2, TRUE, <<2, 1>>)}
Retried == {Attempt(1, 1, FALSE, <<>>), Attempt(1, 2, TRUE, <<1, 2>>), Attempt(2, 3, TRUE, <<2>>)}
Unanswered == {Attempt(1, 1, TRUE, <<1, 2>>), Attempt(2, 2, FALSE, <<>>)}
OnlyOne == {Attempt(1, 1, TRUE, <<1, 2>>)}

Head1 == [engine |-> "ref", config |-> "r", token |-> "r", dataset |-> "d", workload |-> "vector", parallel |-> 1,
          top |-> 2, search |-> 0, space |-> "row", layout |-> "vector", identity |-> "none", truth |-> "t"]
Head2 == [Head1 EXCEPT !.engine = "cand", !.config = "c", !.token = "c"]
Variants ==
    {Head2, Head1, [Head2 EXCEPT !.dataset = "e"], [Head2 EXCEPT !.workload = "hybrid"], [Head2 EXCEPT !.parallel = 2],
     [Head2 EXCEPT !.top = 1], [Head2 EXCEPT !.space = "docid"], [Head2 EXCEPT !.identity = "sha"],
     [Head2 EXCEPT !.truth = "u"], [Head2 EXCEPT !.truth = NoTruth], [Head2 EXCEPT !.layout = "full"]}
Point(h, raw) == [header |-> h, raw |-> raw]
Captures == {Both, Reordered, Longer, Retried, Unanswered, OnlyOne}
TwoPoints(h, a, b) ==
    {<<Point(h, a), Point([h EXCEPT !.parallel = 2], b)>>, <<Point(h, a), Point([h EXCEPT !.search = 1], b)>>,
     <<Point([h EXCEPT !.identity = "sha"], a), Point([h EXCEPT !.identity = "sha", !.search = 1], b)>>}
MCComparisons ==
    {<< <<Point(Head1, a)>>, <<Point(h, b)>> >> : a \in Captures, h \in {Head2}, b \in Captures} \union
    {<< <<Point(Head1, Both)>>, <<Point(h, b)>> >> : h \in Variants, b \in {Both, Longer}} \union
    {<< x, y >> : x \in TwoPoints(Head1, Both, Both), y \in TwoPoints(Head2, Both, Retried)} \union
    {<< x, <<Point(Head2, Both)>> >> : x \in TwoPoints(Head1, Both, OnlyOne)} \union
    {<< <<Point(Head1, Both), Point([Head1 EXCEPT !.config = "r!"], Both)>>, <<Point(Head2, Both)>> >>,
     << <<Point([Head1 EXCEPT !.space = "docid"], Both)>>, <<Point([Head2 EXCEPT !.space = "docid"], Longer)>> >>}
MCTruths == [t |-> << <<1, 2>>, <<2, 1>> >>, u |-> << <<1, 2>>, <<1, 2>> >>]
MCDocIds == [r \in {1, 2} |-> IF r = 1 THEN "x" ELSE "y"]

-----------------------------------------------------------------------------
CompareOff == queue = <<>> /\ dir = <<>> /\ writer = <<>> /\ report = NoReport

MCInit ==
    \/ part = "provenance" /\ ProvenanceInit /\ SummaryInit /\ CompareOff
    \/ part = "summary" /\ ProvenanceOff /\ SummaryInit /\ CompareOff
    \/ part = "compare" /\ ProvenanceOff /\ SummaryInit /\ CompareInit

AllBut(p) ==
    /\ part = p /\ UNCHANGED part
    /\ p = "provenance" \/ UNCHANGED vars
    /\ p = "summary" \/ UNCHANGED summaryVars
    /\ p = "compare" \/ UNCHANGED compareVars

MCNext ==
    \/ AllBut("provenance") /\ Next
    \/ AllBut("summary") /\ SummaryNext
    \/ AllBut("compare") /\ CompareNext

MCSpec == MCInit /\ [][MCNext]_mcVars
=============================================================================
