-------------------------- MODULE MCTextWorkloads --------------------------
(***************************************************************************)
(* The workloads of Redis and OpenSearch beside plain vector search.  They *)
(* share no state, so one run explores them side by side: `workload` picks *)
(* the component that moves, the variables of the others stay Off.         *)
(***************************************************************************)
EXTENDS Fulltext, RankFusion, HybridRrf, HybridBuckets, WorkloadLayout

CONSTANT Off
VARIABLE workload
mcVars == <<workload, textVars, fusionVars, rrfVars, bucketVars, layoutVars>>

TextOff    == server = Off /\ index = Off /\ marker = Off /\ corpus = Off /\ job = Off /\ published = None
FusionOff  == lists = Off /\ reference = Off /\ answer = <<>>
RrfOff     == rrfServer = Off /\ pipes = Off /\ rrf = [c \in Clients |-> NoRun]
BucketsOff == host = Off /\ rows = Off /\ hybrid = NoRunYet /\ pass = NoPass /\ ran = NoPass
LayoutOff  == site = Off /\ built = Off /\ sitting = Off /\ shown = NoResult

MCInit ==
  \/ workload = "fulltext" /\ TextInit /\ FusionOff /\ RrfOff /\ BucketsOff /\ LayoutOff
  \/ workload = "fusion" /\ TextOff /\ FusionInit /\ RrfOff /\ BucketsOff /\ LayoutOff
  \/ workload = "rrf" /\ TextOff /\ FusionOff /\ RrfInit /\ BucketsOff /\ LayoutOff
  \/ workload = "buckets" /\ TextOff /\ FusionOff /\ RrfOff /\ BucketsInit /\ LayoutOff
  \/ workload = "layout" /\ TextOff /\ FusionOff /\ RrfOff /\ BucketsOff /\ LayoutInit

(* the variables of the workloads that do not move *)
AllBut(w) ==
  /\ workload = w /\ UNCHANGED workload
  /\ w = "fulltext" \/ UNCHANGED textVars
  /\ w = "fusion" \/ UNCHANGED fusionVars
  /\ w = "rrf" \/ UNCHANGED rrfVars
  /\ w = "buckets" \/ UNCHANGED bucketVars
  /\ w = "layout" \/ UNCHANGED layoutVars

MCNext ==
  \/ AllBut("fulltext") /\ TextNext
  \/ AllBut("fusion") /\ (BuildReference \/ Answer)
  \/ AllBut("rrf") /\ RrfNext
  \/ AllBut("buckets") /\ BucketsNext
  \/ AllBut("layout") /\ LayoutNext

MCSpec == MCInit /\ [][MCNext]_mcVars

-----------------------------------------------------------------------------
(* fulltext *)
Eng         == TextConfig("english", None, "absent", FALSE, FALSE, FALSE)
EngNone     == TextConfig("english", {"a"}, "none", FALSE, FALSE, TRUE)
EngCompound == TextConfig("english", {"a"}, "absent", TRUE, FALSE, FALSE)
ParA        == TextConfig("parity", {"a"}, "exact", FALSE, FALSE, FALSE)
ParANone    == TextConfig("parity", {"a"}, "none", FALSE, FALSE, FALSE)
ParAB       == TextConfig("parity", {"a", "b"}, "absent", FALSE, FALSE, TRUE)
ParReduced  == TextConfig("parity", {"a"}, "absent", TRUE, TRUE, FALSE)
Malformed   == TextConfig("english", {"a"}, "none", TRUE, FALSE, FALSE)
MCSearchConfigs == {VectorConfig, Eng, EngNone, EngCompound, ParA, ParANone, ParAB, ParReduced, Malformed}
MCEngineConfigs ==
  {{c} : c \in MCSearchConfigs} \cup {{VectorConfig, Eng}, {ParA, ParANone}, {ParA, ParAB}, {Eng, ParA},
                                      {VectorConfig, ParA}, {Eng, EngNone}}

(* hybrid-rrf: two rank constants, and three specs the startup refuses *)
MCRrfSpecs ==
  {[config |-> "h", k |-> k, top |-> 1, window |-> 2, ef |-> 2, totals |-> "none"] : k \in {1, 2}} \cup
  {[config |-> "h", k |-> 1, top |-> 3, window |-> 2, ef |-> 2, totals |-> "none"],
   [config |-> "h", k |-> 1, top |-> 1, window |-> 2, ef |-> 1, totals |-> "none"],
   [config |-> "h", k |-> 1, top |-> 1, window |-> 2, ef |-> 2, totals |-> "exact"]}

(* hybrid: rows on both sides of each boundary of a corpus of 1000 *)
Row(matching, bucket, predicate, truth) ==
  [matching |-> matching, corpus |-> 1000, bucket |-> bucket, predicate |-> predicate, truth |-> truth, bound |-> TRUE,
   leaves |-> {<<"text", "text">>, <<"range", "int">>}, rendered |-> {<<"text", "text">>, <<"range", "int">>}]
Row1 == Row(250, "50%", 1, 2)
MCQueryRows ==
  {<<Row1, Row(249, "10%", 1, 2), Row(24, "1%", 2, 2)>>,
   <<Row(25, "10%", 1, 2), Row(2, "0.1%", 1, 2), Row(25, "10%", 1, 1)>>,
   <<Row(500, "50%", 1, 2), Row(3, "1%", 2, 2), Row(400, "50%", 2, 2), Row(4, "1%", 2, 2)>>,
   <<Row(249, "50%", 1, 2)>>,
   <<>>, <<[Row1 EXCEPT !.bound = FALSE]>>, <<[Row1 EXCEPT !.corpus = 999]>>,
   <<[Row1 EXCEPT !.leaves = {<<"text", "keyword">>}]>>,
   <<[Row1 EXCEPT !.rendered = {<<"text", "text">>}]>>}

(* layouts: what differs from a plain vector config *)
PlainConfig == [declared |-> {"unset"}, skip |-> FALSE, text |-> "plain", calibrated |-> {}, mixed |-> FALSE, ids |-> FALSE,
                dump |-> FALSE, limits |-> "agree", algorithm |-> "HNSW", compression |-> "none"]
Declares(ws) == [PlainConfig EXCEPT !.declared = ws]
MCLayoutConfigs ==
  {PlainConfig, Declares({"hybrid", "hybrid-rrf"}), Declares({"filter-only"}), Declares({"vector", "filter-only"}),
   [Declares({"fulltext"}) EXCEPT !.ids = TRUE],
   [Declares({"fulltext"}) EXCEPT !.text = "no-vector"],
   [Declares({"fulltext"}) EXCEPT !.text = "compound", !.dump = TRUE],
   [Declares({"vector", "fulltext"}) EXCEPT !.mixed = TRUE],
   [Declares({"vector", "filter-only"}) EXCEPT !.limits = "conflict"],
   [PlainConfig EXCEPT !.skip = TRUE, !.mixed = TRUE],
   [PlainConfig EXCEPT !.algorithm = "SVS"],
   [PlainConfig EXCEPT !.algorithm = "SVS", !.compression = "LVQ8"],
   [PlainConfig EXCEPT !.compression = "SQ8:0", !.calibrated = {"vector"}]}

(* A published result is what its labels say, whoever built the index and  *)
(* whoever else is on the server: the records of a hybrid run are its own  *)
(* queries under their own buckets, filtered as the run claims, and layout *)
(* and compression are those of the index that was searched.               *)
LabelsTrue == RecordsIdentify /\ FilteredEvidence /\ LabelledAsBuilt

=============================================================================
