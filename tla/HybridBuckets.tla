---------------------------- MODULE HybridBuckets ----------------------------
(***************************************************************************)
(* The hybrid workload: one timed pass per selectivity bucket over the     *)
(* dataset's filtered queries.  A pass hands its queries to the engine's   *)
(* ordinary search through a field of the engine, hybrid_pass, and must    *)
(* take it back on every path, or the next search of the engine would run  *)
(* the pass's queries instead of its own.                                  *)
(*   host      engine, whether the filter reaches the k-NN query, the mode *)
(*             a shard runs a query in, the counter of filtered requests   *)
(*   hybrid    the run: stage, bucket, remapped records, requests so far   *)
(*   pass      hybrid_pass                                                 *)
(*   ran       what the last plain vector search ran                       *)
(***************************************************************************)
EXTENDS Naturals, Sequences, FiniteSets

CONSTANTS QueryRows, \* sequences of rows: matching, corpus, bucket, predicate, truth,
                     \* bound, leaves, rendered
          CorpusSize, MinMatches, SamplePerPredicate, MaxForeign, NoPass

ASSUME BucketsAssumption ==
  /\ SamplePerPredicate \in Nat \ {0}
  /\ \A rs \in QueryRows : Len(rs) \in Nat /\ rs = [i \in 1..Len(rs) |-> rs[i]]

VARIABLES host, rows, hybrid, pass, ran
bucketVars == <<host, rows, hybrid, pass, ran>>

Buckets  == <<"50%", "10%", "1%", "0.1%">>
Policies == {"unset", "ADHOC_BF", "BATCHES"}
Modes    == {"HYBRID_ADHOC_BF", "HYBRID_BATCHES", "HYBRID_BATCHES_TO_ADHOC_BF", "STANDARD_KNN"}

(* boundaries at half of 50, 5 and 0.5 per cent, in integers *)
BucketOf(matching, corpus) ==
  IF matching * 1000 >= 250 * corpus THEN "50%"
  ELSE IF matching * 10000 >= 250 * corpus THEN "10%"
  ELSE IF matching * 100000 >= 250 * corpus THEN "1%" ELSE "0.1%"

CheckRow(r) ==
  /\ r.matching \in 1..r.corpus /\ r.bucket = BucketOf(r.matching, r.corpus)
  /\ r.matching >= MinMatches

(* a leaf is <<operation, type of its field in the schema>> *)
ValidateAgainstSchema(r) ==
  \A leaf \in r.leaves : leaf[2] \in CASE leaf[1] = "text"  -> {"text"}
                                       [] leaf[1] = "range" -> {"int"}
                                       [] OTHER             -> {"keyword", "int"}

(* built for this corpus and these test queries *)
CheckBoundToCorpus(rs)       == \A i \in DOMAIN rs : rs[i].corpus = CorpusSize /\ rs[i].bound
CheckTopAgainstTruth(rs, top) == \A i \in DOMAIN rs : rs[i].truth >= top

Preflight(rs, top) ==
  /\ \A i \in DOMAIN rs : CheckRow(rs[i]) /\ ValidateAgainstSchema(rs[i])
  /\ rs # <<>> /\ CheckBoundToCorpus(rs) /\ CheckTopAgainstTruth(rs, top)

HybridParams == [top : {0, 1, 2}, queries : {0, 1}, rate : BOOLEAN, config : Policies, env : Policies]
CheckHybridParams(p) == p.queries = 0 /\ ~p.rate /\ p.top > 0

(* the config's policy and the environment's must agree; {} when refused. *)
(* OpenSearch refuses the config knob and never reads the variable.       *)
ResolvePolicy(p) ==
  IF host.engine = "opensearch" THEN {"unset"} \cap {p.config}
  ELSE IF p.config = "unset" THEN {p.env}
  ELSE IF p.env \in {"unset", p.config} THEN {p.config} ELSE {}

(* The filter as the engine's builder rendered it, read back leaf by leaf: *)
(* Redis parses the expression, OpenSearch compares the JSON.              *)
CheckRedisFilter(r)      == r.rendered = r.leaves
CheckOpensearchFilter(r) == r.rendered = r.leaves
CheckFilters(rs) ==
  \A i \in DOMAIN rs : IF host.engine = "redis" THEN CheckRedisFilter(rs[i]) ELSE CheckOpensearchFilter(rs[i])

(* the members of a finite set of numbers, in order *)
Ascending(S) == CHOOSE s \in [1..Cardinality(S) -> S] : \A i, j \in DOMAIN s : i < j => s[i] < s[j]

Positions(b) == Ascending({i \in DOMAIN rows : rows[i].bucket = b})
Occupied     == Ascending({k \in DOMAIN Buckets : \E i \in DOMAIN rows : rows[i].bucket = Buckets[k]})
ByBucket     == [n \in DOMAIN Occupied |-> Buckets[Occupied[n]]]

-----------------------------------------------------------------------------
NoRunYet == [stage |-> "idle", bucket |-> 1, records |-> {}, requested |-> 0, done |-> {}, failed |-> 0,
             before |-> 0, policy |-> "unset"]

BucketsInit ==
  /\ host \in [engine : {"redis", "opensearch"}, reaches : BOOLEAN, modes : {{m} : m \in Modes},
               requests : {0}, foreign : {0}]
  /\ rows \in QueryRows
  /\ hybrid = NoRunYet /\ pass = NoPass /\ ran = NoPass

StartHybrid(p) ==
  /\ hybrid.stage = "idle"
  /\ CheckHybridParams(p) /\ Preflight(rows, p.top) /\ CheckFilters(rows)
  /\ \E policy \in ResolvePolicy(p) : hybrid' = [NoRunYet EXCEPT !.stage = "between", !.policy = policy]
  /\ UNCHANGED <<host, rows, pass, ran>>

RunFailed == [NoRunYet EXCEPT !.stage = "failed"]

(* OpenSearch reads its counter first, and gives the pass up if it cannot *)
BeginPass ==
  /\ hybrid.stage = "between" /\ hybrid.bucket <= Len(ByBucket)
  /\ \E readable \in IF host.engine = "opensearch" THEN BOOLEAN ELSE {TRUE} :
       IF readable
       THEN /\ pass' = Positions(ByBucket[hybrid.bucket])
            /\ hybrid' = [hybrid EXCEPT !.stage = "pass", !.done = {}, !.failed = 0, !.before = host.requests]
       ELSE pass' = NoPass /\ hybrid' = RunFailed
  /\ UNCHANGED <<host, rows, ran>>

(* a query of the pass, in any order; the server counts it if its filter   *)
(* reached the k-NN query                                                  *)
PassQuery(i) ==
  /\ hybrid.stage = "pass" /\ i \in DOMAIN pass \ hybrid.done
  /\ \E ok \in BOOLEAN :
       /\ hybrid' = [hybrid EXCEPT !.done = @ \cup {i}, !.failed = IF ok THEN @ ELSE @ + 1]
       /\ host' = [host EXCEPT !.requests = IF ok /\ host.reaches THEN @ + 1 ELSE @]
  /\ UNCHANGED <<rows, pass, ran>>

(* another client's filtered query on the same cluster *)
ForeignRequest ==
  /\ hybrid.stage = "pass" /\ host.foreign < MaxForeign
  /\ host' = [host EXCEPT !.requests = @ + 1, !.foreign = @ + 1]
  /\ UNCHANGED <<rows, hybrid, pass, ran>>

(* the whole search may fail; the pass is taken back either way *)
PassFails ==
  /\ hybrid.stage = "pass"
  /\ pass' = NoPass /\ hybrid' = RunFailed
  /\ UNCHANGED <<host, rows, ran>>

-----------------------------------------------------------------------------
(* Evidence that the filter was applied.                                   *)
ProfileSample ==
  {i \in DOMAIN pass :
     Cardinality({j \in 1..i : rows[pass[j]].predicate = rows[pass[i]].predicate}) <= SamplePerPredicate}

CheckRedisModes(policy) ==
  ProfileSample # {} =>
    host.modes \subseteq CASE policy = "ADHOC_BF" -> {"HYBRID_ADHOC_BF"}
                           [] policy = "BATCHES"  -> {"HYBRID_BATCHES", "HYBRID_BATCHES_TO_ADHOC_BF"}
                           [] OTHER               -> Modes \ {"STANDARD_KNN"}

CheckOpenSearchFilteredRequests ==
  host.requests - hybrid.before >= Len(pass) - hybrid.failed

Evidence == IF host.engine = "redis" THEN CheckRedisModes(hybrid.policy) ELSE CheckOpenSearchFilteredRequests

(* a bucket in which no query succeeded has no report *)
BucketReport == hybrid.failed < Len(pass)

(* a record of the pass, renumbered into the whole run *)
RemapRecords(offset) == {[query |-> pass[i], seq |-> i + offset, bucket |-> ByBucket[hybrid.bucket]] : i \in DOMAIN pass}

EndPass ==
  /\ hybrid.stage = "pass" /\ hybrid.done = DOMAIN pass
  /\ pass' = NoPass
  /\ hybrid' = IF ~Evidence \/ ~BucketReport THEN RunFailed
               ELSE [hybrid EXCEPT !.stage = "between", !.bucket = @ + 1, !.requested = @ + Len(pass),
                                   !.records = @ \cup RemapRecords(hybrid.requested)]
  /\ UNCHANGED <<host, rows, ran>>

PublishHybrid ==
  /\ hybrid.stage = "between" /\ hybrid.bucket > Len(ByBucket)
  /\ hybrid' = [hybrid EXCEPT !.stage = "published"]
  /\ UNCHANGED <<host, rows, pass, ran>>

(* the engine's next search config: it takes hybrid_pass when that is set *)
VectorSearch ==
  /\ hybrid.stage \in {"idle", "published", "failed"}
  /\ ran' = IF pass = NoPass THEN <<>> ELSE pass
  /\ pass' = NoPass
  /\ hybrid' = [NoRunYet EXCEPT !.stage = "over"]
  /\ UNCHANGED <<host, rows>>

BucketsNext ==
  \/ \E p \in HybridParams : StartHybrid(p)
  \/ BeginPass \/ (\E i \in DOMAIN rows : pass # NoPass /\ PassQuery(i)) \/ ForeignRequest \/ PassFails \/ EndPass
  \/ PublishHybrid \/ VectorSearch

-----------------------------------------------------------------------------
(* The records of a published hybrid run name each query of the set once,  *)
(* under its own bucket, and number the dispatches 1 .. n without a gap or *)
(* a repetition across buckets. The engine's next search never runs a      *)
(* pass's queries.                                                         *)
RecordsIdentify ==
  /\ hybrid.stage = "published" =>
       /\ {r.query : r \in hybrid.records} = DOMAIN rows
       /\ {r.seq : r \in hybrid.records} = DOMAIN rows
       /\ Cardinality(hybrid.records) = Len(rows)
       /\ \A r \in hybrid.records : r.bucket = BucketOf(rows[r.query].matching, rows[r.query].corpus)
  /\ ran \in {NoPass, <<>>}

(* A published hybrid run was filtered: on Redis in the vector search mode *)
(* its policy names; on OpenSearch the server counted as many filtered     *)
(* requests as it answered, so that an unfiltered run passes only when     *)
(* other clients sent filtered queries meanwhile.                          *)
FilteredEvidence ==
  hybrid.stage = "published" =>
    IF host.engine = "redis"
    THEN "STANDARD_KNN" \notin host.modes
           /\ (hybrid.policy = "ADHOC_BF" => host.modes = {"HYBRID_ADHOC_BF"})
    ELSE host.reaches \/ host.foreign > 0
=============================================================================
