-------------------------- MODULE IndexPhaseProofs --------------------------
(***************************************************************************)
(* From the upload to the first query, for every number of retries and     *)
(* merges and for every size of corpus, budget and window: what the index  *)
(* phase of OpenSearch and Elasticsearch and the FT.INFO wait of the Redis *)
(* family say of the index is so.  And for every engine whose tables keep  *)
(* to LifecycleAssumption and RowsAssumption, a search runs over its own   *)
(* corpus, all of it and all of it indexed, in the process that uploaded   *)
(* it and in one that takes it over.                                       *)
(***************************************************************************)
EXTENDS MCIndexPhase, FiniteSetTheorems, TLAPS

-----------------------------------------------------------------------------
\* OpenSearch and Elasticsearch.

\* What an operation that repeats itself may have submitted: one merge for each
\* attempt.  The merge that is waited for is the last one.
Merges ==
  /\ pc \in {"delete", "create", "upload"} => submitted = 0
  /\ pc = "refresh" /\ product = "elasticsearch" => submitted = 0
  /\ pc = "submit" /\ Underway => submitted <= attempt
  /\ pc = "await" => task = submitted /\ submitted > 0
  /\ pc = "await" /\ product = "elasticsearch" => submitted <= attempt + 1

\* The last merge done without a failed shard has left one segment.
Merged == finished > 0 /\ finished \notin broken => segments = "one"

\* How far the index is at each stage.
Staged ==
  /\ pc \notin {"delete", "create"} => index = "fresh"
  /\ pc \notin {"delete", "create", "upload"} => segments # "none"
  /\ (pc = "refresh" /\ product = "opensearch") \/ pc \in {"health", "done"} =>
       finished = submitted /\ (product = "opensearch" => segments = "one")
  /\ pc \in {"health", "done"} /\ product = "opensearch" => searcher = "one"
  /\ pc \in {"submit", "await", "health", "done"} /\ product = "elasticsearch" => searcher # "none"
  /\ pc = "done" <=> result = "ok"

LuceneIInv == LuceneTypeOK /\ Merges /\ Merged /\ Staged

LEMMA LuceneTypes ==
  ASSUME LuceneTypeOK
  PROVE  /\ MaxRetries \in Nat /\ submitted \in Nat /\ submitted <= MaxRetries + 1
         /\ finished \in Nat /\ finished <= submitted /\ task \in Nat /\ task <= submitted
         /\ attempt \in Nat /\ attempt <= MaxRetries
         /\ \A b \in broken : b \in Nat /\ b <= finished
         /\ pc \in {"delete", "create", "upload", "refresh", "submit", "await", "health", "done"}
BY IndexAssumption DEF LuceneTypeOK, Stages

LEMMA InitLucene == LuceneInit => LuceneIInv
BY IndexAssumption DEF LuceneInit, LuceneIInv, LuceneTypeOK, Stages, Merges, Merged, Staged

\* The client stops: nothing but the result changes, and a request that it no
\* longer waits for may arrive.
LEMMA GiveUpKeeps ==
  ASSUME LuceneIInv, Underway, GiveUp, UNCHANGED <<product, budget, finished, broken, task>>,
         segments' = segments, searcher' = searcher \/ (pc = "refresh" /\ searcher' = segments),
         index' \in {"absent", "old", "fresh"}, pc \notin {"delete", "create"} => index' = index,
         submitted' = submitted \/ (pc = "submit" /\ submitted' = submitted + 1)
  PROVE  LuceneIInv'
<1>1. LuceneTypeOK' BY LuceneTypes DEF LuceneIInv, LuceneTypeOK, Merges, GiveUp, Underway
<1>2. Merges' BY LuceneTypes DEF LuceneIInv, Merges, GiveUp, Underway
<1>3. Merged'
  <2>1. CASE pc = "refresh" /\ product = "elasticsearch"
    BY <2>1, LuceneTypes DEF LuceneIInv, Merges, Merged, GiveUp
  <2>2. CASE ~(pc = "refresh" /\ product = "elasticsearch")
    BY <2>2, LuceneTypes DEF LuceneIInv, LuceneTypeOK, Merged, GiveUp
  <2> QED BY <2>1, <2>2
<1>4. Staged' BY LuceneTypes DEF LuceneIInv, LuceneTypeOK, Staged, GiveUp, Underway
<1> QED BY <1>1, <1>2, <1>3, <1>4 DEF LuceneIInv

\* The client tries again, from the stage it is in.
LEMMA RetryKeeps ==
  ASSUME LuceneIInv, Underway, attempt < MaxRetries,
         attempt' = attempt + 1, pc' = pc, result' = result,
         UNCHANGED <<product, budget, finished, broken, task>>,
         segments' = segments, searcher' = searcher \/ (pc = "refresh" /\ searcher' = segments),
         index' \in {"absent", "old", "fresh"}, pc \notin {"delete", "create"} => index' = index,
         submitted' = submitted \/ (pc = "submit" /\ submitted' = submitted + 1)
  PROVE  LuceneIInv'
<1>1. LuceneTypeOK' BY LuceneTypes DEF LuceneIInv, LuceneTypeOK, Merges, Underway
<1>2. Merges' BY LuceneTypes DEF LuceneIInv, Merges, Underway
<1>3. Merged'
  <2>1. CASE pc = "refresh" /\ product = "elasticsearch"
    BY <2>1, LuceneTypes DEF LuceneIInv, Merges, Merged
  <2>2. CASE ~(pc = "refresh" /\ product = "elasticsearch")
    BY <2>2, LuceneTypes DEF LuceneIInv, LuceneTypeOK, Merged
  <2> QED BY <2>1, <2>2
<1>4. Staged' BY LuceneTypes DEF LuceneIInv, LuceneTypeOK, Staged, Underway
<1> QED BY <1>1, <1>2, <1>3, <1>4 DEF LuceneIInv

\* A request in trouble, outside Elasticsearch's open merge request.
LEMMA TroubleKeeps ==
  ASSUME LuceneIInv, Underway, NEW fate, Trouble(fate), ~(product = "elasticsearch" /\ pc = "await"),
         UNCHANGED <<product, budget, finished, broken, task>>,
         segments' = segments, searcher' = searcher \/ (pc = "refresh" /\ searcher' = segments),
         index' \in {"absent", "old", "fresh"}, pc \notin {"delete", "create"} => index' = index,
         submitted' = submitted \/ (pc = "submit" /\ submitted' = submitted + 1)
  PROVE  LuceneIInv'
<1>1. CASE GiveUp BY <1>1, GiveUpKeeps
<1>2. CASE ~GiveUp
  <2>1. attempt < MaxRetries /\ attempt' = attempt + 1 /\ pc' = pc /\ result' = result
    BY <1>2, LuceneTypes DEF LuceneIInv, Trouble, Retry
  <2> QED BY <2>1, RetryKeeps
<1> QED BY <1>1, <1>2

LEMMA ConfigureKeeps ==
  ASSUME LuceneIInv, NEW fate \in RequestFates, DeleteIndex(fate) \/ CreateIndex(fate)
  PROVE  LuceneIInv'
<1>1. /\ Underway /\ pc \in {"delete", "create"} /\ index' \in {"absent", "old", "fresh"}
      /\ UNCHANGED <<product, budget, segments, searcher, submitted, finished, broken, task>>
  BY DEF DeleteIndex, CreateIndex, AtStage, LuceneIInv, LuceneTypeOK
<1>2. CASE GiveUp BY <1>1, <1>2, GiveUpKeeps
<1>3. CASE Trouble(fate) BY <1>1, <1>3, TroubleKeeps
<1>4. CASE NextStage /\ (pc = "create" => index' = "fresh")
  <2>1. /\ pc' = (IF pc = "delete" THEN "create" ELSE "upload") /\ attempt' = 0 /\ result' = result
        /\ submitted = 0 /\ finished = 0
    BY <1>1, <1>4, LuceneTypes DEF NextStage, Then, LuceneIInv, Merges
  <2>2. LuceneTypeOK' BY <1>1, <2>1, LuceneTypes DEF LuceneIInv, LuceneTypeOK, Stages
  <2>3. Merges' /\ Merged' /\ Staged'
    BY <1>1, <1>4, <2>1 DEF LuceneIInv, Merges, Merged, Staged, Underway
  <2> QED BY <2>2, <2>3 DEF LuceneIInv
<1> QED BY <1>1, <1>2, <1>3, <1>4 DEF DeleteIndex, CreateIndex, AtStage, Arrives

LEMMA UploadKeeps == ASSUME LuceneIInv, Upload PROVE LuceneIInv'
<1>1. /\ pc = "upload" /\ submitted = 0 /\ finished = 0 /\ index = "fresh" /\ result = "none" /\ segments' = "many"
      /\ UNCHANGED <<product, budget, index, searcher, submitted, finished, broken, task>>
  BY LuceneTypes DEF Upload, AtStage, Underway, LuceneIInv, Merges, Staged
<1>2. /\ pc' = (IF product = "opensearch" THEN "submit" ELSE "refresh") /\ attempt' = 0 /\ result' = result
  BY <1>1 DEF Upload, NextStage, Then
<1>3. LuceneTypeOK' BY <1>1, <1>2, LuceneTypes DEF LuceneIInv, LuceneTypeOK, Stages
<1>4. Merges' /\ Merged' /\ Staged'
  BY <1>1, <1>2 DEF LuceneIInv, LuceneTypeOK, Merges, Merged, Staged, Underway
<1> QED BY <1>3, <1>4 DEF LuceneIInv

LEMMA RefreshKeeps == ASSUME LuceneIInv, NEW fate \in RequestFates, Refresh(fate) PROVE LuceneIInv'
<1>1. /\ Underway /\ pc = "refresh" /\ searcher' \in {searcher, segments}
      /\ index' = index /\ index = "fresh" /\ result = "none"
      /\ UNCHANGED <<product, budget, segments, submitted, finished, broken, task>>
  BY DEF Refresh, AtStage, Underway, LuceneIInv, Staged
<1>2. CASE Trouble(fate)
  BY <1>1, <1>2, TroubleKeeps
<1>3. CASE NextStage /\ searcher' = segments
  <2>1. /\ pc' = (IF product = "opensearch" THEN "health" ELSE "submit") /\ attempt' = 0 /\ result' = result
    BY <1>1, <1>3 DEF NextStage, Then
  <2>2. LuceneTypeOK' BY <1>1, <1>3, <2>1, LuceneTypes DEF LuceneIInv, LuceneTypeOK, Stages
  <2>3. CASE product = "opensearch"
    BY <1>1, <1>3, <2>1, <2>2, <2>3 DEF LuceneIInv, Merges, Merged, Staged, Underway
  <2>4. CASE product = "elasticsearch"
    BY <1>1, <1>3, <2>1, <2>2, <2>4, LuceneTypes DEF LuceneIInv, Merges, Merged, Staged, Underway
  <2> QED BY <2>3, <2>4 DEF LuceneIInv, LuceneTypeOK
<1> QED BY <1>2, <1>3 DEF Refresh, Arrives

LEMMA SubmitKeeps == ASSUME LuceneIInv, NEW fate \in RequestFates, Submit(fate) PROVE LuceneIInv'
<1>1. /\ Underway /\ pc = "submit" /\ submitted' \in {submitted, submitted + 1} /\ submitted <= attempt
      /\ index = "fresh" /\ result = "none"
      /\ UNCHANGED <<product, budget, index, segments, searcher, finished, broken>>
  BY DEF Submit, AtStage, Underway, LuceneIInv, Staged, Merges
<1>2. CASE fate # "answered"
  <2>1. Trouble(fate) /\ UNCHANGED task BY <1>2 DEF Submit
  <2> QED BY <1>1, <2>1, TroubleKeeps DEF LuceneIInv, LuceneTypeOK
<1>3. CASE fate = "answered"
  <2>1. /\ submitted' = submitted + 1 /\ task' = submitted + 1 /\ pc' = "await" /\ result' = result
        /\ attempt' = IF product = "opensearch" THEN 0 ELSE attempt
    BY <1>3 DEF Submit, Arrives
  <2>2. LuceneTypeOK' BY <1>1, <2>1, LuceneTypes DEF LuceneIInv, LuceneTypeOK, Stages
  <2>3. Merges' /\ Merged' /\ Staged'
    BY <1>1, <2>1, LuceneTypes DEF LuceneIInv, LuceneTypeOK, Merges, Merged, Staged, Underway
  <2> QED BY <2>2, <2>3 DEF LuceneIInv
<1> QED BY <1>2, <1>3

\* The merge waited for is the last one: when it is over, none is left.
LEMMA AwaitKeeps == ASSUME LuceneIInv, NEW fate \in RequestFates, AwaitMerge(fate) PROVE LuceneIInv'
<1>1. /\ Underway /\ pc = "await" /\ task = submitted /\ submitted > 0 /\ index = "fresh" /\ result = "none"
      /\ UNCHANGED <<product, budget, index, segments, searcher, submitted, finished, broken, task>>
  BY DEF AwaitMerge, AtStage, Underway, LuceneIInv, Staged, Merges, cluster
<1>2. CASE GiveUp BY <1>1, <1>2, GiveUpKeeps DEF LuceneIInv, LuceneTypeOK
<1>3. CASE NextStage /\ TaskComplete
  <2>1. finished = submitted /\ (product = "opensearch" => segments = "one")
    BY <1>1, <1>3, LuceneTypes DEF TaskComplete, MergeOver, LuceneIInv, Merged
  <2>2. /\ pc' = (IF product = "opensearch" THEN "refresh" ELSE "health") /\ attempt' = 0 /\ result' = result
    BY <1>1, <1>3 DEF NextStage, Then
  <2>3. LuceneTypeOK' BY <1>1, <2>2, LuceneTypes DEF LuceneIInv, LuceneTypeOK, Stages
  <2>4. Merges' /\ Merged' /\ Staged'
    BY <1>1, <2>1, <2>2 DEF LuceneIInv, LuceneTypeOK, Merges, Merged, Staged
  <2> QED BY <2>3, <2>4 DEF LuceneIInv
<1>4. CASE (Trouble(fate) \/ Trouble("transient")) /\ ~GiveUp
  <2>1. attempt < MaxRetries /\ attempt' = attempt + 1 /\ result' = result
    BY <1>4, LuceneTypes DEF LuceneIInv, Trouble, Retry
  <2>2. CASE product = "opensearch"
    BY <1>1, <1>4, <2>2, TroubleKeeps DEF LuceneIInv, LuceneTypeOK
  <2>3. CASE product = "elasticsearch"
    <3>1. pc' = "submit" /\ submitted <= attempt + 1
      BY <1>1, <1>4, <2>3 DEF Trouble, Retry, LuceneIInv, Merges
    <3>2. LuceneTypeOK' BY <1>1, <2>1, <3>1, LuceneTypes DEF LuceneIInv, LuceneTypeOK, Stages
    <3>3. Merges' /\ Merged' /\ Staged'
      BY <1>1, <2>1, <3>1, <2>3, LuceneTypes DEF LuceneIInv, Merges, Merged, Staged
    <3> QED BY <3>2, <3>3 DEF LuceneIInv
  <2> QED BY <2>2, <2>3 DEF LuceneIInv, LuceneTypeOK
<1>5. CASE product = "opensearch" /\ attempt' = 0 /\ UNCHANGED <<pc, result>>
  <2>1. LuceneTypeOK' BY <1>1, <1>5, LuceneTypes DEF LuceneIInv, LuceneTypeOK, Stages
  <2>2. Merges' /\ Merged' /\ Staged'
    BY <1>1, <1>5 DEF LuceneIInv, Merges, Merged, Staged
  <2> QED BY <2>1, <2>2 DEF LuceneIInv
<1> QED BY <1>2, <1>3, <1>4, <1>5 DEF AwaitMerge

LEMMA HealthKeeps == ASSUME LuceneIInv, NEW fate \in RequestFates, Health(fate) PROVE LuceneIInv'
<1>1. /\ Underway /\ pc = "health" /\ index = "fresh" /\ result = "none"
      /\ finished = submitted
      /\ UNCHANGED <<product, budget, index, segments, searcher, submitted, finished, broken, task>>
  BY DEF Health, AtStage, Underway, LuceneIInv, Staged, cluster
<1>2. CASE Trouble(fate)
  BY <1>1, <1>2, TroubleKeeps DEF LuceneIInv, LuceneTypeOK
<1>3. CASE NextStage
  <2>1. pc' = "done" /\ attempt' = 0 /\ result' = "ok" BY <1>1, <1>3 DEF NextStage, Then
  <2>2. LuceneTypeOK' BY <1>1, <2>1, LuceneTypes DEF LuceneIInv, LuceneTypeOK, Stages
  <2>3. Merges' /\ Merged' /\ Staged' BY <1>1, <2>1 DEF LuceneIInv, Merges, Merged, Staged
  <2> QED BY <2>2, <2>3 DEF LuceneIInv
<1> QED BY <1>2, <1>3 DEF Health

\* The cluster never merges once the client is past the merge.
LEMMA MergeKeeps == ASSUME LuceneIInv, Merge PROVE LuceneIInv'
<1>1. /\ finished < submitted /\ finished' = finished + 1
      /\ UNCHANGED <<product, budget, index, submitted, pc, attempt, task, result>>
  BY DEF Merge
<1>2. /\ pc \in {"refresh", "submit", "await"} /\ ~(pc = "refresh" /\ product = "opensearch")
      /\ ~(pc = "refresh" /\ product = "elasticsearch")
  BY <1>1, LuceneTypes DEF LuceneIInv, Merges, Staged
<1>3. CASE /\ segments' = "one" /\ UNCHANGED broken
           /\ searcher' \in {searcher} \cup IF product = "elasticsearch" THEN {"one"} ELSE {}
  <2>1. LuceneTypeOK' BY <1>1, <1>3, LuceneTypes DEF LuceneIInv, LuceneTypeOK
  <2>2. Merges' /\ Merged' /\ Staged'
    BY <1>1, <1>2, <1>3 DEF LuceneIInv, LuceneTypeOK, Merges, Merged, Staged, Underway
  <2> QED BY <2>1, <2>2 DEF LuceneIInv
<1>4. CASE broken' = broken \cup {finished'} /\ UNCHANGED <<segments, searcher>>
  <2>1. LuceneTypeOK' BY <1>1, <1>4, LuceneTypes DEF LuceneIInv, LuceneTypeOK
  <2>2. Merges' /\ Merged' /\ Staged'
    BY <1>1, <1>2, <1>4 DEF LuceneIInv, LuceneTypeOK, Merges, Merged, Staged, Underway
  <2> QED BY <2>1, <2>2 DEF LuceneIInv
<1> QED BY <1>3, <1>4 DEF Merge

LEMMA LuceneStep == ASSUME LuceneIInv, [LuceneNext]_luceneVars PROVE LuceneIInv'
<1>1. CASE \E fate \in RequestFates : DeleteIndex(fate) \/ CreateIndex(fate) BY <1>1, ConfigureKeeps
<1>2. CASE \E fate \in RequestFates : Refresh(fate) BY <1>2, RefreshKeeps
<1>3. CASE \E fate \in RequestFates : Submit(fate) BY <1>3, SubmitKeeps
<1>4. CASE \E fate \in RequestFates : AwaitMerge(fate) BY <1>4, AwaitKeeps
<1>5. CASE \E fate \in RequestFates : Health(fate) BY <1>5, HealthKeeps
<1>6. CASE Upload BY <1>6, UploadKeeps
<1>7. CASE UploadFails \/ Expire
  <2>1. /\ Underway /\ GiveUp /\ pc \notin {"delete", "create"}
        /\ UNCHANGED <<product, budget, index, segments, searcher, submitted, finished, broken, task>>
    BY <1>7 DEF UploadFails, Expire, AtStage, cluster
  <2> QED BY <2>1, GiveUpKeeps DEF LuceneIInv, LuceneTypeOK
<1>8. CASE Merge BY <1>8, MergeKeeps
<1>9. CASE UNCHANGED luceneVars
  BY <1>9 DEF luceneVars, cluster, LuceneIInv, LuceneTypeOK, Merges, Merged, Staged, Underway
<1> QED BY <1>1, <1>2, <1>3, <1>4, <1>5, <1>6, <1>7, <1>8, <1>9 DEF LuceneNext, LuceneClient, LuceneDone

\* Whatever the cluster sheds, denies or loses, one merge is waited for and
\* it is the last: this is the invariant that the verdict rests on.
THEOREM LuceneInvariance == LuceneSpec => []LuceneIInv
BY InitLucene, LuceneStep, PTL DEF LuceneSpec

\* OpenSearch and Elasticsearch are measured only over the index this run
\* created, all of it, and beside no merge, and OpenSearch through the one
\* merged segment, however many retries are allowed and however many merges
\* they leave behind.
THEOREM IndexIsSettled == LuceneSpec => []OkMeansSettled
<1>1. LuceneIInv => OkMeansSettled BY DEF LuceneIInv, LuceneTypeOK, Staged, OkMeansSettled
<1> QED BY <1>1, LuceneInvariance, PTL

-----------------------------------------------------------------------------
\* The FT.INFO wait.

\* What a server holds in each dialect.  Only KiviDB's HNSW index compacts, and
\* a KiviDB index is complete for as long as it is there.
Holdings ==
  /\ dialect \in AllDialects /\ override \in Nat
  /\ compacting \in BOOLEAN /\ builtAtOk \in BOOLEAN
  /\ compacting => dialect = "kividb_hnsw"
  /\ Synchronous => known = Expected /\ (server # "lost" => built = Expected)

\* An outage begins after the last answer.
Outage == outageSince # -1 => lastAnswer <= outageSince

WaitIInv == WaitTypeOK /\ Holdings /\ Outage /\ OkMeansBuilt /\ NoPrematureGiveUp

LEMMA WaitConstants ==
  /\ Expected \in Nat /\ Expected > 0 /\ Floor \in Nat /\ Window \in Nat /\ PollSleep \in Nat
  /\ PollSleep > 0 /\ RetrySleep \in Nat /\ RetrySleep > 0 /\ Lateness \in Nat
BY WaitAssumption

LEMMA WaitTypes ==
  ASSUME WaitTypeOK
  PROVE  /\ known \in Nat /\ known <= Expected /\ built \in Nat /\ built <= known
         /\ now \in Nat /\ wakeAt \in Nat /\ outageSince \in Int /\ outageSince >= -1 /\ outageSince <= now
         /\ lastAnswer \in Nat /\ lastAnswer <= now
BY WaitConstants DEF WaitTypeOK

LEMMA InitWait == WaitInit => WaitIInv
<1> SUFFICES ASSUME WaitInit PROVE WaitIInv OBVIOUS
<1>1. WaitTypeOK BY WaitConstants DEF WaitInit, WaitTypeOK
<1>2. Holdings BY WaitAssumption DEF WaitInit, Holdings, Synchronous
<1> QED BY <1>1, <1>2 DEF WaitInit, WaitIInv, Outage, OkMeansBuilt, NoPrematureGiveUp

LEMMA ServerKeeps == ASSUME WaitIInv, Server PROVE WaitIInv'
<1>1. /\ outcome = "waiting"
      /\ UNCHANGED <<dialect, override, now, wakeAt, outageSince, outcome, lastAnswer, builtAtOk>>
  BY DEF Server
<1>2. (Outage /\ OkMeansBuilt /\ NoPrematureGiveUp)'
  BY <1>1 DEF WaitIInv, Outage, OkMeansBuilt, NoPrematureGiveUp
<1>3. CASE LearnDocument
  BY <1>1, <1>2, <1>3, WaitTypes, WaitConstants
     DEF WaitIInv, LearnDocument, WaitTypeOK, Holdings, Synchronous
<1>4. CASE Build
  BY <1>1, <1>2, <1>4, WaitTypes, WaitConstants DEF WaitIInv, Build, WaitTypeOK, Holdings, Synchronous
<1>5. CASE Compacted
  BY <1>1, <1>2, <1>5 DEF WaitIInv, Compacted, WaitTypeOK, Holdings, Synchronous
<1>6. CASE GoDown
  BY <1>1, <1>2, <1>6 DEF WaitIInv, GoDown, WaitTypeOK, Holdings, Synchronous
<1>7. CASE ComeBack
  BY <1>1, <1>2, <1>7, WaitTypes DEF WaitIInv, ComeBack, WaitTypeOK, Holdings, Synchronous
<1> QED BY <1>3, <1>4, <1>5, <1>6, <1>7 DEF Server

\* A reply that says ready comes from a complete index, in every dialect.
LEMMA ReadyIsBuilt ==
  ASSUME WaitIInv, Answered, Ready
  PROVE  built = Expected /\ known = Expected /\ ~compacting
<1>1. CASE Synchronous
  <2>1. dialect = "kividb_flat" \/ ~compacting BY <1>1 DEF Ready, KividbReady
  <2> QED BY <1>1, <2>1 DEF WaitIInv, Holdings, Answered
<1>2. CASE ~Synchronous
  <2>1. FtInfoReady BY <1>2 DEF Ready
  <2>2. NumDocs >= Expected /\ dialect \in {"redis", "valkey", "dragonfly"} /\ NumDocs = known
    BY <1>2, <2>1, WaitConstants DEF FtInfoReady, NumDocs, WaitIInv, Holdings, AllDialects, Synchronous
  <2>3. built = known
    BY <2>1, <2>2 DEF FtInfoReady, PercentIndexedFull, State
  <2> QED BY <2>2, <2>3, WaitTypes, WaitConstants DEF WaitIInv, Holdings
<1> QED BY <1>1, <1>2

LEMMA AnswerKeeps ==
  ASSUME WaitIInv, PollAnswered, outcome = "waiting", now >= wakeAt,
         UNCHANGED <<dialect, override, known, built, compacting, server, now>>
  PROVE  WaitIInv'
<1>1. /\ outageSince' = -1 /\ lastAnswer' = now /\ UNCHANGED connected
      /\ builtAtOk' = (outcome' = "ok" => built = Expected /\ known = Expected /\ ~compacting)
  BY DEF PollAnswered, OnSuccess
<1>2. \/ outcome' \in {"error", "expired"} /\ wakeAt' = wakeAt
      \/ outcome' = "ok" /\ Ready /\ wakeAt' = wakeAt
      \/ outcome' = "waiting" /\ wakeAt' = now + PollSleep
  BY DEF PollAnswered, Finish
<1>3. outcome' = "ok" => builtAtOk'
  BY <1>1, <1>2, ReadyIsBuilt DEF PollAnswered
<1>4. WaitTypeOK' BY <1>1, <1>2, WaitTypes, WaitConstants DEF WaitIInv, WaitTypeOK
<1>5. Holdings' BY <1>1 DEF WaitIInv, Holdings, Synchronous
<1>6. Outage' /\ OkMeansBuilt' /\ NoPrematureGiveUp'
  BY <1>1, <1>2, <1>3 DEF Outage, OkMeansBuilt, NoPrematureGiveUp
<1> QED BY <1>4, <1>5, <1>6 DEF WaitIInv

LEMMA DroppedKeeps ==
  ASSUME WaitIInv, PollDropped \/ PollLost, outcome = "waiting", now >= wakeAt,
         UNCHANGED <<dialect, override, known, built, compacting, server, now>>
  PROVE  WaitIInv'
<1>1. Budget' = Budget BY DEF Budget
<1>2. UNCHANGED <<lastAnswer, builtAtOk>> BY DEF PollDropped, PollLost
<1>3. CASE OnTransient /\ connected' \in BOOLEAN
  <2>1. outageSince' = Since /\ Since \in Int /\ Since >= lastAnswer /\ Since <= now /\ Since >= 0
    BY <1>3, WaitTypes DEF OnTransient, Since, WaitIInv, Outage
  <2>2. CASE now - Since > Window \/ now >= Budget
    <3>1. outcome' = "unreachable" /\ wakeAt' = wakeAt BY <1>3, <2>2 DEF OnTransient, Finish
    <3>2. now - lastAnswer > Window \/ now >= Budget
      BY <2>1, <2>2, WaitTypes, WaitConstants DEF WaitIInv
    <3>3. WaitTypeOK' BY <1>2, <1>3, <2>1, <3>1, WaitTypes DEF WaitIInv, WaitTypeOK
    <3> QED BY <1>1, <1>2, <2>1, <3>1, <3>2, <3>3
            DEF WaitIInv, Holdings, Synchronous, Outage, OkMeansBuilt, NoPrematureGiveUp
  <2>3. CASE ~(now - Since > Window \/ now >= Budget)
    <3>1. outcome' = "waiting" /\ wakeAt' = now + RetrySleep BY <1>3, <2>3 DEF OnTransient
    <3>2. WaitTypeOK' BY <1>2, <1>3, <2>1, <3>1, WaitTypes, WaitConstants DEF WaitIInv, WaitTypeOK
    <3> QED BY <1>2, <2>1, <3>1, <3>2
            DEF WaitIInv, Holdings, Synchronous, Outage, OkMeansBuilt, NoPrematureGiveUp
  <2> QED BY <2>2, <2>3
<1>4. CASE outcome' = "error" /\ UNCHANGED <<wakeAt, outageSince, connected>>
  <2>1. WaitTypeOK' BY <1>2, <1>4 DEF WaitIInv, WaitTypeOK
  <2> QED BY <1>2, <1>4, <2>1 DEF WaitIInv, Holdings, Synchronous, Outage, OkMeansBuilt, NoPrematureGiveUp
<1> QED BY <1>3, <1>4 DEF PollDropped, PollLost, Finish

LEMMA TickKeeps == ASSUME WaitIInv, Tick PROVE WaitIInv'
<1>1. /\ outcome = "waiting" /\ now < wakeAt + Lateness /\ now' = now + 1
      /\ UNCHANGED <<dialect, override, known, built, compacting, server, connected, wakeAt, outageSince,
                     outcome, lastAnswer, builtAtOk>>
  BY DEF Tick, serverVars
<1>2. WaitTypeOK' BY <1>1, WaitTypes, WaitConstants DEF WaitIInv, WaitTypeOK
<1> QED BY <1>1, <1>2 DEF WaitIInv, Holdings, Synchronous, Outage, OkMeansBuilt, NoPrematureGiveUp

LEMMA WaitStep == ASSUME WaitIInv, [WaitNext]_waitVars PROVE WaitIInv'
<1>1. CASE Server BY <1>1, ServerKeeps
<1>2. CASE PollOnce BY <1>2, AnswerKeeps, DroppedKeeps DEF PollOnce
<1>3. CASE Tick BY <1>3, TickKeeps
<1>5. CASE PollHangs
  <2>1. outcome' = "hung" /\ UNCHANGED <<dialect, override, known, built, compacting, server, connected, now, wakeAt,
                                         outageSince, lastAnswer, builtAtOk>>
    BY <1>5 DEF PollHangs, Finish, serverVars
  <2>2. WaitTypeOK' BY <2>1 DEF WaitIInv, WaitTypeOK
  <2> QED BY <2>1, <2>2 DEF WaitIInv, Holdings, Synchronous, Outage, OkMeansBuilt, NoPrematureGiveUp
<1>4. CASE UNCHANGED waitVars
  <2>1. Budget' = Budget BY <1>4 DEF waitVars, Budget
  <2> QED BY <1>4, <2>1 DEF waitVars, serverVars, WaitIInv, WaitTypeOK, Holdings, Synchronous,
                                  Outage, OkMeansBuilt, NoPrematureGiveUp
<1> QED BY <1>1, <1>2, <1>3, <1>4, <1>5 DEF WaitNext, WaitOver

\* Through restarts, drops and late polls.
THEOREM WaitInvariance == WaitSpec => []WaitIInv
BY InitWait, WaitStep, PTL DEF WaitSpec

\* #361, for every corpus, budget and window: the wait returns Ok only over a
\* complete index.
THEOREM WaitedForAll == WaitSpec => []OkMeansBuilt
<1>1. WaitIInv => OkMeansBuilt BY DEF WaitIInv
<1> QED BY <1>1, WaitInvariance, PTL

\* A blip never ends a wait, whatever the window, the budget and the sleeps.
THEOREM BlipsAreRiddenOut == WaitSpec => []NoPrematureGiveUp
<1>1. WaitIInv => NoPrematureGiveUp BY DEF WaitIInv
<1> QED BY <1>1, WaitInvariance, PTL

-----------------------------------------------------------------------------
\* The requests of an engine, and --skip-upload.

Documents == Corpus \cup Stale \cup {"dummy"}

\* The steps ahead are well formed, and the server's documents are the ones
\* that the steps speak of.
Shaped ==
  /\ engine \in Engines /\ todo \in Seq(Steps)
  /\ "docs" \in DOMAIN db /\ db.docs \subseteq Documents
  /\ phase \in {"configure", "upload", "search", "delete", "over", "failed", "hung"}
  /\ restarted \in {"no", "afterOk", "afterFailure"}

\* Nobody uploads in a process that was started to search.
SecondProcess == restarted # "no" => phase \notin {"configure", "upload"}

\* While a search prepares itself nothing is written, and each fact that its
\* queries need is known or still to be found out.
Prepares ==
  phase = "search" =>
    /\ \A i \in DOMAIN todo : todo[i].op \in Lessons \cup {"ask", "count"} /\ todo[i].when = ""
    /\ \A f \in engine.uses :
         f \in knows \/ \E i \in DOMAIN todo : todo[i].op \in Lessons /\ f \in todo[i].names

ClientIInv == Shaped /\ SecondProcess /\ Prepares

LEMMA FollowingPhase ==
  /\ Following("configure") = "upload" /\ Following("upload") = "search"
  /\ Following("search") = "delete" /\ Following("delete") = "over"
<1>1. DOMAIN Phases = 1..5 BY DEF Phases
<1>2. ASSUME NEW p, NEW k \in 1..5, Phases[k] = p, \A j \in 1..5 : Phases[j] = p => j = k
      PROVE  Following(p) = Phases[k + 1]
  <2>1. (CHOOSE i \in DOMAIN Phases : Phases[i] = p) = k BY <1>1, <1>2
  <2> QED BY <2>1 DEF Following
<1>3. /\ Phases[1] = "configure" /\ Phases[2] = "upload" /\ Phases[3] = "search"
      /\ Phases[4] = "delete" /\ Phases[5] = "over"
  BY DEF Phases
<1>4. \A j \in 1..5 : j \in {1, 2, 3, 4, 5} OBVIOUS
<1>5. Following("configure") = Phases[2] BY <1>2, <1>3, <1>4
<1>6. Following("upload") = Phases[3] BY <1>2, <1>3, <1>4
<1>7. Following("search") = Phases[4] BY <1>2, <1>3, <1>4
<1>8. Following("delete") = Phases[5] BY <1>2, <1>3, <1>4
<1> QED BY <1>3, <1>5, <1>6, <1>7, <1>8

LEMMA EngineFacts ==
  ASSUME NEW e \in Engines
  PROVE  /\ e.configure \in Seq(Steps) /\ e.upload \in Seq(Steps) /\ e.search \in Seq(Steps) /\ e.delete \in Seq(Steps)
         /\ \A i \in DOMAIN e.search : e.search[i].op \in Lessons \cup {"ask"} /\ e.search[i].when = ""
         /\ \A f \in e.uses : \E i \in DOMAIN e.search : e.search[i].op \in Lessons /\ f \in e.search[i].names
BY LifecycleAssumption

LEMMA RowFacts ==
  ASSUME NEW e \in Engines
  PROVE  /\ ConfigureRow(e, e.configure) /\ UploadRow(e, e.upload) /\ DeleteRow(e.delete)
         /\ e.own \/ e.reused \/ e.name = "redis_shared" \/ \E i \in DOMAIN e.configure : Clears(e, e.configure[i])
         /\ \E i \in DOMAIN e.upload : e.upload[i].op = "load" /\ Certain(e.upload[i])
         /\ e.name \in Streaming \/ e.indexes = {} \/ \E i \in DOMAIN e.upload : Settles(e, e.upload[i])
         /\ \A n \in e.indexes : \/ e.name \in Streaming
                                 \/ \E i \in DOMAIN e.configure : Builds(e, e.configure[i], n)
                                 \/ \E i \in DOMAIN e.upload : Builds(e, e.upload[i], n)
         /\ e.keysOutlive => e.keyed
         /\ e.reused \/ \E i \in DOMAIN e.delete : Ends(e.delete[i]) \/ Drops(e.delete[i], e.uses)
         /\ \/ e.reused \/ e.name = "redis_shared"
            \/ \E i \in DOMAIN e.delete : Ends(e.delete[i]) \/ Takes(e, e.delete[i], e.uses)
BY RowsAssumption

LEMMA TailOfTodo ==
  ASSUME todo \in Seq(Steps), todo # <<>>
  PROVE  /\ Now \in Steps /\ 1 \in DOMAIN todo /\ Tail(todo) \in Seq(Steps)
         /\ \A i \in DOMAIN Tail(todo) : i + 1 \in DOMAIN todo /\ Tail(todo)[i] = todo[i + 1]
         /\ \A j \in DOMAIN todo : j = 1 \/ (j - 1 \in DOMAIN Tail(todo) /\ Tail(todo)[j - 1] = todo[j])
BY DEF Now

LEMMA InitClient == Init => ClientIInv
<1> SUFFICES ASSUME Init PROVE ClientIInv OBVIOUS
<1>1. engine \in Engines /\ todo = engine.configure /\ phase = "configure" /\ restarted = "no" BY DEF Init
<1>2. todo \in Seq(Steps) BY <1>1, EngineFacts
<1>3. PICK ds \in {{"a"}, {"a", "x"}, {"a", "b"}} : db \in {Empty} \cup Left(engine, ds) BY DEF Init
<1>4. ds \subseteq Documents BY DEF Documents, Corpus, Stale
<1> DEFINE coll == [Empty EXCEPT !.coll = TRUE, !.docs = ds, !.indexed = [n \in engine.indexes |-> ds]]
           keep == [Empty EXCEPT !.docs = ds]
<1>a. db \in {Empty, coll, keep} BY <1>3 DEF Left
<1>b. "docs" \in DOMAIN Empty /\ Empty.docs = {} BY DEF Empty
<1>c. "docs" \in DOMAIN coll /\ coll.docs = ds BY DEF Empty
<1>d. "docs" \in DOMAIN keep /\ keep.docs = ds BY DEF Empty
<1>5. "docs" \in DOMAIN db /\ db.docs \in {{}, ds} BY <1>a, <1>b, <1>c, <1>d
<1> QED BY <1>1, <1>2, <1>4, <1>5 DEF ClientIInv, Shaped, SecondProcess, Prepares

\* What a request makes of the server's documents.
LEMMA EffectShape ==
  ASSUME Shaped, NEW s \in Steps
  PROVE  "docs" \in DOMAIN Effect(s) /\ Effect(s).docs \subseteq Documents
<1> DEFINE D == Documents
<1>1. s.docs \subseteq D /\ db.docs \subseteq D /\ "docs" \in DOMAIN db BY DEF Steps, Documents, Shaped
<1>2. CASE s.op = "drop" BY <1>1, <1>2 DEF Effect, Empty
<1>3. CASE s.op = "dropKeys" BY <1>1, <1>3 DEF Effect
<1>4. CASE s.op = "create" BY <1>1, <1>4 DEF Effect
<1>5. CASE s.op = "index" BY <1>1, <1>5 DEF Effect
<1>6. CASE s.op \in {"load", "insert"} BY <1>1, <1>6 DEF Effect
<1>7. CASE s.op = "remove" BY <1>1, <1>7 DEF Effect
<1>8. CASE s.op \in {"hold", "release", "open"} BY <1>1, <1>8 DEF Effect
<1>9. CASE s.op \notin {"drop", "dropKeys", "create", "index", "load", "insert", "remove", "hold", "release", "open"}
  BY <1>1, <1>9 DEF Effect
<1> QED BY <1>2, <1>3, <1>4, <1>5, <1>6, <1>7, <1>8, <1>9

\* One step is done, and a lesson was learnt.
LEMMA ProceedKeeps ==
  ASSUME ClientIInv, todo # <<>>, Proceed, UNCHANGED <<engine, restarted>>,
         "docs" \in DOMAIN db', db'.docs \subseteq Documents,
         knows \subseteq knows', Now.op \in Lessons => Now.names \subseteq knows'
  PROVE  ClientIInv'
<1>1. todo' = Tail(todo) /\ phase' = phase BY DEF Proceed
<1>2. todo \in Seq(Steps) BY DEF ClientIInv, Shaped
<1>3. Shaped' BY <1>1, <1>2, TailOfTodo DEF ClientIInv, Shaped
<1>4. SecondProcess' BY <1>1 DEF ClientIInv, SecondProcess
<1>5. Prepares'
  <2> SUFFICES ASSUME phase = "search"
               PROVE  /\ \A i \in DOMAIN todo' : todo'[i].op \in Lessons \cup {"ask", "count"} /\ todo'[i].when = ""
                      /\ \A f \in engine.uses :
                           f \in knows' \/ \E i \in DOMAIN todo' : todo'[i].op \in Lessons /\ f \in todo'[i].names
    BY <1>1 DEF Prepares
  <2>1. \A i \in DOMAIN todo' : todo'[i].op \in Lessons \cup {"ask", "count"} /\ todo'[i].when = ""
    <3>1. \A i \in DOMAIN todo : todo[i].op \in Lessons \cup {"ask", "count"} /\ todo[i].when = ""
      BY DEF ClientIInv, Prepares
    <3>2. \A i \in DOMAIN todo' : i + 1 \in DOMAIN todo /\ todo'[i] = todo[i + 1] BY <1>1, <1>2, TailOfTodo
    <3> QED BY <3>1, <3>2
  <2>2. ASSUME NEW f \in engine.uses, f \notin knows'
        PROVE  \E i \in DOMAIN todo' : todo'[i].op \in Lessons /\ f \in todo'[i].names
    <3>1. PICK j \in DOMAIN todo : todo[j].op \in Lessons /\ f \in todo[j].names
      BY <2>2 DEF ClientIInv, Prepares
    <3>2. j # 1 BY <2>2, <3>1 DEF Now
    <3>3. j - 1 \in DOMAIN todo' /\ todo'[j - 1] = todo[j] BY <1>1, <1>2, <3>2, TailOfTodo
    <3> QED BY <3>1, <3>3
  <2> QED BY <2>1, <2>2
<1> QED BY <1>3, <1>4, <1>5 DEF ClientIInv

LEMMA FailKeeps ==
  ASSUME ClientIInv, Fail, UNCHANGED <<engine, restarted>>, "docs" \in DOMAIN db', db'.docs \subseteq Documents
  PROVE  ClientIInv'
<1>1. phase' = "failed" /\ todo' = <<>> BY DEF Fail
<1>2. Shaped' BY <1>1 DEF ClientIInv, Shaped
<1> QED BY <1>1, <1>2 DEF ClientIInv, SecondProcess, Prepares

\* Nothing but the server's indexes, or a count of polls, changes.
LEMMA WaitingKeeps ==
  ASSUME ClientIInv, UNCHANGED <<engine, phase, todo, knows, restarted>>, "docs" \in DOMAIN db', db'.docs = db.docs
  PROVE  ClientIInv'
BY DEF ClientIInv, Shaped, SecondProcess, Prepares

\* A step of a search only asks, learns or counts.
LEMMA SearchStep ==
  ASSUME ClientIInv, todo # <<>>, phase = "search"
  PROVE  Now.op \in Lessons \cup {"ask", "count"} /\ Now.when = ""
BY TailOfTodo DEF ClientIInv, Shaped, Prepares, Now

LEMMA RequestKeeps == ASSUME ClientIInv, NEW fate \in Fates, Request(fate) PROVE ClientIInv'
<1>1. todo # <<>> /\ Now.op \in Requests /\ UNCHANGED <<engine, knows, restarted>> BY DEF Request, At
<1>2. Now \in Steps BY <1>1, TailOfTodo DEF ClientIInv, Shaped
<1>3. "docs" \in DOMAIN db' /\ db'.docs \subseteq Documents
  <2>1. CASE db' = Effect(Now) BY <1>2, <2>1, EffectShape DEF ClientIInv
  <2>2. CASE db' = db BY <2>2 DEF ClientIInv, Shaped
  <2>3. CASE \E kept \in SUBSET Corpus : db' = [Effect(Now) EXCEPT !.docs = db.docs \cup kept]
    <3>1. PICK kept \in SUBSET Corpus : db' = [Effect(Now) EXCEPT !.docs = db.docs \cup kept] BY <2>3
    <3>2. db.docs \cup kept \subseteq Documents BY DEF ClientIInv, Shaped, Documents
    <3> QED BY <1>2, <3>1, <3>2, EffectShape DEF ClientIInv
  <2> QED BY <2>1, <2>2, <2>3 DEF Request
<1>4. Now.op \notin Lessons BY <1>1 DEF Requests, Lessons
<1>6. CASE Proceed BY <1>1, <1>3, <1>4, <1>6, ProceedKeeps
<1>7. CASE Fail BY <1>1, <1>3, <1>7, FailKeeps
<1> QED BY <1>6, <1>7 DEF Request

LEMMA LearnKeeps ==
  ASSUME ClientIInv, LearnFacts \/ Skip \/ (\E fate \in Fates : LearnFromServer(fate))
  PROVE  ClientIInv'
<1>1. todo # <<>> /\ UNCHANGED <<engine, db, restarted>> BY DEF LearnFacts, LearnFromServer, Skip, At
<1>2. "docs" \in DOMAIN db' /\ db'.docs \subseteq Documents /\ db'.docs = db.docs
  BY <1>1 DEF ClientIInv, Shaped
<1>3. CASE LearnFacts \/ \E fate \in Fates : LearnFromServer(fate)
  <2>1. Now.op \in Lessons BY <1>3 DEF LearnFacts, LearnFromServer, At, Lessons
  <2>2. CASE Proceed /\ knows' = knows \cup Now.names BY <1>1, <1>2, <2>1, <2>2, ProceedKeeps
  <2>3. CASE Fail BY <1>1, <1>2, <2>3, FailKeeps
  <2> QED BY <1>3, <2>2, <2>3 DEF LearnFacts, LearnFromServer
<1>4. CASE Skip
  <2>1. phase # "search" BY <1>1, <1>4, SearchStep DEF Skip
  <2>2. todo' = Tail(todo) /\ phase' = phase /\ knows' = knows BY <1>4 DEF Skip, Proceed
  <2>3. Shaped' BY <1>1, <1>2, <2>2, TailOfTodo DEF ClientIInv, Shaped
  <2> QED BY <1>1, <2>1, <2>2, <2>3 DEF ClientIInv, SecondProcess, Prepares
<1> QED BY <1>3, <1>4

\* The shared corpus is looked at during an upload only.
LEMMA ReuseKeeps == ASSUME ClientIInv, NEW fate \in Fates, Reuse(fate) PROVE ClientIInv'
<1>1. todo # <<>> /\ Now.op = "reuse" /\ UNCHANGED <<engine, db, knows, restarted>> BY DEF Reuse, At
<1>2. phase # "search" BY <1>1, SearchStep DEF Lessons
<1>3. "docs" \in DOMAIN db' /\ db'.docs \subseteq Documents BY <1>1 DEF ClientIInv, Shaped
<1>4. CASE Fail BY <1>1, <1>3, <1>4, FailKeeps
<1>5. CASE phase' = phase /\ todo' \in {Tail(todo), SubSeq(todo, 3, Len(todo))}
  <2>1. Tail(todo) \in Seq(Steps) BY <1>1, TailOfTodo DEF ClientIInv, Shaped
  <2>2. SubSeq(todo, 3, Len(todo)) \in Seq(Steps) BY DEF ClientIInv, Shaped
  <2>3. Shaped' BY <1>1, <1>5, <2>1, <2>2 DEF ClientIInv, Shaped
  <2> QED BY <1>1, <1>2, <1>5, <2>3 DEF ClientIInv, SecondProcess, Prepares
<1> QED BY <1>4, <1>5 DEF Reuse, Proceed

LEMMA PollKeeps ==
  ASSUME ClientIInv, NEW answered \in BOOLEAN, NEW lull \in BOOLEAN, NEW hidden, Poll(answered, lull, hidden) PROVE ClientIInv'
<1>1. todo # <<>> /\ Now.op = "await" /\ UNCHANGED <<engine, knows, restarted>> BY DEF Poll, At
<1>2. phase # "search" BY <1>1, SearchStep DEF Lessons
<1>3. "docs" \in DOMAIN db' /\ db'.docs \subseteq Documents /\ db'.docs = db.docs BY DEF Poll, ClientIInv, Shaped
<1>4. CASE Proceed
  <2>1. Now.op \notin Lessons /\ knows' = knows BY <1>1 DEF Lessons
  <2> QED BY <1>1, <1>2, <1>3, <1>4, <2>1, ProceedKeeps
<1>5. CASE Fail BY <1>1, <1>3, <1>5, FailKeeps
<1>6. CASE UNCHANGED <<phase, todo>> BY <1>1, <1>3, <1>6, WaitingKeeps
<1> QED BY <1>4, <1>5, <1>6 DEF Poll, Deadline

LEMMA CountKeeps == ASSUME ClientIInv, NEW fate \in Fates, ReusePrecondition(fate) PROVE ClientIInv'
<1>1. todo # <<>> /\ Now.op = "count" /\ UNCHANGED <<engine, db, knows, restarted>> BY DEF ReusePrecondition, At
<1>2. "docs" \in DOMAIN db' /\ db'.docs \subseteq Documents BY <1>1 DEF ClientIInv, Shaped
<1>3. CASE Proceed
  <2>1. Now.op \notin Lessons BY <1>1 DEF Lessons
  <2> QED BY <1>1, <1>2, <1>3, <2>1, ProceedKeeps
<1>4. CASE Fail BY <1>1, <1>2, <1>4, FailKeeps
<1> QED BY <1>3, <1>4 DEF ReusePrecondition

LEMMA PhaseKeeps == ASSUME ClientIInv, NextPhase PROVE ClientIInv'
<1>1. /\ phase \notin {"over", "failed", "hung"} /\ phase' = Following(phase) /\ todo' = StepsOf(phase')
      /\ UNCHANGED <<engine, db, knows, restarted>>
  BY DEF NextPhase, Running
<1>2. phase' \in {"upload", "search", "delete", "over"} /\ (phase' \in {"upload", "search"} => restarted = "no")
  BY <1>1, FollowingPhase DEF ClientIInv, Shaped, SecondProcess
<1>3. CASE phase' = "search"
  <2>1. todo' = engine.search BY <1>1, <1>3 DEF StepsOf
  <2>2. todo' \in Seq(Steps) BY <2>1, EngineFacts DEF ClientIInv, Shaped
  <2>3. Shaped' BY <1>1, <1>3, <2>2 DEF ClientIInv, Shaped
  <2>4. Prepares' BY <1>1, <2>1, EngineFacts DEF ClientIInv, Shaped, Prepares
  <2> QED BY <1>1, <1>2, <1>3, <2>3, <2>4 DEF ClientIInv, SecondProcess
<1>4. CASE phase' # "search"
  <2>1. todo' \in Seq(Steps)
    <3>1. engine.upload \in Seq(Steps) /\ engine.delete \in Seq(Steps) BY EngineFacts DEF ClientIInv, Shaped
    <3>2. <<>> \in Seq(Steps) OBVIOUS
    <3>3. CASE phase' = "upload" BY <1>1, <3>1, <3>3 DEF StepsOf
    <3>4. CASE phase' = "delete" BY <1>1, <3>1, <3>4 DEF StepsOf
    <3>5. CASE phase' = "over" BY <1>1, <3>2, <3>5 DEF StepsOf
    <3> QED BY <1>2, <1>4, <3>3, <3>4, <3>5
  <2>2. Shaped' BY <1>1, <1>2, <2>1 DEF ClientIInv, Shaped
  <2> QED BY <1>1, <1>2, <1>4, <2>2 DEF ClientIInv, SecondProcess, Prepares
<1> QED BY <1>3, <1>4

LEMMA RestartKeeps == ASSUME ClientIInv, Restart PROVE ClientIInv'
<1> DEFINE steps == <<CorpusRowCount>> \o engine.search
<1>1. /\ phase' = "search" /\ todo' = steps /\ restarted' \in {"afterOk", "afterFailure"}
      /\ UNCHANGED <<engine, db>>
  BY DEF Restart
<1>2. /\ engine.search \in Seq(Steps)
      /\ \A i \in DOMAIN engine.search : engine.search[i].op \in Lessons \cup {"ask"} /\ engine.search[i].when = ""
      /\ \A f \in engine.uses :
           \E i \in DOMAIN engine.search : engine.search[i].op \in Lessons /\ f \in engine.search[i].names
  BY EngineFacts DEF ClientIInv, Shaped
<1>3. CorpusRowCount \in Steps /\ CorpusRowCount.op = "count" /\ CorpusRowCount.when = ""
  <2>1. CorpusRowCount = [op |-> "count", names |-> {}, docs |-> {}, tolerates |-> {}, exists |-> "conflict",
                          when |-> "", reads |-> "", confirm |-> 1, errors |-> "ignored", giveUp |-> "err"]
    BY DEF CorpusRowCount, Step
  <2>2. 1 \in Nat OBVIOUS
  <2>3. {} \in SUBSET STRING /\ {} \in SUBSET (Corpus \cup Stale \cup {"dummy"}) /\ {} \in SUBSET Whatever OBVIOUS
  <2> QED BY <2>1, <2>2, <2>3 DEF Steps
<1>4. /\ steps \in Seq(Steps) /\ 1 \in DOMAIN steps /\ steps[1] = CorpusRowCount
      /\ \A i \in DOMAIN steps : i = 1 \/ (i - 1 \in DOMAIN engine.search /\ steps[i] = engine.search[i - 1])
      /\ \A i \in DOMAIN engine.search : i + 1 \in DOMAIN steps /\ steps[i + 1] = engine.search[i]
  <2> DEFINE c == CorpusRowCount
             q == engine.search
  <2>1. c \in Steps /\ q \in Seq(Steps) BY <1>2, <1>3
  <2>2. <<c>> \in Seq(Steps) /\ Len(<<c>>) = 1 /\ <<c>>[1] = c BY <2>1
  <2> HIDE DEF c, q
  <2>3. /\ <<c>> \o q \in Seq(Steps) /\ Len(<<c>> \o q) = 1 + Len(q) /\ (<<c>> \o q)[1] = c
        /\ \A i \in 1..Len(q) : (<<c>> \o q)[i + 1] = q[i]
    BY <2>1, <2>2
  <2>4. Len(q) \in Nat /\ DOMAIN q = 1..Len(q) /\ DOMAIN (<<c>> \o q) = 1..(1 + Len(q)) BY <2>1, <2>3
  <2>5. \A i \in 1..(1 + Len(q)) : i = 1 \/ (i - 1 \in 1..Len(q) /\ (i - 1) + 1 = i) BY <2>4
  <2>6. \A i \in 1..(1 + Len(q)) : i = 1 \/ (i - 1 \in 1..Len(q) /\ (<<c>> \o q)[i] = q[i - 1]) BY <2>3, <2>5
  <2> QED BY <2>3, <2>4, <2>6 DEF c, q
<1>5. Shaped' BY <1>1, <1>4 DEF ClientIInv, Shaped
<1> HIDE DEF steps
<1>6. \A i \in DOMAIN steps : steps[i].op \in Lessons \cup {"ask", "count"} /\ steps[i].when = ""
  <2> SUFFICES ASSUME NEW i \in DOMAIN steps
               PROVE  steps[i].op \in Lessons \cup {"ask", "count"} /\ steps[i].when = ""
    OBVIOUS
  <2>1. CASE i = 1
    <3>1. steps[i] = CorpusRowCount BY <1>4, <2>1
    <3> QED BY <1>3, <3>1
  <2>2. CASE i # 1
    <3>1. i - 1 \in DOMAIN engine.search /\ steps[i] = engine.search[i - 1] BY <1>4, <2>2
    <3>2. engine.search[i - 1].op \in Lessons \cup {"ask"} /\ engine.search[i - 1].when = "" BY <1>2, <3>1
    <3> QED BY <3>1, <3>2
  <2> QED BY <2>1, <2>2
<1>7. \A f \in engine.uses : \E i \in DOMAIN steps : steps[i].op \in Lessons /\ f \in steps[i].names
  BY <1>2, <1>4
<1> QED BY <1>1, <1>5, <1>6, <1>7 DEF ClientIInv, SecondProcess, Prepares

LEMMA ClientStep == ASSUME ClientIInv, [Next]_vars PROVE ClientIInv'
<1>1. CASE \E fate \in Fates : Request(fate) BY <1>1, RequestKeeps
<1>2. CASE LearnFacts \/ Skip \/ \E fate \in Fates : LearnFromServer(fate) BY <1>2, LearnKeeps
<1>3. CASE \E fate \in Fates : Reuse(fate) BY <1>3, ReuseKeeps
<1>4. CASE \E fate \in Fates : ReusePrecondition(fate) BY <1>4, CountKeeps
<1>5. CASE \E answered, lull \in BOOLEAN, hidden \in SUBSET engine.indexes : Poll(answered, lull, hidden)
  BY <1>5, PollKeeps
<1>6. CASE NextPhase BY <1>6, PhaseKeeps
<1>7. CASE Restart BY <1>7, RestartKeeps
<1>8. CASE Work \/ Opened
  <2>1. UNCHANGED <<engine, phase, todo, knows, restarted>> BY <1>8 DEF Work, Opened
  <2>2. "docs" \in DOMAIN db' /\ db'.docs = db.docs BY <1>8 DEF Work, Opened, ClientIInv, Shaped
  <2> QED BY <2>1, <2>2, WaitingKeeps
<1>9. CASE UNCHANGED vars
  BY <1>9 DEF vars, ClientIInv, Shaped, SecondProcess, Prepares
<1>10. CASE Hang
  <2>1. phase' = "hung" /\ UNCHANGED <<engine, db, todo, restarted>> BY <1>10 DEF Hang
  <2>2. Shaped' BY <2>1 DEF ClientIInv, Shaped
  <2> QED BY <2>1, <2>2 DEF ClientIInv, SecondProcess, Prepares
<1> QED BY <1>1, <1>2, <1>3, <1>4, <1>5, <1>6, <1>7, <1>8, <1>9, <1>10 DEF Next, Client, Done

\* Over every engine whose search() finds out what it uses, every deadline and
\* every fate of every request, in both processes.
THEOREM ClientInvariance == Spec => []ClientIInv
BY InitClient, ClientStep, PTL DEF Spec

-----------------------------------------------------------------------------
\* Whose documents a search runs over, and over which indexes.

DbFields == {"coll", "docs", "indexed", "held", "opening", "open", "lulled"}

\* An index is part of a collection and knows documents that are there; where
\* documents are no keys of their own, the collection has all there is.
Housed ==
  /\ DOMAIN db = DbFields
  /\ DOMAIN db.indexed \subseteq engine.indexes
  /\ \A n \in DOMAIN db.indexed : db.indexed[n] \subseteq db.docs
  /\ DOMAIN db.indexed # {} => db.coll
  /\ ~engine.keyed => (db.coll \/ db.docs = {}) /\ (db.open => db.coll /\ "vector" \in DOMAIN db.indexed)

\* The steps left of a phase keep to what RowsAssumption says of all of them.
Ahead ==
  /\ phase = "configure" => ConfigureRow(engine, todo)
  /\ phase = "upload" => UploadRow(engine, todo)
  /\ phase = "delete" => DeleteRow(todo)
  /\ phase = "over" => todo = <<>>

Uploading == restarted = "no" /\ phase \in {"configure", "upload", "search"}

\* The documents of another dataset are from an earlier run, and a document that
\* configure() wrote for an index it still has to take away.
Owned ==
  Uploading =>
    /\ foreign \subseteq Stale /\ db.docs \cap Stale \subseteq foreign
    /\ "dummy" \in db.docs => phase = "configure" /\ \E i \in DOMAIN todo : RemovesDummy(todo[i])

\* The documents of an earlier run are gone, were spared, or a step to come
\* clears them.
Renewed ==
  Uploading =>
    \/ db.docs \cap Stale \subseteq Spared
    \/ phase = "configure" /\ \E i \in DOMAIN todo : Clears(engine, todo[i])

\* Others' keys under a shared prefix may stand in for the corpus.
StandIn == engine.name = "redis_shared" /\ foreign # {}

\* The corpus is there, or still to be loaded.
Uploaded ==
  (Uploading /\ phase # "configure") =>
    \/ Corpus \subseteq db.docs \/ StandIn
    \/ phase = "upload" /\ \E i \in DOMAIN todo : todo[i].op = "load" /\ Certain(todo[i])

Awaited == restarted # "afterFailure" /\ engine.name \notin Streaming
AllIndexed == \A n \in DOMAIN db.indexed : db.indexed[n] = db.docs \/ n \in unseen

\* Each index of the engine is there, or a step to come builds it.
Built ==
  (Awaited /\ phase \in {"configure", "upload", "search"}) =>
    \A n \in engine.indexes :
      \/ n \in DOMAIN db.indexed
      \/ phase \in {"configure", "upload"} /\ \E i \in DOMAIN todo : Builds(engine, todo[i], n)
      \/ phase = "configure" /\ \E i \in DOMAIN engine.upload : Builds(engine, engine.upload[i], n)

\* The indexes have every document, or a wait to come sees to it.
Covered ==
  (Awaited /\ phase \in {"upload", "search"}) =>
    \/ AllIndexed
    \/ phase = "upload" /\ \E i \in DOMAIN todo : Settles(engine, todo[i])

\* A collection seen idle is idle, unless the last poll fell into a lull.
Greens ==
  greens # 0 =>
    /\ todo # <<>> /\ Now.op = "await"
    /\ Now.reads = "idle" => db.lulled \/ AllIndexed

\* A deleted engine is gone but for what a tolerated failure left, or a step to
\* come refuses it, drops it and takes its documents away.
Gone ==
  (phase \in {"delete", "over"} /\ ~engine.reused) =>
    /\ \/ db.coll => "collection" \in left
       \/ \E i \in DOMAIN todo : Ends(todo[i]) \/ Drops(todo[i], knows)
    /\ \/ db.docs \subseteq left \/ engine.name = "redis_shared"
       \/ \E i \in DOMAIN todo : Ends(todo[i]) \/ Takes(engine, todo[i], knows)

LifeIInv == Housed /\ Ahead /\ Owned /\ Renewed /\ Uploaded /\ Built /\ Covered /\ Greens /\ Gone

-----------------------------------------------------------------------------
\* p is what is left of q after k steps.
Suffix(p, q, k) ==
  /\ \A i \in DOMAIN p : i \in Nat /\ i + k \in DOMAIN q /\ p[i] = q[i + k]
  /\ \A j \in DOMAIN q : j \in Nat /\ (j > k => j - k \in DOMAIN p /\ p[j - k] = q[j])

LEMMA TailSuffix ==
  ASSUME NEW q \in Seq(Steps), q # <<>> PROVE Suffix(Tail(q), q, 1)
<1>1. Len(q) \in Nat /\ DOMAIN q = 1..Len(q) /\ DOMAIN Tail(q) = 1..(Len(q) - 1) /\ Len(q) > 0 OBVIOUS
<1>2. \A i \in 1..(Len(q) - 1) : Tail(q)[i] = q[i + 1] OBVIOUS
<1>3. \A j \in 1..Len(q) : j > 1 => j - 1 \in 1..(Len(q) - 1) /\ (j - 1) + 1 = j BY <1>1
<1>4. \A j \in 1..Len(q) : j > 1 => Tail(q)[j - 1] = q[j] BY <1>2, <1>3
<1> QED BY <1>1, <1>2, <1>3, <1>4 DEF Suffix

LEMMA JumpSuffix ==
  ASSUME NEW q \in Seq(Steps), 2 \in DOMAIN q PROVE Suffix(SubSeq(q, 3, Len(q)), q, 2)
<1> DEFINE p == SubSeq(q, 3, Len(q))
<1>1. Len(q) \in Nat /\ DOMAIN q = 1..Len(q) /\ Len(q) >= 2 OBVIOUS
<1>2. Len(p) = Len(q) - 2 /\ DOMAIN p = 1..(Len(q) - 2) /\ \A i \in 1..(Len(q) - 2) : p[i] = q[3 + i - 1] BY <1>1
<1> HIDE DEF p
<1>3. \A i \in 1..(Len(q) - 2) : 3 + i - 1 = i + 2 /\ i + 2 \in 1..Len(q) BY <1>1
<1>4. \A i \in 1..(Len(q) - 2) : p[i] = q[i + 2] BY <1>2, <1>3
<1>5. \A j \in 1..Len(q) : j > 2 => j - 2 \in 1..(Len(q) - 2) /\ (j - 2) + 2 = j BY <1>1
<1>6. \A j \in 1..Len(q) : j > 2 => p[j - 2] = q[j] BY <1>4, <1>5
<1>7. Suffix(p, q, 2) BY <1>1, <1>2, <1>3, <1>4, <1>5, <1>6 DEF Suffix
<1> QED BY <1>7 DEF p

\* What holds of the steps of a row holds of what is left of them.
LEMMA SuffixRows ==
  ASSUME NEW p, NEW q, NEW k \in Nat, Suffix(p, q, k), NEW e
  PROVE  /\ ConfigureRow(e, q) => ConfigureRow(e, p)
         /\ UploadRow(e, q) => UploadRow(e, p)
         /\ DeleteRow(q) => DeleteRow(p)
<1>1. \A i \in DOMAIN p : i \in Nat /\ i + k \in Nat /\ i + k \in DOMAIN q /\ p[i] = q[i + k] BY DEF Suffix
<1>2. \A i \in DOMAIN p : \A j \in DOMAIN q : j > i + k =>
        /\ j - k \in DOMAIN p /\ p[j - k] = q[j] /\ j - k > i
  <2> SUFFICES ASSUME NEW i \in DOMAIN p, NEW j \in DOMAIN q, j > i + k
               PROVE  j - k \in DOMAIN p /\ p[j - k] = q[j] /\ j - k > i
    OBVIOUS
  <2>1. i \in Nat /\ j \in Nat BY DEF Suffix
  <2>2. j > k /\ j - k > i BY <2>1
  <2> QED BY <2>2 DEF Suffix
<1>3. ASSUME ConfigureRow(e, q) PROVE ConfigureRow(e, p)
  <2> SUFFICES ASSUME NEW i \in DOMAIN p
               PROVE  /\ p[i].op \notin {"load", "reuse", "count"}
                      /\ p[i].op \in {"create", "index"} => p[i].names \subseteq e.indexes
                      /\ p[i].op \in {"insert", "remove"} => p[i].docs \subseteq {"dummy"}
                      /\ p[i].op = "insert" => \E j \in DOMAIN p : j > i /\ RemovesDummy(p[j])
                      /\ p[i].op = "drop" =>
                           \A n \in e.indexes : \/ \E j \in DOMAIN p : j > i /\ Builds(e, p[j], n)
                                                \/ \E j \in DOMAIN e.upload : Builds(e, e.upload[j], n)
    BY DEF ConfigureRow
  <2> DEFINE s == q[i + k]
  <2>1. p[i] = s /\ i + k \in DOMAIN q BY <1>1
  <2>2. /\ s.op \notin {"load", "reuse", "count"}
        /\ s.op \in {"create", "index"} => s.names \subseteq e.indexes
        /\ s.op \in {"insert", "remove"} => s.docs \subseteq {"dummy"}
        /\ s.op = "insert" => \E j \in DOMAIN q : j > i + k /\ RemovesDummy(q[j])
        /\ s.op = "drop" =>
             \A n \in e.indexes : \/ \E j \in DOMAIN q : j > i + k /\ Builds(e, q[j], n)
                                  \/ \E j \in DOMAIN e.upload : Builds(e, e.upload[j], n)
    BY <1>3, <2>1 DEF ConfigureRow
  <2> HIDE DEF s
  <2>3. ASSUME s.op = "insert" PROVE \E j \in DOMAIN p : j > i /\ RemovesDummy(p[j])
    <3>1. PICK j \in DOMAIN q : j > i + k /\ RemovesDummy(q[j]) BY <2>2, <2>3
    <3>2. j - k \in DOMAIN p /\ p[j - k] = q[j] /\ j - k > i BY <1>2, <3>1
    <3> QED BY <3>1, <3>2
  <2>4. ASSUME s.op = "drop", NEW n \in e.indexes, ~\E j \in DOMAIN e.upload : Builds(e, e.upload[j], n)
        PROVE  \E j \in DOMAIN p : j > i /\ Builds(e, p[j], n)
    <3>1. PICK j \in DOMAIN q : j > i + k /\ Builds(e, q[j], n) BY <2>2, <2>4
    <3>2. j - k \in DOMAIN p /\ p[j - k] = q[j] /\ j - k > i BY <1>2, <3>1
    <3> QED BY <3>1, <3>2
  <2> QED BY <2>1, <2>2, <2>3, <2>4
<1>4. ASSUME UploadRow(e, q) PROVE UploadRow(e, p)
  <2> SUFFICES ASSUME NEW i \in DOMAIN p
               PROVE  /\ p[i].op \notin {"drop", "dropKeys", "insert", "remove", "count"}
                      /\ p[i].op = "load" => p[i].docs = Corpus
                      /\ p[i].op \in {"create", "index"} => p[i].names \subseteq e.indexes
                      /\ p[i].op \in {"load", "create", "index"} =>
                           e.indexes = {} \/ e.name \in Streaming \/ \E j \in DOMAIN p : j > i /\ Settles(e, p[j])
                      /\ p[i].op = "reuse" => e.name = "redis_shared" /\ i + 1 \in DOMAIN p /\ p[i + 1].op = "load"
    BY DEF UploadRow
  <2> DEFINE s == q[i + k]
  <2>1. p[i] = s /\ i + k \in DOMAIN q /\ i \in Nat BY <1>1
  <2>2. /\ s.op \notin {"drop", "dropKeys", "insert", "remove", "count"}
        /\ s.op = "load" => s.docs = Corpus
        /\ s.op \in {"create", "index"} => s.names \subseteq e.indexes
        /\ s.op \in {"load", "create", "index"} =>
             e.indexes = {} \/ e.name \in Streaming \/ \E j \in DOMAIN q : j > i + k /\ Settles(e, q[j])
        /\ s.op = "reuse" => e.name = "redis_shared" /\ (i + k) + 1 \in DOMAIN q /\ q[(i + k) + 1].op = "load"
    BY <1>4, <2>1 DEF UploadRow
  <2> HIDE DEF s
  <2>3. ASSUME s.op \in {"load", "create", "index"}, e.indexes # {}, e.name \notin Streaming
        PROVE  \E j \in DOMAIN p : j > i /\ Settles(e, p[j])
    <3>1. PICK j \in DOMAIN q : j > i + k /\ Settles(e, q[j]) BY <2>2, <2>3
    <3>2. j - k \in DOMAIN p /\ p[j - k] = q[j] /\ j - k > i BY <1>2, <3>1
    <3> QED BY <3>1, <3>2
  <2>4. ASSUME s.op = "reuse" PROVE i + 1 \in DOMAIN p /\ p[i + 1].op = "load"
    <3>1. (i + k) + 1 \in DOMAIN q /\ q[(i + k) + 1].op = "load" BY <2>2, <2>4
    <3>2. (i + k) + 1 > i + k /\ ((i + k) + 1) - k = i + 1 BY <2>1
    <3>3. i + 1 \in DOMAIN p /\ p[i + 1] = q[(i + k) + 1] BY <1>2, <3>1, <3>2
    <3> QED BY <3>1, <3>3
  <2> QED BY <2>1, <2>2, <2>3, <2>4
<1>5. ASSUME DeleteRow(q) PROVE DeleteRow(p)
  BY <1>1, <1>5 DEF DeleteRow
<1> QED BY <1>3, <1>4, <1>5

-----------------------------------------------------------------------------
\* What a step leaves behind it when it is over, and what it may not undo.
Delivers ==
  /\ Uploading => db'.docs \cap Stale \subseteq db.docs
  /\ (Uploading /\ "dummy" \in db'.docs) => Now.op = "insert" \/ ("dummy" \in db.docs /\ ~RemovesDummy(Now))
  /\ (phase = "configure" /\ Clears(engine, Now)) => db'.docs \cap Stale \subseteq Spared'
  /\ phase \in {"upload", "search"} => db.docs \subseteq db'.docs
  /\ (phase = "upload" /\ Now.op = "load" /\ Certain(Now)) => Corpus \subseteq db'.docs
  /\ Now.op = "drop" \/ DOMAIN db.indexed \subseteq DOMAIN db'.indexed
  /\ \A n : Builds(engine, Now, n) => n \in DOMAIN db'.indexed
  /\ phase \in {"upload", "search"} /\ AllIndexed => AllIndexed' \/ Now.op \in {"load", "create", "index"}
  /\ phase = "upload" /\ Awaited /\ Settles(engine, Now) => AllIndexed'
  /\ phase = "delete" =>
       /\ (~db.coll => ~db'.coll) /\ db'.docs \subseteq db.docs
       /\ ~Ends(Now)
       /\ Drops(Now, knows) => (db'.coll => "collection" \in left')
       /\ Takes(engine, Now, knows) => db'.docs \subseteq left'

\* A step of a phase that is over.
Passed ==
  /\ todo # <<>> /\ todo' = Tail(todo) /\ phase' = phase /\ greens' = 0
  /\ UNCHANGED <<engine, foreign, restarted>>
  /\ knows \subseteq knows' /\ left \cap Remains(db') \subseteq left'

LEMMA StepOfRow ==
  ASSUME ClientIInv, LifeIInv, todo # <<>>
  PROVE  /\ Now \in Steps /\ Now = todo[1] /\ 1 \in DOMAIN todo
         /\ phase = "configure" =>
              /\ Now.op \notin {"load", "reuse", "count"}
              /\ Now.op \in {"create", "index"} => Now.names \subseteq engine.indexes
              /\ Now.op \in {"insert", "remove"} => Now.docs \subseteq {"dummy"}
              /\ Now.op = "insert" => \E j \in DOMAIN todo : j > 1 /\ RemovesDummy(todo[j])
              /\ Now.op = "drop" =>
                   \A n \in engine.indexes : \/ \E j \in DOMAIN todo : j > 1 /\ Builds(engine, todo[j], n)
                                             \/ \E j \in DOMAIN engine.upload : Builds(engine, engine.upload[j], n)
         /\ phase = "upload" =>
              /\ Now.op \notin {"drop", "dropKeys", "insert", "remove", "count"}
              /\ Now.op = "load" => Now.docs = Corpus
              /\ Now.op \in {"create", "index"} => Now.names \subseteq engine.indexes
              /\ Now.op \in {"load", "create", "index"} =>
                   \/ engine.indexes = {} \/ engine.name \in Streaming
                   \/ \E j \in DOMAIN todo : j > 1 /\ Settles(engine, todo[j])
              /\ Now.op = "reuse" => engine.name = "redis_shared" /\ 2 \in DOMAIN todo /\ todo[2].op = "load"
         /\ phase = "search" => Now.op \in Lessons \cup {"ask", "count"} /\ Now.when = ""
         /\ phase = "delete" => Now.op \notin {"create", "index", "insert", "load", "reuse", "count"}
         /\ phase # "over"
<1>1. Now \in Steps /\ Now = todo[1] /\ 1 \in DOMAIN todo BY TailOfTodo DEF ClientIInv, Shaped, Now
<1>2. ASSUME phase = "configure"
      PROVE  /\ Now.op \notin {"load", "reuse", "count"}
             /\ Now.op \in {"create", "index"} => Now.names \subseteq engine.indexes
             /\ Now.op \in {"insert", "remove"} => Now.docs \subseteq {"dummy"}
             /\ Now.op = "insert" => \E j \in DOMAIN todo : j > 1 /\ RemovesDummy(todo[j])
             /\ Now.op = "drop" =>
                  \A n \in engine.indexes : \/ \E j \in DOMAIN todo : j > 1 /\ Builds(engine, todo[j], n)
                                            \/ \E j \in DOMAIN engine.upload : Builds(engine, engine.upload[j], n)
  BY <1>1, <1>2 DEF LifeIInv, Ahead, ConfigureRow
<1>3. ASSUME phase = "upload"
      PROVE  /\ Now.op \notin {"drop", "dropKeys", "insert", "remove", "count"}
             /\ Now.op = "load" => Now.docs = Corpus
             /\ Now.op \in {"create", "index"} => Now.names \subseteq engine.indexes
             /\ Now.op \in {"load", "create", "index"} =>
                  \/ engine.indexes = {} \/ engine.name \in Streaming
                  \/ \E j \in DOMAIN todo : j > 1 /\ Settles(engine, todo[j])
             /\ Now.op = "reuse" => engine.name = "redis_shared" /\ 2 \in DOMAIN todo /\ todo[2].op = "load"
  <2>1. 1 + 1 = 2 OBVIOUS
  <2> QED BY <1>1, <1>3, <2>1 DEF LifeIInv, Ahead, UploadRow
<1>4. phase = "delete" => Now.op \notin {"create", "index", "insert", "load", "reuse", "count"}
  BY <1>1 DEF LifeIInv, Ahead, DeleteRow
<1>5. phase = "search" => Now.op \in Lessons \cup {"ask", "count"} /\ Now.when = "" BY SearchStep
<1>6. phase # "over" BY DEF LifeIInv, Ahead
<1> QED BY <1>1, <1>2, <1>3, <1>4, <1>5, <1>6

LEMMA PassKeeps ==
  ASSUME ClientIInv, LifeIInv, Passed, Delivers, Housed' PROVE LifeIInv'
<1>1. /\ todo # <<>> /\ todo' = Tail(todo) /\ phase' = phase /\ greens' = 0
      /\ engine' = engine /\ foreign' = foreign /\ restarted' = restarted
      /\ knows \subseteq knows' /\ left \cap Remains(db') \subseteq left'
  BY DEF Passed
<1>2. Suffix(todo', todo, 1) BY <1>1, TailSuffix DEF ClientIInv, Shaped
<1>3. \A j \in DOMAIN todo : j = 1 \/ (j - 1 \in DOMAIN todo' /\ todo'[j - 1] = todo[j])
  BY <1>1, TailOfTodo DEF ClientIInv, Shaped
<1>3a. \A j \in DOMAIN todo : j \in Nat BY <1>2 DEF Suffix
<1>4. /\ left \cap db'.docs \subseteq left' /\ (db'.coll /\ "collection" \in left => "collection" \in left')
      /\ StandIn => StandIn'
  BY <1>1 DEF Remains, StandIn
<1>5. (Uploading' <=> Uploading) /\ (Awaited' <=> Awaited) BY <1>1 DEF Uploading, Awaited
<1>6. Ahead'
  <2>1. /\ ConfigureRow(engine, todo) => ConfigureRow(engine, todo')
        /\ UploadRow(engine, todo) => UploadRow(engine, todo')
        /\ DeleteRow(todo) => DeleteRow(todo')
    BY <1>2, SuffixRows
  <2> QED BY <1>1, <2>1, StepOfRow DEF LifeIInv, Ahead
<1>7. Owned'
  <2> SUFFICES ASSUME Uploading
               PROVE  /\ foreign \subseteq Stale /\ db'.docs \cap Stale \subseteq foreign
                      /\ "dummy" \in db'.docs => phase = "configure" /\ \E i \in DOMAIN todo' : RemovesDummy(todo'[i])
    BY <1>1, <1>5 DEF Owned
  <2>1. /\ foreign \subseteq Stale /\ db.docs \cap Stale \subseteq foreign
        /\ "dummy" \in db.docs => phase = "configure" /\ \E i \in DOMAIN todo : RemovesDummy(todo[i])
    BY DEF LifeIInv, Owned
  <2>2. db'.docs \cap Stale \subseteq foreign BY <2>1 DEF Delivers
  <2>3. ASSUME "dummy" \in db'.docs PROVE phase = "configure" /\ \E i \in DOMAIN todo' : RemovesDummy(todo'[i])
    <3>1. CASE Now.op = "insert"
      <4>1. phase = "configure" BY <1>1, <3>1, StepOfRow DEF Uploading, Lessons
      <4>2. PICK j \in DOMAIN todo : j > 1 /\ RemovesDummy(todo[j]) BY <1>1, <3>1, <4>1, StepOfRow
      <4>3. j # 1 BY <1>3a, <4>2
      <4> QED BY <1>3, <4>1, <4>2, <4>3
    <3>2. CASE "dummy" \in db.docs /\ ~RemovesDummy(Now)
      <4>1. PICK j \in DOMAIN todo : RemovesDummy(todo[j]) BY <2>1, <3>2
      <4>2. j # 1 BY <1>1, <3>2, <4>1, StepOfRow
      <4> QED BY <1>3, <2>1, <3>2, <4>1, <4>2
    <3> QED BY <2>3, <3>1, <3>2 DEF Delivers
  <2> QED BY <2>1, <2>2, <2>3
<1>8. Renewed'
  <2> SUFFICES ASSUME Uploading, ~(db'.docs \cap Stale \subseteq Spared')
               PROVE  phase = "configure" /\ \E i \in DOMAIN todo' : Clears(engine, todo'[i])
    BY <1>1, <1>5 DEF Renewed
  <2>1. ~(db.docs \cap Stale \subseteq Spared)
    <3>1. db'.docs \cap Stale \subseteq db.docs BY DEF Delivers
    <3>2. Spared \cap db'.docs \subseteq Spared' BY <1>1, <1>4 DEF Spared
    <3> QED BY <3>1, <3>2
  <2>2. phase = "configure" BY <2>1 DEF LifeIInv, Renewed
  <2>3. PICK j \in DOMAIN todo : Clears(engine, todo[j]) BY <2>1 DEF LifeIInv, Renewed
  <2>4. j # 1 BY <1>1, <2>2, <2>3, StepOfRow DEF Delivers
  <2> QED BY <1>3, <2>2, <2>3, <2>4
<1>9. Uploaded'
  <2> SUFFICES ASSUME Uploading, phase # "configure", ~(Corpus \subseteq db'.docs), ~StandIn'
               PROVE  phase = "upload" /\ \E i \in DOMAIN todo' : todo'[i].op = "load" /\ Certain(todo'[i])
    BY <1>1, <1>5 DEF Uploaded
  <2>1. phase \in {"upload", "search"} BY DEF Uploading
  <2>2. db.docs \subseteq db'.docs BY <2>1 DEF Delivers
  <2>3. ~(Corpus \subseteq db.docs) BY <2>2
  <2>4. phase = "upload" /\ \E i \in DOMAIN todo : todo[i].op = "load" /\ Certain(todo[i])
    BY <1>4, <2>3 DEF LifeIInv, Uploaded
  <2>5. PICK j \in DOMAIN todo : todo[j].op = "load" /\ Certain(todo[j]) BY <2>4
  <2>6. j # 1 BY <1>1, <2>4, <2>5, StepOfRow DEF Delivers
  <2> QED BY <1>3, <2>4, <2>5, <2>6
<1>10. Built'
  <2> SUFFICES ASSUME Awaited, phase \in {"configure", "upload", "search"}, NEW n \in engine.indexes,
                      n \notin DOMAIN db'.indexed,
                      ~(phase = "configure" /\ \E i \in DOMAIN engine.upload : Builds(engine, engine.upload[i], n))
               PROVE  phase \in {"configure", "upload"} /\ \E i \in DOMAIN todo' : Builds(engine, todo'[i], n)
    BY <1>1, <1>5 DEF Built
  <2>1. CASE Now.op = "drop"
    <3>1. phase = "configure" BY <1>1, <2>1, StepOfRow DEF Lessons
    <3>2. PICK j \in DOMAIN todo : j > 1 /\ Builds(engine, todo[j], n) BY <1>1, <2>1, <3>1, StepOfRow
    <3>3. j # 1 BY <1>3a, <3>2
    <3> QED BY <1>3, <3>1, <3>2, <3>3
  <2>2. CASE Now.op # "drop"
    <3>1. n \notin DOMAIN db.indexed BY <2>2 DEF Delivers
    <3>2. phase \in {"configure", "upload"} /\ \E i \in DOMAIN todo : Builds(engine, todo[i], n)
      BY <3>1 DEF LifeIInv, Built
    <3>3. PICK j \in DOMAIN todo : Builds(engine, todo[j], n) BY <3>2
    <3>4. j # 1 BY <1>1, <3>3, StepOfRow DEF Delivers
    <3> QED BY <1>3, <3>2, <3>3, <3>4
  <2> QED BY <2>1, <2>2
<1>11. Covered'
  <2> SUFFICES ASSUME Awaited, phase \in {"upload", "search"}, ~AllIndexed'
               PROVE  phase = "upload" /\ \E i \in DOMAIN todo' : Settles(engine, todo'[i])
    BY <1>1, <1>5 DEF Covered
  <2>1. CASE Now.op \in {"load", "create", "index"}
    <3>1. phase = "upload" BY <1>1, <2>1, StepOfRow DEF Lessons
    <3>2. engine.indexes # {} BY <1>1 DEF Housed, AllIndexed
    <3>3. engine.name \notin Streaming BY DEF Awaited
    <3>4. PICK j \in DOMAIN todo : j > 1 /\ Settles(engine, todo[j]) BY <1>1, <2>1, <3>1, <3>2, <3>3, StepOfRow
    <3>5. j # 1 BY <1>3a, <3>4
    <3> QED BY <1>3, <3>1, <3>4, <3>5
  <2>2. CASE Now.op \notin {"load", "create", "index"}
    <3>1. ~AllIndexed BY <2>2 DEF Delivers
    <3>2. phase = "upload" /\ \E i \in DOMAIN todo : Settles(engine, todo[i]) BY <3>1 DEF LifeIInv, Covered
    <3>3. PICK j \in DOMAIN todo : Settles(engine, todo[j]) BY <3>2
    <3>4. j # 1 BY <1>1, <3>2, <3>3, StepOfRow DEF Delivers
    <3> QED BY <1>3, <3>2, <3>3, <3>4
  <2> QED BY <2>1, <2>2
<1>12. Greens' BY <1>1 DEF Greens
<1>13. Gone'
  <2> SUFFICES ASSUME phase = "delete", ~engine.reused
               PROVE  /\ \/ db'.coll => "collection" \in left'
                         \/ \E i \in DOMAIN todo' : Ends(todo'[i]) \/ Drops(todo'[i], knows')
                      /\ \/ db'.docs \subseteq left' \/ engine.name = "redis_shared"
                         \/ \E i \in DOMAIN todo' : Ends(todo'[i]) \/ Takes(engine, todo'[i], knows')
    BY <1>1, StepOfRow DEF Gone
  <2>0. \A t : (Drops(t, knows) => Drops(t, knows')) /\ (Takes(engine, t, knows) => Takes(engine, t, knows'))
    BY <1>1 DEF Drops, Takes
  <2>1. ASSUME db'.coll, "collection" \notin left'
        PROVE  \E i \in DOMAIN todo' : Ends(todo'[i]) \/ Drops(todo'[i], knows')
    <3>1. db.coll /\ "collection" \notin left BY <1>4, <2>1 DEF Delivers
    <3>2. PICK j \in DOMAIN todo : Ends(todo[j]) \/ Drops(todo[j], knows) BY <3>1 DEF LifeIInv, Gone
    <3>3. j # 1 BY <1>1, <2>1, <3>2, StepOfRow DEF Delivers
    <3> QED BY <1>3, <2>0, <3>2, <3>3
  <2>2. ASSUME ~(db'.docs \subseteq left'), engine.name # "redis_shared"
        PROVE  \E i \in DOMAIN todo' : Ends(todo'[i]) \/ Takes(engine, todo'[i], knows')
    <3>0. db'.docs \subseteq db.docs BY DEF Delivers
    <3>1. ~(db.docs \subseteq left) BY <1>4, <2>2, <3>0
    <3>2. PICK j \in DOMAIN todo : Ends(todo[j]) \/ Takes(engine, todo[j], knows) BY <2>2, <3>1 DEF LifeIInv, Gone
    <3>3. j # 1 BY <1>1, <2>2, <3>2, StepOfRow DEF Delivers
    <3> QED BY <1>3, <2>0, <3>2, <3>3
  <2> QED BY <2>1, <2>2
<1> QED BY <1>6, <1>7, <1>8, <1>9, <1>10, <1>11, <1>12, <1>13 DEF LifeIInv

-----------------------------------------------------------------------------
\* What each request makes of the fields that matter here.
LEMMA DropEffect ==
  ASSUME DOMAIN db = DbFields, NEW s, s.op = "drop", NEW d, d = Effect(s)
  PROVE  /\ DOMAIN d = DbFields /\ d.coll = FALSE /\ DOMAIN d.indexed = {}
         /\ engine.keysOutlive => d.docs = db.docs
         /\ ~engine.keysOutlive => d.docs = {} /\ d.open = FALSE
<1>1. /\ Empty.coll = FALSE /\ Empty.docs = {} /\ Empty.open = FALSE /\ Empty.indexed = <<>> /\ DOMAIN Empty = DbFields
  BY DEF Empty, DbFields
<1>2. DOMAIN <<>> = {} OBVIOUS
<1>3. CASE engine.keysOutlive
  <2>1. d = [db EXCEPT !.coll = FALSE, !.indexed = <<>>] BY <1>3 DEF Effect
  <2>2. DOMAIN d = DbFields /\ d.coll = FALSE /\ d.indexed = <<>> /\ d.docs = db.docs BY <2>1 DEF DbFields
  <2> QED BY <1>2, <1>3, <2>2
<1>4. CASE ~engine.keysOutlive
  <2>1. d = Empty BY <1>4 DEF Effect
  <2> QED BY <1>1, <1>2, <1>4, <2>1
<1> QED BY <1>3, <1>4

LEMMA DropKeysEffect ==
  ASSUME DOMAIN db = DbFields, NEW s, s.op = "dropKeys", NEW d, d = Effect(s)
  PROVE  /\ DOMAIN d = DbFields /\ d.coll = db.coll /\ d.open = db.open /\ d.docs = {}
         /\ DOMAIN d.indexed = DOMAIN db.indexed /\ \A n \in DOMAIN d.indexed : d.indexed[n] = {}
<1>1. d = [db EXCEPT !.docs = {}, !.indexed = [n \in DOMAIN @ |-> {}]] BY DEF Effect
<1> QED BY <1>1 DEF DbFields

LEMMA CreateEffect ==
  ASSUME DOMAIN db = DbFields, NEW s, s.op = "create", ~db.coll, NEW d, d = Effect(s)
  PROVE  /\ DOMAIN d = DbFields /\ d.docs = db.docs /\ d.open = db.open /\ d.coll = TRUE
         /\ DOMAIN d.indexed = s.names /\ \A n \in DOMAIN d.indexed : d.indexed[n] = {}
<1>1. d = [db EXCEPT !.coll = TRUE, !.indexed = [n \in s.names |-> {}]] BY DEF Effect
<1> QED BY <1>1 DEF DbFields

LEMMA IndexEffect ==
  ASSUME DOMAIN db = DbFields, NEW s, s.op = "index", NEW d, d = Effect(s)
  PROVE  /\ DOMAIN d = DbFields /\ d.docs = db.docs /\ d.open = db.open /\ d.coll = db.coll
         /\ DOMAIN d.indexed = DOMAIN db.indexed \cup s.names
         /\ \A n \in DOMAIN d.indexed : d.indexed[n] = {} \/ (n \in DOMAIN db.indexed /\ d.indexed[n] = db.indexed[n])
<1>1. d = [db EXCEPT !.indexed = [n \in DOMAIN @ \cup s.names |-> IF n \in DOMAIN @ THEN @[n] ELSE {}]] BY DEF Effect
<1>2. d.indexed = [n \in DOMAIN db.indexed \cup s.names |-> IF n \in DOMAIN db.indexed THEN db.indexed[n] ELSE {}]
  BY <1>1 DEF DbFields
<1>3. DOMAIN d = DbFields /\ d.docs = db.docs /\ d.open = db.open /\ d.coll = db.coll BY <1>1 DEF DbFields
<1> QED BY <1>2, <1>3

LEMMA StoreEffect ==
  ASSUME DOMAIN db = DbFields, NEW s, s.op = "load" \/ s.op = "insert", NEW d, d = Effect(s)
  PROVE  /\ DOMAIN d = DbFields /\ d.docs = db.docs \cup s.docs /\ d.open = db.open /\ d.coll = TRUE
         /\ d.indexed = db.indexed
<1>1. d = [db EXCEPT !.coll = TRUE, !.docs = @ \cup s.docs] BY DEF Effect
<1> QED BY <1>1 DEF DbFields

LEMMA RemoveEffect ==
  ASSUME DOMAIN db = DbFields, NEW s, s.op = "remove", NEW d, d = Effect(s)
  PROVE  /\ DOMAIN d = DbFields /\ d.docs = db.docs \ s.docs /\ d.open = db.open /\ d.coll = db.coll
         /\ DOMAIN d.indexed = DOMAIN db.indexed /\ \A n \in DOMAIN d.indexed : d.indexed[n] = db.indexed[n] \ s.docs
<1>1. d = [db EXCEPT !.docs = @ \ s.docs, !.indexed = [n \in DOMAIN @ |-> @[n] \ s.docs]] BY DEF Effect
<1> QED BY <1>1 DEF DbFields

\* A collection that is there is not created again, and asking changes nothing.
LEMMA NoEffect ==
  ASSUME DOMAIN db = DbFields, NEW s, NEW d, d = Effect(s),
         \/ s.op = "create" /\ db.coll
         \/ s.op \notin {"drop", "dropKeys", "create", "index", "load", "insert", "remove"}
  PROVE  DOMAIN d = DbFields /\ d.docs = db.docs /\ d.open = db.open /\ d.coll = db.coll /\ d.indexed = db.indexed
<1>1. CASE s.op = "create" /\ db.coll
  <2>1. d = db BY <1>1 DEF Effect
  <2> QED BY <2>1
<1>2. CASE s.op \in {"hold", "release", "open"}
  <2>1. d \in {[db EXCEPT !.held = TRUE], [db EXCEPT !.held = FALSE], [db EXCEPT !.opening = TRUE]} BY <1>2 DEF Effect
  <2> QED BY <2>1 DEF DbFields
<1>3. CASE s.op \notin {"drop", "dropKeys", "create", "index", "load", "insert", "remove", "hold", "release", "open"}
  <2>1. d = db BY <1>3 DEF Effect
  <2> QED BY <2>1
<1> QED BY <1>1, <1>2, <1>3

\* An index never comes before its collection, whatever the request and its fate.
LEMMA EffectHoused ==
  ASSUME Housed, NEW s, NEW d, d = Effect(s), Accepts(s), s.op \in {"create", "index"} => s.names \subseteq engine.indexes,
         engine.keysOutlive => engine.keyed
  PROVE  /\ DOMAIN d = DbFields
         /\ DOMAIN d.indexed \subseteq engine.indexes
         /\ \A n \in DOMAIN d.indexed : d.indexed[n] \subseteq d.docs
         /\ DOMAIN d.indexed # {} => d.coll
         /\ ~engine.keyed => (d.coll \/ d.docs = {}) /\ (d.open => d.coll /\ "vector" \in DOMAIN d.indexed)
<1>0. /\ DOMAIN db = DbFields
      /\ DOMAIN db.indexed \subseteq engine.indexes
      /\ \A n \in DOMAIN db.indexed : db.indexed[n] \subseteq db.docs
      /\ DOMAIN db.indexed # {} => db.coll
      /\ ~engine.keyed => (db.coll \/ db.docs = {}) /\ (db.open => db.coll /\ "vector" \in DOMAIN db.indexed)
  BY DEF Housed
<1>a. DOMAIN db = DbFields BY DEF Housed
<1>1. CASE s.op = "drop" BY <1>0, <1>1, DropEffect
<1>2. CASE s.op = "dropKeys" BY <1>0, <1>2, DropKeysEffect
<1>3. CASE s.op = "create" /\ ~db.coll
  <2>1. s.names \subseteq engine.indexes BY <1>3
  <2>2. /\ DOMAIN d = DbFields /\ d.docs = db.docs /\ d.open = db.open /\ d.coll = TRUE
        /\ DOMAIN d.indexed = s.names /\ \A n \in DOMAIN d.indexed : d.indexed[n] = {}
    BY <1>a, <1>3, CreateEffect
  <2>3. d.coll /\ (~engine.keyed => ~d.open) BY <1>0, <1>3, <2>2
  <2> QED BY <2>1, <2>2, <2>3
<1>4. CASE s.op = "index"
  <2>1. db.coll BY <1>4 DEF Accepts
  <2>2. s.names \subseteq engine.indexes BY <1>4
  <2>3. /\ DOMAIN d = DbFields /\ d.docs = db.docs /\ d.open = db.open /\ d.coll = db.coll
        /\ DOMAIN d.indexed = DOMAIN db.indexed \cup s.names
        /\ \A n \in DOMAIN d.indexed : d.indexed[n] = {} \/ (n \in DOMAIN db.indexed /\ d.indexed[n] = db.indexed[n])
    BY <1>a, <1>4, IndexEffect
  <2>4. \A n \in DOMAIN d.indexed : d.indexed[n] \subseteq d.docs BY <1>0, <2>3
  <2>5. d.coll /\ DOMAIN d.indexed \subseteq engine.indexes BY <1>0, <2>1, <2>2, <2>3
  <2> QED BY <1>0, <2>3, <2>4, <2>5
<1>5. CASE s.op \in {"load", "insert"}
  <2>1. DOMAIN d = DbFields /\ d.docs = db.docs \cup s.docs /\ d.open = db.open /\ d.coll = TRUE /\ d.indexed = db.indexed
    BY <1>a, <1>5, StoreEffect
  <2>2. d.coll /\ \A n \in DOMAIN d.indexed : d.indexed[n] \subseteq d.docs BY <1>0, <2>1
  <2> QED BY <1>0, <2>1, <2>2
<1>6. CASE s.op = "remove"
  <2>1. /\ DOMAIN d = DbFields /\ d.docs = db.docs \ s.docs /\ d.open = db.open /\ d.coll = db.coll
        /\ DOMAIN d.indexed = DOMAIN db.indexed /\ \A n \in DOMAIN d.indexed : d.indexed[n] = db.indexed[n] \ s.docs
    BY <1>a, <1>6, RemoveEffect
  <2>2. db.docs = {} => d.docs = {} BY <2>1
  <2> QED BY <1>0, <2>1, <2>2
<1>7. CASE \/ s.op = "create" /\ db.coll
           \/ s.op \notin {"drop", "dropKeys", "create", "index", "load", "insert", "remove"}
  <2>1. DOMAIN d = DbFields /\ d.docs = db.docs /\ d.open = db.open /\ d.coll = db.coll /\ d.indexed = db.indexed
    BY <1>a, <1>7, NoEffect
  <2> QED BY <1>0, <2>1
<1> QED BY <1>1, <1>2, <1>3, <1>4, <1>5, <1>6, <1>7

LEMMA RequestHoused ==
  ASSUME ClientIInv, LifeIInv, NEW fate \in Fates, Request(fate) PROVE Housed'
<1>1. /\ todo # <<>> /\ Running /\ Now.op \in Requests /\ engine' = engine BY DEF Request, At
<1>2. phase \in {"configure", "upload", "search", "delete"} BY <1>1 DEF Running, ClientIInv, Shaped
<1>3. Now.op \in {"create", "index"} => Now.names \subseteq engine.indexes BY <1>1, <1>2, StepOfRow DEF Lessons
<1>4. Housed BY DEF LifeIInv
<1>5. CASE Executed(Now, fate) /\ db' = Effect(Now)
  <2>1. Accepts(Now) BY <1>5 DEF Executed
  <2>2. engine.keysOutlive => engine.keyed BY RowFacts DEF ClientIInv, Shaped
  <2> QED BY <1>1, <1>3, <1>4, <1>5, <2>1, <2>2, EffectHoused DEF Housed
<1>6. CASE db' = db BY <1>1, <1>4, <1>6 DEF Housed
<1>7. CASE Now.op = "load" /\ Accepts(Now) /\ \E kept \in SUBSET Corpus : db' = [Effect(Now) EXCEPT !.docs = db.docs \cup kept]
  <2>1. PICK kept \in SUBSET Corpus : db' = [Effect(Now) EXCEPT !.docs = db.docs \cup kept] BY <1>7
  <2>2. PICK d : d = Effect(Now) OBVIOUS
  <2>a. DOMAIN db = DbFields /\ Now.op = "load" BY <1>4, <1>7 DEF Housed
  <2>3. DOMAIN d = DbFields /\ d.coll = TRUE /\ d.open = db.open /\ d.indexed = db.indexed
    BY <2>a, <2>2, StoreEffect
  <2>4. db' = [d EXCEPT !.docs = db.docs \cup kept] BY <2>1, <2>2
  <2>5. /\ DOMAIN db' = DbFields /\ db'.docs = db.docs \cup kept /\ db'.coll = TRUE /\ db'.open = db.open
        /\ db'.indexed = db.indexed
    BY <2>3, <2>4 DEF DbFields
  <2> QED BY <1>1, <1>4, <2>5 DEF Housed
<1> QED BY <1>5, <1>6, <1>7 DEF Request

\* What a request that the code goes on from has done, or not done.
LEMMA RequestOutcome ==
  ASSUME ClientIInv, LifeIInv, NEW fate \in Fates, Request(fate), GoesOn(Now, fate)
  PROVE  /\ Certain(Now) => Accepts(Now) /\ db' = Effect(Now)
         /\ Now.op \in {"drop", "dropKeys"} => db' = Effect(Now) \/ Remains(db') \subseteq left'
         /\ left \cap Remains(db') \subseteq left'
         /\ Now.op \in {"load", "insert"} =>
              /\ db.docs \subseteq db'.docs /\ db'.docs \subseteq db.docs \cup Now.docs \cup Corpus
              /\ db'.indexed = db.indexed
         /\ Now.op \notin {"load", "insert"} => db' = Effect(Now) \/ db' = db
<1>1. \/ Executed(Now, fate) /\ db' = Effect(Now)
      \/ ~Executed(Now, fate) /\ db' = db
      \/ /\ ~Executed(Now, fate) /\ Now.op = "load" /\ Accepts(Now)
         /\ \E kept \in SUBSET Corpus : db' = [Effect(Now) EXCEPT !.docs = db.docs \cup kept]
  BY DEF Request
<1>2. left' = CASE Now.op \notin {"drop", "dropKeys"} -> left
                [] Now.op \in {"drop", "dropKeys"} /\ fate = "done" /\ Accepts(Now) -> left \cap Remains(db')
                [] OTHER -> left \cup Remains(db')
  BY DEF Request
<1>a. DOMAIN db = DbFields BY DEF LifeIInv, Housed
<1>3. ASSUME Certain(Now) PROVE Accepts(Now) /\ db' = Effect(Now)
  <2>1. Now.tolerates = {} BY <1>3 DEF Certain
  <2>2. fate = "done" /\ Accepts(Now) BY <2>1 DEF GoesOn
  <2>3. Executed(Now, fate) BY <2>2 DEF Executed
  <2> QED BY <1>1, <2>2, <2>3
<1>4. ASSUME Now.op \in {"drop", "dropKeys"} PROVE db' = Effect(Now) \/ Remains(db') \subseteq left'
  <2>1. CASE fate = "done" /\ Accepts(Now)
    <3>1. Executed(Now, fate) BY <2>1 DEF Executed
    <3> QED BY <1>1, <3>1
  <2>2. CASE ~(fate = "done" /\ Accepts(Now))
    <3>1. left' = left \cup Remains(db') BY <1>2, <1>4, <2>2
    <3> QED BY <3>1
  <2> QED BY <2>1, <2>2
<1>7. left \cap Remains(db') \subseteq left'
  <2>1. left' \in {left, left \cap Remains(db'), left \cup Remains(db')} BY <1>2
  <2> QED BY <2>1
<1>5. ASSUME Now.op \in {"load", "insert"}
      PROVE  /\ db.docs \subseteq db'.docs /\ db'.docs \subseteq db.docs \cup Now.docs \cup Corpus
             /\ db'.indexed = db.indexed
  <2>1. PICK d : d = Effect(Now) OBVIOUS
  <2>2. Now.op = "load" \/ Now.op = "insert" BY <1>5
  <2>3. DOMAIN d = DbFields /\ d.docs = db.docs \cup Now.docs /\ d.indexed = db.indexed
    BY <1>a, <2>1, <2>2, StoreEffect
  <2>4. CASE db' = Effect(Now) BY <2>1, <2>3, <2>4
  <2>5. CASE db' = db BY <2>5
  <2>6. CASE \E kept \in SUBSET Corpus : db' = [Effect(Now) EXCEPT !.docs = db.docs \cup kept]
    <3>1. PICK kept \in SUBSET Corpus : db' = [d EXCEPT !.docs = db.docs \cup kept] BY <2>1, <2>6
    <3>2. db'.docs = db.docs \cup kept /\ db'.indexed = db.indexed BY <2>3, <3>1 DEF DbFields
    <3> QED BY <3>2
  <2> QED BY <1>1, <2>4, <2>5, <2>6
<1>6. Now.op \notin {"load", "insert"} => db' = Effect(Now) \/ db' = db BY <1>1
<1> QED BY <1>3, <1>4, <1>5, <1>6, <1>7

LEMMA RequestFields ==
  ASSUME ClientIInv, LifeIInv, NEW fate \in Fates, Request(fate), GoesOn(Now, fate)
  PROVE  /\ Now.op \notin {"load", "insert"} => db'.docs \subseteq db.docs
         /\ Now.op \notin {"drop", "dropKeys", "remove"} => db.docs \subseteq db'.docs
         /\ Now.op # "drop" => DOMAIN db.indexed \subseteq DOMAIN db'.indexed
         /\ Now.op \notin {"drop", "dropKeys", "create", "index", "load", "insert", "remove"} =>
              db'.docs = db.docs /\ db'.indexed = db.indexed
         /\ Now.op \notin {"create", "load", "insert"} => (~db.coll => ~db'.coll)
<1> DEFINE o == Now.op
<1>a. DOMAIN db = DbFields /\ (DOMAIN db.indexed # {} => db.coll) BY DEF LifeIInv, Housed
<1>1. CASE o \in {"load", "insert"} BY <1>1, RequestOutcome
<1>2. CASE o \notin {"load", "insert"}
  <2>1. PICK d : d = Effect(Now) OBVIOUS
  <2>2. CASE db' = db BY <1>2, <2>2
  <2>3. CASE db' = d
    <3>a. DOMAIN db = DbFields BY <1>a
    <3>1. CASE o = "drop"
      <4>1. d.coll = FALSE /\ (d.docs = db.docs \/ d.docs = {}) BY <3>a, <2>1, <3>1, DropEffect
      <4> QED BY <2>3, <3>1, <4>1
    <3>2. CASE o = "dropKeys"
      <4>1. d.coll = db.coll /\ d.docs = {} /\ DOMAIN d.indexed = DOMAIN db.indexed
        BY <3>a, <2>1, <3>2, DropKeysEffect
      <4> QED BY <2>3, <3>2, <4>1
    <3>3. CASE o = "create" /\ ~db.coll
      <4>1. d.docs = db.docs BY <3>a, <2>1, <3>3, CreateEffect
      <4>2. DOMAIN db.indexed = {} BY <1>a, <3>3
      <4> QED BY <2>3, <3>3, <4>1, <4>2
    <3>4. CASE o = "index"
      <4>1. d.docs = db.docs /\ d.coll = db.coll /\ DOMAIN d.indexed = DOMAIN db.indexed \cup Now.names
        BY <3>a, <2>1, <3>4, IndexEffect
      <4> QED BY <2>3, <3>4, <4>1
    <3>5. CASE o = "remove"
      <4>1. d.docs = db.docs \ Now.docs /\ d.coll = db.coll /\ DOMAIN d.indexed = DOMAIN db.indexed
        BY <3>a, <2>1, <3>5, RemoveEffect
      <4> QED BY <2>3, <3>5, <4>1
    <3>6. CASE \/ o = "create" /\ db.coll
               \/ o \notin {"drop", "dropKeys", "create", "index", "load", "insert", "remove"}
      <4>1. d.docs = db.docs /\ d.coll = db.coll /\ d.indexed = db.indexed BY <3>a, <2>1, <3>6, NoEffect
      <4> QED BY <1>2, <2>3, <4>1
    <3> QED BY <1>2, <3>1, <3>2, <3>3, <3>4, <3>5, <3>6
  <2> QED BY <1>2, <2>1, <2>2, <2>3, RequestOutcome
<1> QED BY <1>1, <1>2

LEMMA RequestDelivers ==
  ASSUME ClientIInv, LifeIInv, NEW fate \in Fates, Request(fate), GoesOn(Now, fate) PROVE Delivers
<1>0. /\ todo # <<>> /\ Running /\ Now.op \in Requests /\ UNCHANGED <<engine, knows, foreign, restarted>>
      /\ phase' = phase /\ Now.op # "await"
  BY DEF Request, At, Proceed, Requests
<1>a. DOMAIN db = DbFields /\ (~engine.keyed => db.coll \/ db.docs = {}) BY DEF LifeIInv, Housed
<1>c. /\ Now.op \in {"drop", "dropKeys"} => db' = Effect(Now) \/ (db'.docs \subseteq left' /\ (db'.coll => "collection" \in left'))
  BY RequestOutcome DEF Remains
<1>d. ASSUME Removes(engine, Now), db' = Effect(Now) PROVE db'.docs = {}
  <2>1. PICK d : d = Effect(Now) OBVIOUS
  <2>2. CASE engine.keysOutlive
    <3>1. Now.op = "dropKeys" BY <1>d, <2>2 DEF Removes
    <3>2. d.docs = {} BY <1>a, <2>1, <3>1, DropKeysEffect
    <3> QED BY <1>d, <2>1, <3>2
  <2>3. CASE ~engine.keysOutlive
    <3>1. Now.op = "drop" BY <1>d, <2>3 DEF Removes
    <3>2. d.docs = {} BY <1>a, <2>1, <2>3, <3>1, DropEffect
    <3> QED BY <1>d, <2>1, <3>2
  <2> QED BY <2>2, <2>3
<1>b. Now.op \notin Lessons \cup {"count"} BY <1>0 DEF Requests, Lessons
<1>1. ASSUME Uploading PROVE db'.docs \cap Stale \subseteq db.docs
  <2>1. CASE Now.op = "load"
    <3>1. phase = "upload" BY <1>0, <1>1, <2>1, StepOfRow DEF Uploading, Lessons
    <3>2. Now.docs = Corpus BY <1>0, <2>1, <3>1, StepOfRow
    <3>3. db'.docs \subseteq db.docs \cup Corpus BY <2>1, <3>2, RequestOutcome
    <3> QED BY <3>3 DEF Corpus, Stale
  <2>2. CASE Now.op = "insert"
    <3>1. phase = "configure" BY <1>0, <1>1, <2>2, StepOfRow DEF Uploading, Lessons
    <3>2. Now.docs \subseteq {"dummy"} BY <1>0, <2>2, <3>1, StepOfRow
    <3>3. db'.docs \subseteq db.docs \cup {"dummy"} \cup Corpus BY <2>2, <3>2, RequestOutcome
    <3> QED BY <3>3 DEF Corpus, Stale
  <2>3. CASE Now.op \notin {"load", "insert"} BY <2>3, RequestFields
  <2> QED BY <2>1, <2>2, <2>3
<1>2. ASSUME Uploading, "dummy" \in db'.docs PROVE Now.op = "insert" \/ ("dummy" \in db.docs /\ ~RemovesDummy(Now))
  <2>1. CASE Now.op = "load"
    <3>1. phase = "upload" BY <1>0, <1>2, <2>1, StepOfRow DEF Uploading, Lessons
    <3>2. Now.docs = Corpus BY <1>0, <2>1, <3>1, StepOfRow
    <3>3. db'.docs \subseteq db.docs \cup Corpus BY <2>1, <3>2, RequestOutcome
    <3> QED BY <1>2, <2>1, <3>3 DEF Corpus, RemovesDummy
  <2>2. CASE Now.op \notin {"load", "insert"}
    <3>1. "dummy" \in db.docs BY <1>2, <2>2, RequestFields
    <3>2. ASSUME RemovesDummy(Now) PROVE FALSE
      <4>1. Now.op = "remove" /\ "dummy" \in Now.docs /\ Certain(Now) BY <3>2 DEF RemovesDummy
      <4>2. PICK d : d = Effect(Now) OBVIOUS
      <4>3. d.docs = db.docs \ Now.docs BY <1>a, <4>1, <4>2, RemoveEffect
      <4>4. db' = d BY <4>1, <4>2, RequestOutcome
      <4> QED BY <1>2, <4>1, <4>3, <4>4
    <3> QED BY <3>1, <3>2
  <2> QED BY <2>1, <2>2
<1>3. ASSUME phase = "configure", Clears(engine, Now) PROVE db'.docs \cap Stale \subseteq Spared'
  <2>1. CASE engine.reused \/ engine.name = "redis_shared"
    <3>1. Uploading BY <1>3 DEF ClientIInv, Shaped, SecondProcess, Uploading
    <3>2. db'.docs \cap Stale \subseteq foreign BY <1>1, <3>1 DEF LifeIInv, Owned
    <3>3. Spared' = foreign BY <1>0, <2>1, Zenon DEF Spared
    <3> QED BY <3>2, <3>3
  <2>2. CASE Now.op = "vacant" /\ Certain(Now)
    <3>1. Accepts(Now) BY <2>2, RequestOutcome
    <3>2. db.docs = {} BY <2>2, <3>1 DEF Accepts
    <3>3. db'.docs \subseteq db.docs BY <2>2, RequestFields
    <3> QED BY <3>2, <3>3
  <2>3. CASE Now.op = "create" /\ Now.exists = "conflict" /\ Certain(Now) /\ ~engine.keyed
    <3>1. Accepts(Now) BY <2>3, RequestOutcome
    <3>2. ~db.coll BY <2>3, <3>1 DEF Accepts
    <3>3. db.docs = {} BY <1>a, <2>3, <3>2
    <3>4. db'.docs \subseteq db.docs BY <2>3, RequestFields
    <3> QED BY <3>3, <3>4
  <2>4. CASE /\ ~(engine.reused \/ engine.name = "redis_shared")
             /\ Removes(engine, Now) /\ (Now.tolerates = {} \/ engine.name \in Swallows)
    <3>1. Now.op \in {"drop", "dropKeys"} BY <2>4 DEF Removes
    <3>2. CASE db' = Effect(Now) BY <1>d, <2>4, <3>2
    <3>3. CASE engine.name \in Swallows /\ db' # Effect(Now)
      <4>1. db'.docs \subseteq left' BY <1>c, <3>1, <3>3
      <4>2. Spared' = left' BY <1>0, <2>4, <3>3 DEF Spared
      <4> QED BY <4>1, <4>2
    <3>4. CASE Now.tolerates = {}
      <4>1. fate = "done" /\ Accepts(Now) BY <3>4 DEF GoesOn
      <4>2. Executed(Now, fate) BY <4>1 DEF Executed
      <4>3. db' = Effect(Now) BY <4>2 DEF Request
      <4> QED BY <3>2, <4>3
    <3> QED BY <2>4, <3>2, <3>3, <3>4
  <2> QED BY <1>3, <2>1, <2>2, <2>3, <2>4 DEF Clears
<1>4. ASSUME phase \in {"upload", "search"} PROVE db.docs \subseteq db'.docs
  <2>1. Now.op \notin {"drop", "dropKeys", "remove"} BY <1>0, <1>4, StepOfRow DEF Lessons
  <2> QED BY <2>1, RequestFields
<1>5. ASSUME phase = "upload", Now.op = "load", Certain(Now) PROVE Corpus \subseteq db'.docs
  <2>1. PICK d : d = Effect(Now) OBVIOUS
  <2>2. Now.docs = Corpus BY <1>0, <1>5, StepOfRow
  <2>3. d.docs = db.docs \cup Now.docs BY <1>a, <1>5, <2>1, StoreEffect
  <2>4. db' = d BY <1>5, <2>1, RequestOutcome
  <2> QED BY <2>2, <2>3, <2>4
<1>6. Now.op = "drop" \/ DOMAIN db.indexed \subseteq DOMAIN db'.indexed BY RequestFields
<1>7. ASSUME NEW n, Builds(engine, Now, n) PROVE n \in DOMAIN db'.indexed
  <2>1. PICK d : d = Effect(Now) OBVIOUS
  <2>2. Certain(Now) /\ n \in Now.names /\ (Now.op = "index" \/ (Now.op = "create" /\ Now.exists = "conflict"))
    BY <1>0, <1>7 DEF Builds
  <2>3. db' = d /\ Accepts(Now) BY <2>1, <2>2, RequestOutcome
  <2>4. CASE Now.op = "index"
    <3>1. DOMAIN d.indexed = DOMAIN db.indexed \cup Now.names BY <1>a, <2>1, <2>4, IndexEffect
    <3> QED BY <2>2, <2>3, <3>1
  <2>5. CASE Now.op = "create" /\ Now.exists = "conflict"
    <3>1. ~db.coll BY <2>3, <2>5 DEF Accepts
    <3>2. DOMAIN d.indexed = Now.names BY <1>a, <2>1, <2>5, <3>1, CreateEffect
    <3> QED BY <2>2, <2>3, <3>2
  <2> QED BY <2>2, <2>4, <2>5
<1>8. ASSUME phase \in {"upload", "search"}, AllIndexed, Now.op \notin {"load", "create", "index"} PROVE AllIndexed'
  <2>1. Now.op \notin {"drop", "dropKeys", "insert", "remove"} BY <1>0, <1>8, StepOfRow DEF Lessons
  <2>2. db'.docs = db.docs /\ db'.indexed = db.indexed BY <1>8, <2>1, RequestFields
  <2>3. unseen' = unseen BY DEF Request
  <2> QED BY <1>8, <2>2, <2>3 DEF AllIndexed
<1>9. ~Settles(engine, Now) BY <1>0 DEF Settles
<1>10. ASSUME phase = "delete"
       PROVE  /\ (~db.coll => ~db'.coll) /\ db'.docs \subseteq db.docs
              /\ ~Ends(Now)
              /\ Drops(Now, knows) => (db'.coll => "collection" \in left')
              /\ Takes(engine, Now, knows) => db'.docs \subseteq left'
  <2>1. Now.op \notin {"create", "insert", "load"} BY <1>0, <1>10, StepOfRow
  <2>2. (~db.coll => ~db'.coll) /\ db'.docs \subseteq db.docs BY <2>1, RequestFields
  <2>3. ASSUME Ends(Now) PROVE FALSE
    <3>1. Accepts(Now) BY <2>3, RequestOutcome DEF Ends
    <3> QED BY <2>3, <3>1 DEF Accepts, Ends
  <2>4. ASSUME Drops(Now, knows), db'.coll PROVE "collection" \in left'
    <3>1. PICK d : d = Effect(Now) OBVIOUS
    <3>2. Now.op = "drop" BY <2>4 DEF Drops
    <3>3. d.coll = FALSE BY <1>a, <3>1, <3>2, DropEffect
    <3>4. db' # d BY <2>4, <3>3
    <3> QED BY <1>c, <2>4, <3>1, <3>2, <3>4
  <2>5. ASSUME Takes(engine, Now, knows) PROVE db'.docs \subseteq left'
    <3>1. Removes(engine, Now) /\ Now.op \in {"drop", "dropKeys"} BY <2>5 DEF Takes, Removes
    <3> QED BY <1>c, <1>d, <3>1
  <2> QED BY <2>2, <2>3, <2>4, <2>5
<1> QED BY <1>1, <1>2, <1>3, <1>4, <1>5, <1>6, <1>7, <1>8, <1>9, <1>10 DEF Delivers

\* A phase that failed owes nothing.
LEMMA FailedKeeps ==
  ASSUME LifeIInv, Fail, Housed' PROVE LifeIInv'
<1>1. phase' = "failed" /\ greens' = 0 BY DEF Fail
<1> QED BY <1>1 DEF LifeIInv, Ahead, Owned, Renewed, Uploaded, Built, Covered, Greens, Gone, Uploading

LEMMA RequestKeepsLife ==
  ASSUME ClientIInv, LifeIInv, NEW fate \in Fates, Request(fate) PROVE LifeIInv'
<1>1. Housed' BY RequestHoused
<1>2. CASE GoesOn(Now, fate)
  <2>1. Delivers BY <1>2, RequestDelivers
  <2>2. Passed BY <1>2, RequestOutcome DEF Request, At, Proceed, Passed
  <2> QED BY <1>1, <2>1, <2>2, PassKeeps
<1>3. CASE ~GoesOn(Now, fate)
  <2>1. Fail BY <1>3 DEF Request
  <2> QED BY <1>1, <2>1, FailedKeeps
<1> QED BY <1>2, <1>3

\* A step that is no request: nothing on the server that matters here changes, and
\* what such a step could owe is there already.
LEMMA QuietKeeps ==
  ASSUME ClientIInv, LifeIInv, Passed, Housed',
         db'.docs = db.docs, db'.indexed = db.indexed, db'.coll = db.coll,
         Now.op \notin Requests \/ (Now.when # "" /\ Now.when \notin knows),
         \A n : Builds(engine, Now, n) => n \in DOMAIN db.indexed,
         AllIndexed => AllIndexed', (phase = "upload" /\ Awaited /\ Settles(engine, Now)) => AllIndexed'
  PROVE  LifeIInv'
<1>1. ~Certain(Now) \/ Now.op \notin Requests BY DEF Certain
<1>2. ~RemovesDummy(Now) BY <1>1 DEF RemovesDummy, Requests
<1>3. ~Clears(engine, Now)
  <2>1. Now.when # "" \/ Now.op \notin Requests OBVIOUS
  <2>2. Clears(engine, Now) => Now.when = "" BY DEF Clears, Certain
  <2>3. Clears(engine, Now) => Now.op \in {"vacant", "create", "drop", "dropKeys"} BY DEF Clears, Removes
  <2> QED BY <2>1, <2>2, <2>3 DEF Requests
<1>4. ~(Now.op \in {"load", "refuse"} /\ Certain(Now)) BY <1>1 DEF Requests
<1>5. ~Ends(Now) /\ ~Drops(Now, knows) /\ ~Takes(engine, Now, knows)
  BY <1>4 DEF Ends, Drops, Takes, Removes, Requests
<1>7. Delivers BY <1>2, <1>3, <1>4, <1>5 DEF Delivers
<1> QED BY <1>7, PassKeeps

LEMMA SkipBuildsNothing ==
  ASSUME Now.when # "" PROVE ~Settles(engine, Now) /\ \A n : ~Builds(engine, Now, n)
BY DEF Settles, Builds, Certain

LEMMA LearnKeepsLife ==
  ASSUME ClientIInv, LifeIInv, LearnFacts \/ Skip \/ (\E fate \in Fates : LearnFromServer(fate) \/ ReusePrecondition(fate))
  PROVE  LifeIInv'
<1>1. todo # <<>> /\ db' = db /\ UNCHANGED <<engine, foreign, restarted, left, unseen>>
  BY DEF LearnFacts, LearnFromServer, ReusePrecondition, Skip, At
<1>a. (AllIndexed => AllIndexed') /\ left \cap Remains(db') \subseteq left' BY <1>1 DEF AllIndexed
<1>2. Housed' BY <1>1 DEF LifeIInv, Housed
<1>3. CASE LearnFacts \/ \E fate \in Fates : LearnFromServer(fate) \/ ReusePrecondition(fate)
  <2>1. Now.op \in Lessons \cup {"count"} BY <1>3 DEF LearnFacts, LearnFromServer, ReusePrecondition, At, Lessons
  <2>2. CASE Proceed /\ knows \subseteq knows'
    <3>1. Passed BY <1>1, <1>a, <2>2 DEF Proceed, Passed
    <3>2. Now.op \notin Requests BY <2>1 DEF Requests, Lessons
    <3>3. \A n : ~Builds(engine, Now, n) BY <2>1 DEF Builds, Lessons
    <3>4. ~Settles(engine, Now) BY <2>1 DEF Settles, Lessons
    <3> QED BY <1>1, <1>a, <1>2, <3>1, <3>2, <3>3, <3>4, QuietKeeps
  <2>3. CASE Fail BY <1>2, <2>3, FailedKeeps
  <2>4. (Proceed /\ knows \subseteq knows') \/ Fail
    BY <1>3 DEF LearnFacts, LearnFromServer, ReusePrecondition
  <2> QED BY <2>2, <2>3, <2>4
<1>4. CASE Skip
  <2>1. Proceed /\ Now.when # "" /\ Now.when \notin knows /\ knows' = knows BY <1>4 DEF Skip
  <2>2. Passed BY <1>1, <1>a, <2>1 DEF Proceed, Passed
  <2>3. ~Settles(engine, Now) /\ \A n : ~Builds(engine, Now, n) BY <2>1, SkipBuildsNothing
  <2> QED BY <1>1, <1>a, <1>2, <2>1, <2>2, <2>3, QuietKeeps
<1> QED BY <1>3, <1>4

\* Keys enough under the prefix are the corpus, when none of another were there.
LEMMA CompleteIsCorpus ==
  ASSUME NEW D, D \subseteq Corpus, Cardinality(D) >= Cardinality(Corpus) PROVE Corpus \subseteq D
<1>1. IsFiniteSet(Corpus)
  <2>1. IsFiniteSet({"a"}) BY FS_Singleton
  <2>2. {"a"} \cup {"b"} = {"a", "b"} OBVIOUS
  <2>3. IsFiniteSet({"a", "b"}) BY <2>1, <2>2, FS_AddElement
  <2> QED BY <2>3 DEF Corpus
<1>2. IsFiniteSet(D) /\ Cardinality(D) <= Cardinality(Corpus) /\ (Cardinality(D) = Cardinality(Corpus) => D = Corpus)
  BY <1>1, FS_Subset
<1>3. Cardinality(D) \in Nat /\ Cardinality(Corpus) \in Nat BY <1>1, <1>2, FS_CardinalityType
<1>4. Cardinality(D) = Cardinality(Corpus) BY <1>2, <1>3
<1> QED BY <1>2, <1>4

LEMMA ReuseKeepsLife == ASSUME ClientIInv, LifeIInv, NEW fate \in Fates, Reuse(fate) PROVE LifeIInv'
<1>1. /\ todo # <<>> /\ Now.op = "reuse" /\ Running /\ UNCHANGED <<engine, db, knows, left, unseen, foreign, restarted>>
  BY DEF Reuse, At
<1>a. (AllIndexed => AllIndexed') /\ left \cap Remains(db') \subseteq left' BY <1>1 DEF AllIndexed
<1>2. Housed' BY <1>1 DEF LifeIInv, Housed
<1>3. phase = "upload"
  BY <1>1, StepOfRow DEF Running, ClientIInv, Shaped, Lessons
<1>4. CASE Fail BY <1>2, <1>4, FailedKeeps
<1>5. CASE Proceed
  <2>1. Passed BY <1>1, <1>a, <1>5 DEF Proceed, Passed
  <2>2. Now.op \notin Requests BY <1>1 DEF Requests
  <2>3. ~Settles(engine, Now) /\ \A n : ~Builds(engine, Now, n) BY <1>1 DEF Settles, Builds
  <2> QED BY <1>1, <1>a, <1>2, <2>1, <2>2, <2>3, QuietKeeps
<1>6. CASE /\ SharedCorpusIsComplete(Cardinality(db.docs), Cardinality(Corpus))
           /\ todo' = SubSeq(todo, 3, Len(todo)) /\ UNCHANGED <<phase, polls, greens>>
  <2>1. todo \in Seq(Steps) BY DEF ClientIInv, Shaped
  <2>2. engine.name = "redis_shared" /\ 2 \in DOMAIN todo /\ todo[2].op = "load" BY <1>1, <1>3, StepOfRow
  <2>3. Suffix(todo', todo, 2) BY <1>6, <2>1, <2>2, JumpSuffix
  <2>4. todo[1].op = "reuse" BY <1>1 DEF Now
  <2>5. ASSUME NEW j \in DOMAIN todo, todo[j].op \notin {"reuse", "load"}
        PROVE  j - 2 \in DOMAIN todo' /\ todo'[j - 2] = todo[j]
    <3>1. j \in Nat /\ j # 0
      <4>1. DOMAIN todo = 1..Len(todo) BY <2>1
      <4> QED BY <4>1
    <3>2. j # 1 /\ j # 2 BY <2>2, <2>4, <2>5
    <3>3. j > 2 BY <3>1, <3>2
    <3> QED BY <2>3, <3>3 DEF Suffix
  <2>6. Ahead'
    <3>1. UploadRow(engine, todo) BY <1>3 DEF LifeIInv, Ahead
    <3>2. UploadRow(engine, todo') BY <2>3, <3>1, SuffixRows
    <3> QED BY <1>1, <1>3, <1>6, <3>2 DEF Ahead
  <2>7. Owned' /\ Renewed'
    <3>1. phase' = "upload" BY <1>3, <1>6
    <3> QED BY <1>1, <1>3, <3>1 DEF LifeIInv, Owned, Renewed, Uploading, Spared
  <2>8. Uploaded'
    <3> SUFFICES ASSUME Uploading, ~StandIn PROVE Corpus \subseteq db.docs
      BY <1>1, <1>3, <1>6 DEF Uploaded, Uploading, StandIn
    <3>1. foreign = {} BY <2>2 DEF StandIn
    <3>2. db.docs \cap Stale = {} /\ "dummy" \notin db.docs BY <1>3, <3>1 DEF LifeIInv, Owned
    <3>3. db.docs \subseteq Corpus BY <3>2 DEF ClientIInv, Shaped, Documents
    <3>4. Cardinality(db.docs) >= Cardinality(Corpus) BY <1>6 DEF SharedCorpusIsComplete
    <3> QED BY <3>3, <3>4, CompleteIsCorpus
  <2>9. Built'
    <3> SUFFICES ASSUME Awaited, NEW n \in engine.indexes, n \notin DOMAIN db.indexed
                 PROVE  \E i \in DOMAIN todo' : Builds(engine, todo'[i], n)
      BY <1>1, <1>3, <1>6 DEF Built, Awaited
    <3>1. PICK j \in DOMAIN todo : Builds(engine, todo[j], n) BY <1>3 DEF LifeIInv, Built
    <3>2. todo[j].op \notin {"reuse", "load"} BY <3>1 DEF Builds
    <3> QED BY <2>5, <3>1, <3>2
  <2>10. Covered'
    <3> SUFFICES ASSUME Awaited, ~AllIndexed
                 PROVE  \E i \in DOMAIN todo' : Settles(engine, todo'[i])
      BY <1>1, <1>3, <1>6 DEF Covered, Awaited, AllIndexed
    <3>1. PICK j \in DOMAIN todo : Settles(engine, todo[j]) BY <1>3 DEF LifeIInv, Covered
    <3>2. todo[j].op \notin {"reuse", "load"} BY <3>1 DEF Settles
    <3> QED BY <2>5, <3>1, <3>2
  <2>11. Greens'
    <3>1. greens = 0 BY <1>1 DEF LifeIInv, Greens
    <3> QED BY <1>6, <3>1 DEF Greens
  <2>12. Gone' BY <1>3, <1>6 DEF Gone
  <2> QED BY <1>2, <2>6, <2>7, <2>8, <2>9, <2>10, <2>11, <2>12 DEF LifeIInv
<1> QED BY <1>4, <1>5, <1>6 DEF Reuse

\* A wait that is over has seen what it waited for, unless its deadline lets it go on.
LEMMA PollKeepsLife ==
  ASSUME ClientIInv, LifeIInv, NEW answered \in BOOLEAN, NEW lull \in BOOLEAN, NEW hidden, Poll(answered, lull, hidden) PROVE LifeIInv'
<1> DEFINE seen == answered /\ (lull \/ Sees(Now.reads, hidden))
<1>1. /\ todo # <<>> /\ Now.op = "await" /\ UNCHANGED <<engine, knows, left, foreign, restarted>>
      /\ lull => Now.reads = "idle" /\ ~db.held /\ ~db.lulled
      /\ db' = [db EXCEPT !.lulled = lull]
  BY DEF Poll, At
<1>2. /\ DOMAIN db' = DbFields /\ db'.docs = db.docs /\ db'.indexed = db.indexed /\ db'.coll = db.coll
      /\ db'.open = db.open /\ db'.lulled = lull
  BY <1>1 DEF LifeIInv, Housed, DbFields
<1>3. Housed' BY <1>1, <1>2 DEF LifeIInv, Housed
<1>a. unseen' = IF seen /\ Now.reads = "described" THEN hidden ELSE unseen BY DEF Poll
<1>b. ASSUME seen, Now.reads = "described" PROVE AllIndexed'
  <2>1. Sees(Now.reads, hidden) BY <1>1, <1>b
  <2>2. \A n \in DOMAIN db.indexed \ hidden : db.indexed[n] = db.docs BY <1>b, <2>1 DEF Sees
  <2>3. unseen' = hidden BY <1>a, <1>b
  <2> QED BY <1>2, <2>2, <2>3 DEF AllIndexed
<1>4. AllIndexed => AllIndexed'
  <2>1. CASE seen /\ Now.reads = "described" BY <1>b, <2>1
  <2>2. CASE ~(seen /\ Now.reads = "described")
    <3>1. unseen' = unseen BY <1>a, <2>2
    <3> QED BY <1>2, <3>1 DEF AllIndexed
  <2> QED BY <2>1, <2>2
<1>c. left \cap Remains(db') \subseteq left' BY <1>1
<1>5. \/ Proceed /\ seen /\ Confirmed(greens + 1, Now)
      \/ greens' = greens + 1 /\ UNCHANGED <<phase, todo, polls>> /\ seen /\ ~Confirmed(greens + 1, Now)
      \/ Fail
      \/ Proceed /\ Now.giveUp = "proceed"
      \/ greens' = 0 /\ UNCHANGED <<phase, todo>>
  BY DEF Poll, Deadline
<1>6. ASSUME UNCHANGED <<phase, todo>>, Greens' PROVE LifeIInv'
  <2>1. Ahead' BY <1>1, <1>6 DEF LifeIInv, Ahead
  <2>2. Uploading' <=> Uploading BY <1>1, <1>6 DEF Uploading
  <2>3. Awaited' <=> Awaited BY <1>1 DEF Awaited
  <2>4. Spared' = Spared /\ (StandIn' <=> StandIn) BY <1>1 DEF Spared, StandIn
  <2>5. Owned' /\ Renewed' /\ Uploaded'
    BY <1>1, <1>2, <1>6, <2>2, <2>4 DEF LifeIInv, Owned, Renewed, Uploaded
  <2>6. Built' BY <1>1, <1>2, <1>6, <2>3 DEF LifeIInv, Built
  <2>7. Covered' BY <1>1, <1>4, <1>6, <2>3 DEF LifeIInv, Covered
  <2>8. Gone' BY <1>1, <1>2, <1>6 DEF LifeIInv, Gone
  <2> QED BY <1>3, <1>6, <2>1, <2>5, <2>6, <2>7, <2>8 DEF LifeIInv
<1>7. Now.reads = "idle" /\ Sees(Now.reads, hidden) => AllIndexed BY DEF Sees, AllIndexed
<1>8. CASE Proceed /\ seen /\ Confirmed(greens + 1, Now)
  <2>1. Passed BY <1>1, <1>c, <1>8 DEF Proceed, Passed
  <2>2. Now.op \notin Requests BY <1>1 DEF Requests
  <2>3. ASSUME NEW n, Builds(engine, Now, n) PROVE n \in DOMAIN db.indexed
    <3>1. Now.reads = "open" /\ n = "vector" /\ ~engine.keyed BY <1>1, <2>3 DEF Builds
    <3>2. Sees(Now.reads, hidden) BY <1>1, <1>8, <3>1
    <3>3. db.open BY <3>1, <3>2 DEF Sees
    <3> QED BY <3>1, <3>3 DEF LifeIInv, Housed
  <2>4. ASSUME phase = "upload", Awaited, Settles(engine, Now) PROVE AllIndexed'
    <3>1. CASE Now.reads = "built"
      <4>1. Sees(Now.reads, hidden) BY <1>1, <1>8, <3>1
      <4>2. AllIndexed BY <3>1, <4>1 DEF Sees, AllIndexed
      <4> QED BY <1>4, <4>2
    <3>4. CASE Now.reads = "described" BY <1>b, <1>8, <3>4
    <3>2. CASE Now.reads = "idle" /\ Now.confirm > 1
      <4>1. greens # 0
        <5>1. ~(0 + 1 >= Now.confirm)
          <6>1. Now.confirm \in Nat BY <1>1, StepOfRow DEF Steps
          <6> QED BY <3>2, <6>1
        <5> QED BY <1>8, <5>1 DEF Confirmed
      <4>2. db.lulled \/ AllIndexed BY <3>2, <4>1 DEF LifeIInv, Greens
      <4> QED BY <1>1, <1>4, <1>7, <1>8, <3>2, <4>2
    <3>3. CASE /\ Now.reads = "corpus" /\ engine.name \notin Swallows \cup {"redis_shared"} /\ ~engine.reused
               /\ \A m, n \in engine.indexes : m = n
      <4>1. Sees(Now.reads, hidden) BY <1>1, <1>8, <3>3
      <4>2. PICK n \in DOMAIN db.indexed : Corpus \subseteq db.indexed[n] BY <3>3, <4>1 DEF Sees
      <4>3. DOMAIN db.indexed \subseteq engine.indexes /\ \A m \in DOMAIN db.indexed : db.indexed[m] \subseteq db.docs
        BY DEF LifeIInv, Housed
      <4>4. Spared = {} BY <3>3 DEF Spared
      <4>5. Uploading BY <2>4 DEF Uploading, Awaited, ClientIInv, Shaped, SecondProcess
      <4>6. db.docs \cap Stale = {} /\ "dummy" \notin db.docs BY <2>4, <4>4, <4>5 DEF LifeIInv, Renewed, Owned
      <4>7. db.docs \subseteq Corpus BY <4>6 DEF ClientIInv, Shaped, Documents
      <4>8. db.indexed[n] = db.docs BY <4>2, <4>3, <4>7
      <4>9. \A m \in DOMAIN db.indexed : m = n BY <3>3, <4>2, <4>3
      <4>10. AllIndexed BY <4>8, <4>9 DEF AllIndexed
      <4> QED BY <1>4, <4>10
    <3> QED BY <2>4, <3>1, <3>2, <3>3, <3>4 DEF Settles
  <2> QED BY <1>2, <1>3, <1>4, <2>1, <2>2, <2>3, <2>4, QuietKeeps
<1>9. CASE greens' = greens + 1 /\ UNCHANGED <<phase, todo, polls>> /\ seen
  <2>1. Now' = Now BY <1>9 DEF Now
  <2>2. Now.reads = "idle" => lull \/ AllIndexed BY <1>7, <1>9
  <2>3. Greens' BY <1>1, <1>2, <1>4, <1>9, <2>1, <2>2 DEF Greens
  <2> QED BY <1>6, <1>9, <2>3
<1>10. CASE Fail BY <1>3, <1>10, FailedKeeps
<1>11. CASE Proceed /\ Now.giveUp = "proceed"
  <2>1. Passed BY <1>1, <1>c, <1>11 DEF Proceed, Passed
  <2>2. Now.op \notin Requests BY <1>1 DEF Requests
  <2>3. ~Settles(engine, Now) /\ \A n : ~Builds(engine, Now, n) BY <1>1, <1>11 DEF Settles, Builds
  <2> QED BY <1>2, <1>3, <1>4, <2>1, <2>2, <2>3, QuietKeeps
<1>12. CASE greens' = 0 /\ UNCHANGED <<phase, todo>>
  <2>1. Greens' BY <1>12 DEF Greens
  <2> QED BY <1>6, <1>12, <2>1
<1> QED BY <1>5, <1>8, <1>9, <1>10, <1>11, <1>12

\* With no step left, a phase owes nothing, and the next one begins with its row.
LEMMA PhaseKeepsLife == ASSUME ClientIInv, LifeIInv, NextPhase PROVE LifeIInv'
<1>1. /\ phase \notin {"over", "failed", "hung"} /\ todo = <<>> /\ phase' = Following(phase) /\ todo' = StepsOf(phase')
      /\ UNCHANGED <<engine, db, greens, knows, left, unseen, foreign, restarted>>
  BY DEF NextPhase, Running
<1>2. DOMAIN todo = {} BY <1>1
<1>3. Housed' BY <1>1 DEF LifeIInv, Housed
<1>4. Greens' BY <1>1 DEF LifeIInv, Greens
<1>5. engine \in Engines /\ phase \in {"configure", "upload", "search", "delete"} BY <1>1 DEF ClientIInv, Shaped
<1>6. (Awaited' <=> Awaited) /\ Spared' = Spared /\ (StandIn' <=> StandIn) /\ (AllIndexed' <=> AllIndexed)
  BY <1>1 DEF Awaited, Spared, StandIn, AllIndexed
<1>7. CASE phase = "configure"
  <2>1. phase' = "upload" /\ todo' = engine.upload BY <1>1, <1>7, FollowingPhase DEF StepsOf
  <2>2. restarted = "no" BY <1>7 DEF ClientIInv, SecondProcess, Shaped
  <2>3. Uploading /\ Uploading' BY <1>1, <1>7, <2>1, <2>2 DEF Uploading
  <2>4. Ahead' BY <1>1, <1>5, <2>1, RowFacts DEF Ahead
  <2>5. Owned' BY <1>1, <1>2, <2>1, <2>3 DEF LifeIInv, Owned
  <2>6. Renewed' BY <1>1, <1>2, <1>6, <2>1, <2>3 DEF LifeIInv, Renewed
  <2>7. Uploaded' BY <1>1, <1>5, <2>1, RowFacts DEF Uploaded
  <2>8. Built' BY <1>1, <1>2, <1>6, <1>7, <2>1 DEF LifeIInv, Built
  <2>9. Covered'
    <3> SUFFICES ASSUME Awaited, ~AllIndexed PROVE \E i \in DOMAIN engine.upload : Settles(engine, engine.upload[i])
      BY <1>1, <1>6, <2>1 DEF Covered
    <3>1. engine.indexes # {} BY DEF LifeIInv, Housed, AllIndexed
    <3> QED BY <1>5, <3>1, RowFacts DEF Awaited
  <2>10. Gone' BY <2>1 DEF Gone
  <2> QED BY <1>3, <1>4, <2>4, <2>5, <2>6, <2>7, <2>8, <2>9, <2>10 DEF LifeIInv
<1>8. CASE phase = "upload"
  <2>1. phase' = "search" BY <1>1, <1>8, FollowingPhase
  <2>2. Uploading' <=> Uploading BY <1>1, <1>8, <2>1 DEF Uploading
  <2>3. Ahead' /\ Gone' BY <2>1 DEF Ahead, Gone
  <2>4. Owned' BY <1>1, <1>2, <1>8, <2>1, <2>2 DEF LifeIInv, Owned
  <2>5. Renewed' BY <1>1, <1>2, <1>6, <1>8, <2>1, <2>2 DEF LifeIInv, Renewed
  <2>6. Uploaded' BY <1>1, <1>2, <1>6, <1>8, <2>1, <2>2 DEF LifeIInv, Uploaded
  <2>7. Built' BY <1>1, <1>2, <1>6, <1>8, <2>1 DEF LifeIInv, Built
  <2>8. Covered' BY <1>1, <1>2, <1>6, <1>8, <2>1 DEF LifeIInv, Covered
  <2> QED BY <1>3, <1>4, <2>3, <2>4, <2>5, <2>6, <2>7, <2>8 DEF LifeIInv
<1>9. CASE phase = "search"
  <2>1. phase' = "delete" /\ todo' = engine.delete BY <1>1, <1>9, FollowingPhase DEF StepsOf
  <2>2. Ahead' BY <1>1, <1>5, <2>1, RowFacts DEF Ahead
  <2>3. engine.uses \subseteq knows BY <1>2, <1>9 DEF ClientIInv, Prepares
  <2>a. \A t : (Drops(t, engine.uses) => Drops(t, knows)) /\ (Takes(engine, t, engine.uses) => Takes(engine, t, knows))
    BY <2>3 DEF Drops, Takes
  <2>4. Gone'
    <3> SUFFICES ASSUME ~engine.reused
                 PROVE  /\ \E i \in DOMAIN engine.delete : Ends(engine.delete[i]) \/ Drops(engine.delete[i], knows)
                        /\ \/ engine.name = "redis_shared"
                           \/ \E i \in DOMAIN engine.delete : Ends(engine.delete[i]) \/ Takes(engine, engine.delete[i], knows)
      BY <1>1, <2>1 DEF Gone
    <3>1. \E i \in DOMAIN engine.delete : Ends(engine.delete[i]) \/ Drops(engine.delete[i], engine.uses)
      BY <1>5, RowFacts
    <3>2. \/ engine.name = "redis_shared"
          \/ \E i \in DOMAIN engine.delete : Ends(engine.delete[i]) \/ Takes(engine, engine.delete[i], engine.uses)
      BY <1>5, RowFacts
    <3> QED BY <2>a, <3>1, <3>2
  <2> QED BY <1>3, <1>4, <2>1, <2>2, <2>4 DEF LifeIInv, Uploading, Owned, Renewed, Uploaded, Built, Covered
<1>10. CASE phase = "delete"
  <2>1. phase' = "over" /\ todo' = <<>> BY <1>1, <1>10, FollowingPhase DEF StepsOf
  <2>2. Ahead' BY <2>1 DEF Ahead
  <2>3. Gone' BY <1>1, <1>2, <1>10 DEF LifeIInv, Gone
  <2> QED BY <1>3, <1>4, <2>1, <2>2, <2>3 DEF LifeIInv, Uploading, Owned, Renewed, Uploaded, Built, Covered
<1> QED BY <1>5, <1>7, <1>8, <1>9, <1>10

\* A second process inherits the indexes of the first.
LEMMA RestartKeepsLife == ASSUME ClientIInv, LifeIInv, Restart PROVE LifeIInv'
<1>1. /\ restarted = "no" /\ phase' = "search" /\ greens' = 0 /\ UNCHANGED <<engine, db, unseen>>
      /\ restarted' = IF phase = "failed" THEN "afterFailure" ELSE "afterOk"
      /\ phase \in {"search", "failed"}
  BY DEF Restart
<1>2. Housed' BY <1>1 DEF LifeIInv, Housed
<1>3. restarted' # "no" /\ (restarted' # "afterFailure" => phase = "search" /\ restarted # "afterFailure") BY <1>1
<1>4. Ahead' /\ Greens' /\ Gone' BY <1>1 DEF Ahead, Greens, Gone
<1>5. Owned' /\ Renewed' /\ Uploaded' BY <1>3 DEF Owned, Renewed, Uploaded, Uploading
<1>6. Built' BY <1>1, <1>3 DEF LifeIInv, Built, Awaited
<1>7. Covered' BY <1>1, <1>3 DEF LifeIInv, Covered, Awaited, AllIndexed
<1> QED BY <1>2, <1>4, <1>5, <1>6, <1>7 DEF LifeIInv

\* The server's own work adds documents that are there to indexes that lack them.
LEMMA WorkKeepsLife == ASSUME LifeIInv, Work \/ Opened PROVE LifeIInv'
<1>1. UNCHANGED <<engine, phase, todo, polls, greens, knows, left, unseen, foreign, restarted>> BY DEF Work, Opened
<1>2. /\ DOMAIN db = DbFields /\ DOMAIN db.indexed \subseteq engine.indexes
      /\ \A n \in DOMAIN db.indexed : db.indexed[n] \subseteq db.docs
      /\ DOMAIN db.indexed # {} => db.coll
      /\ ~engine.keyed => (db.coll \/ db.docs = {}) /\ (db.open => db.coll /\ "vector" \in DOMAIN db.indexed)
  BY DEF LifeIInv, Housed
<1>3. /\ db'.docs = db.docs /\ db'.coll = db.coll /\ db'.lulled = db.lulled /\ DOMAIN db'.indexed = DOMAIN db.indexed
      /\ AllIndexed => AllIndexed'
      /\ Housed'
  <2>1. CASE Work
    <3>1. PICK n \in DOMAIN db.indexed : \E d \in db.docs \ db.indexed[n] : db' = [db EXCEPT !.indexed[n] = @ \cup {d}]
      BY <2>1 DEF Work
    <3>2. PICK d \in db.docs \ db.indexed[n] : db' = [db EXCEPT !.indexed[n] = @ \cup {d}] BY <3>1
    <3>3. db' = [db EXCEPT !.indexed = [db.indexed EXCEPT ![n] = db.indexed[n] \cup {d}]] BY <1>2, <3>2 DEF DbFields
    <3>4. /\ DOMAIN db' = DbFields /\ db'.docs = db.docs /\ db'.coll = db.coll /\ db'.lulled = db.lulled /\ db'.open = db.open
          /\ db'.indexed = [db.indexed EXCEPT ![n] = db.indexed[n] \cup {d}]
      BY <1>2, <3>3 DEF DbFields
    <3>5. /\ DOMAIN db'.indexed = DOMAIN db.indexed /\ db'.indexed[n] = db.indexed[n] \cup {d}
          /\ \A m \in DOMAIN db.indexed : m # n => db'.indexed[m] = db.indexed[m]
      BY <3>4
    <3>6. AllIndexed => AllIndexed'
      <4> SUFFICES ASSUME AllIndexed, NEW m \in DOMAIN db.indexed PROVE db'.indexed[m] = db.docs \/ m \in unseen
        BY <1>1, <3>4, <3>5 DEF AllIndexed
      <4>1. CASE m = n BY <3>2, <4>1 DEF AllIndexed
      <4>2. CASE m # n BY <3>5, <4>2 DEF AllIndexed
      <4> QED BY <4>1, <4>2
    <3>7. \A m \in DOMAIN db'.indexed : db'.indexed[m] \subseteq db'.docs
      <4> SUFFICES ASSUME NEW m \in DOMAIN db.indexed PROVE db'.indexed[m] \subseteq db.docs BY <3>4, <3>5
      <4>1. CASE m = n BY <1>2, <3>2, <3>5, <4>1
      <4>2. CASE m # n BY <1>2, <3>5, <4>2
      <4> QED BY <4>1, <4>2
    <3>8. Housed' BY <1>1, <1>2, <3>4, <3>5, <3>7 DEF Housed
    <3> QED BY <3>4, <3>5, <3>6, <3>8
  <2>2. CASE Opened
    <3>1. db' = [db EXCEPT !.open = TRUE] /\ "vector" \in DOMAIN db.indexed BY <2>2 DEF Opened
    <3>2. /\ DOMAIN db' = DbFields /\ db'.docs = db.docs /\ db'.coll = db.coll /\ db'.lulled = db.lulled
          /\ db'.indexed = db.indexed
      BY <1>2, <3>1 DEF DbFields
    <3>3. Housed' BY <1>1, <1>2, <3>1, <3>2 DEF Housed
    <3> QED BY <1>1, <3>2, <3>3 DEF AllIndexed
  <2> QED BY <2>1, <2>2
<1>4. /\ (Uploading' <=> Uploading) /\ (Awaited' <=> Awaited) /\ Now' = Now
      /\ Spared' = Spared /\ (StandIn' <=> StandIn)
  BY <1>1 DEF Uploading, Awaited, Spared, StandIn, Now
<1>5. Ahead' BY <1>1 DEF LifeIInv, Ahead
<1>6. Owned' /\ Renewed' /\ Uploaded' BY <1>1, <1>3, <1>4 DEF LifeIInv, Owned, Renewed, Uploaded
<1>7. Built' BY <1>1, <1>3, <1>4 DEF LifeIInv, Built
<1>8. Covered' BY <1>1, <1>3, <1>4 DEF LifeIInv, Covered
<1>9. Greens' BY <1>1, <1>3, <1>4 DEF LifeIInv, Greens
<1>10. Gone' BY <1>1, <1>3 DEF LifeIInv, Gone
<1> QED BY <1>3, <1>5, <1>6, <1>7, <1>8, <1>9, <1>10 DEF LifeIInv

\* A run finds nothing, the collection of an earlier one, or its keys.
LEMMA InitLife == Init => LifeIInv
<1> SUFFICES ASSUME Init PROVE LifeIInv OBVIOUS
<1>1. /\ engine \in Engines /\ todo = engine.configure /\ phase = "configure" /\ restarted = "no" /\ greens = 0
      /\ foreign = db.docs \cap Stale /\ (engine.own => db = Empty)
  BY DEF Init
<1>2. PICK ds \in {{"a"}, {"a", "x"}, {"a", "b"}} : db \in {Empty} \cup Left(engine, ds) BY DEF Init
<1>3. /\ DOMAIN Empty = DbFields /\ Empty.docs = {} /\ Empty.coll = FALSE /\ Empty.open = FALSE /\ DOMAIN Empty.indexed = {}
  <2>1. Empty.indexed = <<>> /\ DOMAIN <<>> = {} BY DEF Empty
  <2> QED BY <2>1 DEF Empty, DbFields
<1> DEFINE whole == [Empty EXCEPT !.coll = TRUE, !.docs = ds, !.indexed = [n \in engine.indexes |-> ds]]
           keys  == [Empty EXCEPT !.docs = ds]
<1>4. db \in {Empty, whole} \/ (db = keys /\ engine.keyed) BY <1>2 DEF Left
<1>5. /\ DOMAIN whole = DbFields /\ whole.docs = ds /\ whole.coll = TRUE /\ whole.open = FALSE
      /\ whole.indexed = [n \in engine.indexes |-> ds]
  BY <1>3 DEF DbFields
<1>6. /\ DOMAIN keys = DbFields /\ keys.docs = ds /\ keys.coll = FALSE /\ keys.open = FALSE /\ DOMAIN keys.indexed = {}
  BY <1>3 DEF DbFields
<1> HIDE DEF whole, keys
<1>7. Housed
  <2>1. CASE db = Empty BY <1>3, <2>1 DEF Housed
  <2>2. CASE db = whole BY <1>5, <2>2 DEF Housed
  <2>3. CASE db = keys /\ engine.keyed BY <1>6, <2>3 DEF Housed
  <2> QED BY <1>4, <2>1, <2>2, <2>3
<1>8. "dummy" \notin db.docs
  <2>1. "dummy" \notin ds OBVIOUS
  <2> QED BY <1>3, <1>4, <1>5, <1>6, <2>1
<1>9. Ahead BY <1>1, RowFacts DEF Ahead
<1>10. Owned BY <1>1, <1>8 DEF Owned
<1>11. Renewed
  <2>1. engine.own => db.docs = {} BY <1>1, <1>3
  <2>2. (engine.reused \/ engine.name = "redis_shared") => Spared = foreign BY Zenon DEF Spared
  <2> QED BY <1>1, <2>1, <2>2, RowFacts DEF Renewed
<1>12. Built BY <1>1, RowFacts DEF Built, Awaited
<1>13. Uploaded /\ Covered /\ Greens /\ Gone BY <1>1 DEF Uploaded, Covered, Greens, Gone
<1> QED BY <1>7, <1>9, <1>10, <1>11, <1>12, <1>13 DEF LifeIInv

LEMMA LifeStep == ASSUME ClientIInv, LifeIInv, [Next]_vars PROVE LifeIInv'
<1>1. CASE \E fate \in Fates : Request(fate) BY <1>1, RequestKeepsLife
<1>2. CASE LearnFacts \/ Skip \/ \E fate \in Fates : LearnFromServer(fate) \/ ReusePrecondition(fate)
  BY <1>2, LearnKeepsLife
<1>3. CASE \E fate \in Fates : Reuse(fate) BY <1>3, ReuseKeepsLife
<1>4. CASE \E answered, lull \in BOOLEAN, hidden \in SUBSET engine.indexes : Poll(answered, lull, hidden)
  BY <1>4, PollKeepsLife
<1>5. CASE NextPhase BY <1>5, PhaseKeepsLife
<1>6. CASE Restart BY <1>6, RestartKeepsLife
<1>7. CASE Work \/ Opened BY <1>7, WorkKeepsLife
<1>8. CASE UNCHANGED vars
  <2>1. UNCHANGED <<engine, db, phase, todo, greens, knows, left, unseen, foreign, restarted>> BY <1>8 DEF vars
  <2>2. Housed' /\ Ahead' BY <2>1 DEF LifeIInv, Housed, Ahead
  <2>3. Owned' /\ Renewed' /\ Uploaded' BY <2>1 DEF LifeIInv, Owned, Renewed, Uploaded, Uploading, Spared, StandIn
  <2>4. Built' /\ Covered' BY <2>1 DEF LifeIInv, Built, Covered, Awaited, AllIndexed
  <2>5. Greens' /\ Gone' BY <2>1 DEF LifeIInv, Greens, Gone, AllIndexed, Now
  <2> QED BY <2>2, <2>3, <2>4, <2>5 DEF LifeIInv
<1>9. CASE Hang
  <2>1. phase' = "hung" /\ UNCHANGED <<engine, db, todo, greens, unseen>> BY <1>9 DEF Hang
  <2>2. Housed' BY <2>1 DEF LifeIInv, Housed
  <2>3. Greens' BY <2>1 DEF LifeIInv, Greens, AllIndexed, Now
  <2>4. Ahead' /\ Owned' /\ Renewed' /\ Uploaded' /\ Built' /\ Covered' /\ Gone'
    BY <2>1 DEF Ahead, Owned, Renewed, Uploaded, Built, Covered, Gone, Uploading
  <2> QED BY <2>2, <2>3, <2>4 DEF LifeIInv
<1> QED BY <1>1, <1>2, <1>3, <1>4, <1>5, <1>6, <1>7, <1>8, <1>9 DEF Next, Client, Done

\* Over every engine whose rows keep to RowsAssumption, every deadline and every
\* fate of every request, in both processes.
THEOREM LifeInvariance == Spec => []LifeIInv
BY InitLife, LifeStep, ClientInvariance, PTL DEF Spec

\* A search runs over all the documents of its dataset; one of another is among
\* them only as what a tolerated removal left, or where the operator put both;
\* and of a deleted engine only what a tolerated removal left is still there.
THEOREM CorpusIsOwn == Spec => []NoStaleCorpus
<1>1. ClientIInv /\ LifeIInv => NoStaleCorpus
  <2> SUFFICES ASSUME ClientIInv, LifeIInv PROVE NoStaleCorpus OBVIOUS
  <2>1. ASSUME Searching, restarted = "no"
        PROVE  db.docs \subseteq Corpus \cup Spared /\ (Corpus \subseteq db.docs \/ StandIn)
    <3>1. Uploading /\ phase = "search" /\ todo = <<>> /\ DOMAIN todo = {} BY <2>1 DEF Uploading, Searching
    <3>2. db.docs \cap Stale \subseteq Spared /\ "dummy" \notin db.docs BY <3>1 DEF LifeIInv, Owned, Renewed
    <3>3. Corpus \subseteq db.docs \/ StandIn BY <3>1 DEF LifeIInv, Uploaded
    <3>4. db.docs \subseteq Corpus \cup Spared BY <3>2 DEF ClientIInv, Shaped, Documents
    <3> QED BY <3>3, <3>4
  <2>2. ASSUME phase = "over", ~engine.reused
        PROVE  /\ db.coll => "collection" \in left
               /\ db.docs \subseteq left \/ engine.name = "redis_shared"
    <3>1. DOMAIN todo = {} BY <2>2 DEF LifeIInv, Ahead
    <3> QED BY <2>2, <3>1 DEF LifeIInv, Gone
  <2> QED BY <2>1, <2>2 DEF NoStaleCorpus, StandIn
<1> QED BY <1>1, ClientInvariance, LifeInvariance, PTL

LEMMA LifeReady == LifeIInv => OkMeansIndexed
<1> SUFFICES ASSUME LifeIInv, phase = "search", todo = <<>>, Awaited
             PROVE  /\ engine.indexes \subseteq DOMAIN db.indexed
                    /\ \A n \in DOMAIN db.indexed : db.indexed[n] = db.docs \/ n \in unseen
  BY DEF OkMeansIndexed, Searching, Awaited
<1>1. DOMAIN todo = {} OBVIOUS
<1> QED BY <1>1 DEF LifeIInv, Built, Covered, AllIndexed

-----------------------------------------------------------------------------
\* The three together, as the run has them.

\* One of them moves, and the others are where a failed one stops.
SideBySide ==
  /\ \/ part = "lifecycle" /\ ClientIInv /\ LifeIInv
     \/ part # "lifecycle" /\ LifecycleOff
  /\ \/ part = "lucene" /\ LuceneIInv
     \/ part # "lucene" /\ LuceneOff
  /\ \/ part = "wait" /\ WaitIInv
     \/ part # "wait" /\ WaitOff

LEMMA SideBySideStep == ASSUME SideBySide, [MCNext]_mcVars PROVE SideBySide'
<1>1. CASE Alone("lifecycle") /\ Next
  <2>1. part = "lifecycle" /\ part' = part /\ UNCHANGED luceneVars /\ UNCHANGED waitVars BY <1>1 DEF Alone
  <2>2. ClientIInv' /\ LifeIInv' BY <1>1, <2>1, ClientStep, LifeStep DEF SideBySide
  <2>3. LuceneOff' BY <2>1 DEF SideBySide, LuceneOff, luceneVars, cluster
  <2>4. WaitOff' BY <2>1 DEF SideBySide, WaitOff, waitVars, serverVars
  <2> QED BY <2>1, <2>2, <2>3, <2>4 DEF SideBySide
<1>2. CASE Alone("lucene") /\ LuceneNext
  <2>1. part = "lucene" /\ part' = part /\ UNCHANGED vars /\ UNCHANGED waitVars BY <1>2 DEF Alone
  <2>2. LuceneIInv' BY <1>2, <2>1, LuceneStep DEF SideBySide
  <2>3. LifecycleOff' BY <2>1 DEF SideBySide, LifecycleOff, vars
  <2>4. WaitOff' BY <2>1 DEF SideBySide, WaitOff, waitVars, serverVars
  <2> QED BY <2>1, <2>2, <2>3, <2>4 DEF SideBySide
<1>3. CASE Alone("wait") /\ WaitNext
  <2>1. part = "wait" /\ part' = part /\ UNCHANGED vars /\ UNCHANGED luceneVars BY <1>3 DEF Alone
  <2>2. WaitIInv' BY <1>3, <2>1, WaitStep DEF SideBySide
  <2>3. LifecycleOff' BY <2>1 DEF SideBySide, LifecycleOff, vars
  <2>4. LuceneOff' BY <2>1 DEF SideBySide, LuceneOff, luceneVars, cluster
  <2> QED BY <2>1, <2>2, <2>3, <2>4 DEF SideBySide
<1>4. CASE UNCHANGED mcVars
  <2>1. part' = part /\ UNCHANGED vars /\ UNCHANGED luceneVars /\ UNCHANGED waitVars BY <1>4 DEF mcVars
  <2>2. ClientIInv /\ LifeIInv => ClientIInv' /\ LifeIInv' BY <2>1, ClientStep, LifeStep
  <2>3. LuceneIInv => LuceneIInv' BY <2>1, LuceneStep
  <2>4. WaitIInv => WaitIInv' BY <2>1, WaitStep
  <2>5. LifecycleOff => LifecycleOff' BY <2>1 DEF LifecycleOff, vars
  <2>6. LuceneOff => LuceneOff' BY <2>1 DEF LuceneOff, luceneVars, cluster
  <2>7. WaitOff => WaitOff' BY <2>1 DEF WaitOff, waitVars, serverVars
  <2> QED BY <2>1, <2>2, <2>3, <2>4, <2>5, <2>6, <2>7 DEF SideBySide
<1> QED BY <1>1, <1>2, <1>3, <1>4 DEF MCNext

\* What the index phase says of the index is so, whatever is lost, refused or
\* restarted on the way, for every engine, every retry budget and every window.
THEOREM ReadinessIsEarned == MCSpec => []ReadinessVerdict
<1>1. MCInit => SideBySide
  <2>1. Init => ClientIInv /\ LifeIInv BY InitClient, InitLife
  <2> QED BY <2>1, InitLucene, InitWait DEF MCInit, SideBySide
<1>2. SideBySide => ReadinessVerdict
  <2> SUFFICES ASSUME SideBySide PROVE ReadinessVerdict OBVIOUS
  <2>1. OkMeansIndexed
    <3>1. CASE LifeIInv BY <3>1, LifeReady
    <3>2. CASE LifecycleOff BY <3>2 DEF LifecycleOff, OkMeansIndexed, Searching
    <3> QED BY <3>1, <3>2 DEF SideBySide
  <2>2. OkMeansSettled
    <3>1. CASE LuceneIInv BY <3>1 DEF LuceneIInv, LuceneTypeOK, Staged, OkMeansSettled
    <3>2. CASE LuceneOff BY <3>2 DEF LuceneOff, OkMeansSettled
    <3> QED BY <3>1, <3>2 DEF SideBySide
  <2>3. OkMeansBuilt /\ NoPrematureGiveUp
    <3>1. CASE WaitIInv BY <3>1 DEF WaitIInv
    <3>2. CASE WaitOff BY <3>2 DEF WaitOff, OkMeansBuilt, NoPrematureGiveUp
    <3> QED BY <3>1, <3>2 DEF SideBySide
  <2> QED BY <2>1, <2>2, <2>3 DEF ReadinessVerdict
<1> QED BY <1>1, <1>2, SideBySideStep, PTL DEF MCSpec

=============================================================================
