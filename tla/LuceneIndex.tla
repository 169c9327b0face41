----------------------------- MODULE LuceneIndex -----------------------------
(***************************************************************************)
(* configure() and the index phase of upload() of the OpenSearch and       *)
(* Elasticsearch engines: drop the old index, create the new one, load it, *)
(* then merge it into one segment and make that segment the one queries    *)
(* see, against a cluster that sheds load, denies, drops connections and   *)
(* goes on working for clients that are no longer there.                   *)
(*                                                                         *)
(* The cluster is external.  That it runs the merges of an index one after *)
(* the other is what the comments in the engines record.  OpenSearch does  *)
(* not reopen its searcher after a merge; Elasticsearch has been seen to,  *)
(* and does not promise it, so here it may or may not.                     *)
(***************************************************************************)
EXTENDS Naturals

CONSTANTS MaxRetries, Budgeted

ASSUME IndexAssumption == MaxRetries \in Nat /\ Budgeted \subseteq BOOLEAN

VARIABLES
  product, budget,   \* budget: OPENSEARCH_FORCE_MERGE_BUDGET is not unlimited
  \* the cluster
  index,        \* "absent", "old" (an earlier configuration's) or "fresh"
  segments,     \* of the committed index: "none", "many" or "one"
  searcher,     \* of what queries see
  submitted, finished, broken,   \* merges: accepted, done, done with a failed shard
  \* the client
  pc, attempt,
  task,         \* the merge it waits for
  result

cluster == <<index, segments, searcher, submitted, finished, broken>>
luceneVars    == <<product, budget, cluster, pc, attempt, task, result>>

Stages == {"delete", "create", "upload", "refresh", "submit", "await", "health"}

\* What may become of a request: an answer; a 429, 502, 503, 504 or a block that
\* will lift; a refusal for good; no answer, the request having arrived or not.
RequestFates == {"answered", "transient", "denied", "lost", "unanswered"}
Arrives(fate) == fate \in {"answered", "unanswered"}

LuceneInit ==
  /\ product \in {"opensearch", "elasticsearch"} /\ budget \in Budgeted
  /\ index \in {"absent", "old"} /\ segments = "none" /\ searcher = "none"
  /\ submitted = 0 /\ finished = 0 /\ broken = {}
  /\ pc = "delete" /\ attempt = 0 /\ task = 0 /\ result = "none"

Underway == result = "none"
AtStage(stage) == Underway /\ pc = stage

\* The order of the stages: OpenSearch refreshes after the merge.
Then(stage) ==
  CASE stage = "delete"  -> "create"
    [] stage = "create"  -> "upload"
    [] stage = "upload"  -> IF product = "opensearch" THEN "submit" ELSE "refresh"
    [] stage = "refresh" -> IF product = "opensearch" THEN "health" ELSE "submit"
    [] stage = "submit"  -> "await"
    [] stage = "await"   -> IF product = "opensearch" THEN "refresh" ELSE "health"
    [] stage = "health"  -> "done"

NextStage ==
  /\ pc' = Then(pc) /\ attempt' = 0
  /\ result' = IF Then(pc) = "done" THEN "ok" ELSE result

GiveUp == result' = "err" /\ UNCHANGED <<pc, attempt>>

\* The attempts of one operation are counted; an attempt begins at `stage`.
Retry(stage) ==
  IF attempt >= MaxRetries THEN GiveUp
  ELSE pc' = stage /\ attempt' = attempt + 1 /\ UNCHANGED result

\* Elasticsearch retries nothing while it configures, and everything afterwards.
Retried(fate) ==
  IF product = "elasticsearch" THEN pc \notin {"delete", "create"}
  ELSE fate # "denied"

Trouble(fate) ==
  IF Retried(fate) THEN Retry(IF product = "elasticsearch" /\ pc = "await" THEN "submit" ELSE pc)
  ELSE GiveUp

-----------------------------------------------------------------------------
\* configure().

\* delete_index: a 404 is fine.
DeleteIndex(fate) ==
  /\ AtStage("delete")
  /\ index' = IF Arrives(fate) THEN "absent" ELSE index
  /\ IF fate = "answered" THEN NextStage ELSE Trouble(fate)
  /\ UNCHANGED <<product, budget, segments, searcher, submitted, finished, broken, task>>

\* create_index: resource_already_exists_exception is not worth a retry.
CreateIndex(fate) ==
  /\ AtStage("create")
  /\ index' = IF Arrives(fate) /\ index = "absent" THEN "fresh" ELSE index
  /\ IF fate # "answered" THEN Trouble(fate)
     ELSE IF index = "absent" THEN NextStage ELSE GiveUp
  /\ UNCHANGED <<product, budget, segments, searcher, submitted, finished, broken, task>>

-----------------------------------------------------------------------------
\* upload(): the batches (UploadWorkers), and then the index phase.

Upload ==
  /\ AtStage("upload")
  /\ segments' = "many"
  /\ NextStage
  /\ UNCHANGED <<product, budget, index, searcher, submitted, finished, broken, task>>

UploadFails ==
  /\ AtStage("upload")
  /\ GiveUp
  /\ UNCHANGED <<product, budget, cluster, task>>

Refresh(fate) ==
  /\ AtStage("refresh")
  /\ searcher' = IF Arrives(fate) THEN segments ELSE searcher
  /\ IF fate = "answered" THEN NextStage ELSE Trouble(fate)
  /\ UNCHANGED <<product, budget, index, segments, submitted, finished, broken, task>>

\* The merge is submitted.  OpenSearch answers with a task; the request of
\* Elasticsearch stays open until the merge ends or the client's timeout.
Submit(fate) ==
  /\ AtStage("submit")
  /\ submitted' = IF Arrives(fate) THEN submitted + 1 ELSE submitted
  /\ IF fate = "answered"
     THEN /\ task' = submitted' /\ pc' = "await"
          /\ attempt' = IF product = "opensearch" THEN 0 ELSE attempt
          /\ UNCHANGED result
     ELSE Trouble(fate) /\ UNCHANGED task
  /\ UNCHANGED <<product, budget, index, segments, searcher, finished, broken>>

MergeOver == task <= finished

\* task_complete wants every shard to have succeeded.  Of Elasticsearch's answer only
\* the HTTP status is looked at, which may be a success although a shard failed.
TaskComplete == MergeOver /\ (product = "opensearch" => task \notin broken)
TaskFailed == MergeOver /\ task \in broken

\* OpenSearch polls: a healthy, unfinished task is not a failed attempt.
AwaitMerge(fate) ==
  /\ AtStage("await")
  /\ \/ fate # "answered" /\ Trouble(fate)
     \/ fate = "answered" /\ TaskComplete /\ NextStage
     \/ fate = "answered" /\ TaskFailed /\ IF product = "opensearch" THEN GiveUp ELSE Trouble("transient")
     \/ fate = "answered" /\ ~MergeOver /\ product = "opensearch" /\ attempt' = 0 /\ UNCHANGED <<pc, result>>
  /\ UNCHANGED <<product, budget, cluster, task>>

\* tokio::time::timeout around submission and polling.
Expire ==
  /\ product = "opensearch" /\ budget /\ Underway /\ pc \in {"submit", "await"}
  /\ GiveUp
  /\ UNCHANGED <<product, budget, cluster, task>>

\* wait_for_cluster_health: OpenSearch goes on when it may not ask; a cluster
\* that has not settled yet counts as transient.
Health(fate) ==
  /\ AtStage("health")
  /\ IF fate = "answered" \/ (fate = "denied" /\ product = "opensearch") THEN NextStage
     ELSE Trouble(fate)
  /\ UNCHANGED <<product, budget, cluster, task>>

LuceneClient ==
  \/ \E fate \in RequestFates : \/ DeleteIndex(fate) \/ CreateIndex(fate) \/ Refresh(fate)
                         \/ Submit(fate) \/ AwaitMerge(fate) \/ Health(fate)
  \/ Upload \/ UploadFails \/ Expire

\* The cluster gets on with the merges, whether or not somebody waits.
Merge ==
  /\ finished < submitted
  /\ finished' = finished + 1
  /\ \/ segments' = "one" /\ UNCHANGED broken
        /\ searcher' \in {searcher} \cup IF product = "elasticsearch" THEN {"one"} ELSE {}
     \/ broken' = broken \cup {finished'} /\ UNCHANGED <<segments, searcher>>
  /\ UNCHANGED <<product, budget, index, submitted, pc, attempt, task, result>>

LuceneDone == ~Underway /\ UNCHANGED luceneVars

LuceneNext == LuceneClient \/ Merge \/ LuceneDone

\* Requests are answered or time out, and merges end.
LuceneSpec == LuceneInit /\ [][LuceneNext]_luceneVars /\ WF_luceneVars(LuceneClient) /\ WF_luceneVars(Merge)

-----------------------------------------------------------------------------
\* Properties.

LuceneTypeOK ==
  /\ product \in {"opensearch", "elasticsearch"} /\ budget \in BOOLEAN
  /\ index \in {"absent", "old", "fresh"}
  /\ segments \in {"none", "many", "one"} /\ searcher \in {"none", "many", "one"}
  /\ submitted \in 0..(MaxRetries + 1) /\ finished \in 0..submitted
  /\ broken \subseteq 1..finished /\ task \in 0..submitted
  /\ pc \in Stages \cup {"done"} /\ attempt \in 0..MaxRetries
  /\ result \in {"none", "ok", "err"}

\* The search phase starts only over an index this run created, all of which the
\* queries see, and on a cluster that is not still merging for a request whose answer
\* was lost.  OpenSearch's queries see it as the one merged segment (#210);
\* Elasticsearch's may still go through the segments there were before the merge, which
\* comes after the refresh and answers for no shard.
OkMeansSettled ==
  result = "ok" =>
    /\ index = "fresh" /\ finished = submitted
    /\ IF product = "opensearch" THEN searcher = "one" ELSE searcher # "none"

=============================================================================
