---------------------------- MODULE MCIndexPhase ----------------------------
(***************************************************************************)
(* From configure() to the first query, and on to delete(): the requests   *)
(* of every engine, the FT.INFO wait of the Redis family inside its        *)
(* upload, and the index phase of OpenSearch and Elasticsearch.  They meet *)
(* different servers and are explored side by side; `part` says which one  *)
(* moves, and the others stay where a failed one stops.                    *)
(***************************************************************************)
EXTENDS LifecycleEngines, LuceneIndex, IndexingWait

VARIABLE part
mcVars == <<part, vars, luceneVars, waitVars>>

MCEngines == {Qdrant, Milvus, Weaviate, Chroma, Turbopuffer, Mongo, Pgvector, Redis, RedisShared, Valkey,
              Dragonfly, Kividb, VectorSets, Vertex, VertexReused, VertexBatch, RedisReduced} \cup QdrantVariants

LifecycleOff ==
  /\ engine = Chroma /\ db = Empty /\ phase = "failed" /\ todo = <<>> /\ polls = 0 /\ greens = 0
  /\ knows = {} /\ left = {} /\ unseen = {} /\ foreign = {} /\ restarted = "no"

LuceneOff ==
  /\ product = "opensearch" /\ budget = TRUE /\ index = "absent" /\ segments = "none" /\ searcher = "none"
  /\ submitted = 0 /\ finished = 0 /\ broken = {} /\ pc = "delete" /\ attempt = 0 /\ task = 0 /\ result = "err"

WaitOff ==
  /\ dialect = "redis" /\ override = 0 /\ known = 0 /\ built = 0 /\ compacting = FALSE /\ server = "lost"
  /\ connected = FALSE /\ now = 0 /\ wakeAt = 0 /\ outageSince = -1 /\ outcome = "error"
  /\ lastAnswer = 0 /\ builtAtOk = TRUE

MCInit ==
  \/ part = "lifecycle" /\ Init /\ LuceneOff /\ WaitOff
  \/ part = "lucene" /\ LifecycleOff /\ LuceneInit /\ WaitOff
  \/ part = "wait" /\ LifecycleOff /\ LuceneOff /\ WaitInit

Alone(p) ==
  /\ part = p /\ UNCHANGED part
  /\ p = "lifecycle" \/ UNCHANGED vars
  /\ p = "lucene" \/ UNCHANGED luceneVars
  /\ p = "wait" \/ UNCHANGED waitVars

MCNext ==
  \/ Alone("lifecycle") /\ Next
  \/ Alone("lucene") /\ LuceneNext
  \/ Alone("wait") /\ WaitNext

(* the fairness of the three specifications *)
MCSpec ==
  /\ MCInit /\ [][MCNext]_mcVars
  /\ WF_mcVars(Alone("lifecycle") /\ Client)
  /\ WF_mcVars(Alone("lucene") /\ LuceneClient) /\ WF_mcVars(Alone("lucene") /\ Merge)
  /\ WF_mcVars(Alone("wait") /\ Tick) /\ WF_mcVars(Alone("wait") /\ PollOnce)

(* What the index phase says of the index is so.  Ok means that every      *)
(* document uploaded is in every index the search goes through (for        *)
(* Milvus, in every index the wait was shown), whichever requests or       *)
(* answers were lost and whichever restarts the wait rode out; that        *)
(* OpenSearch's queries see the one merged segment and Elasticsearch's     *)
(* every document, and that no merge is left running beside the            *)
(* measurement.  And a server is called unreachable only after a whole     *)
(* window of silence, or with the budget spent.                            *)
ReadinessVerdict == OkMeansIndexed /\ OkMeansSettled /\ OkMeansBuilt /\ NoPrematureGiveUp

(* Every phase and every wait ends, whatever the server does: each retry   *)
(* is counted and each wait has a deadline.  What the code does not bound  *)
(* is a request to a silent server by a client that sets no time limit:    *)
(* only in those engines, and in Redis's FT.INFO poll, can a run hang.     *)
Terminates ==
  <>[](/\ phase \in {"over", "failed"} \/ (phase = "hung" /\ ~engine.bounded)
       /\ ~Underway
       /\ outcome \notin {"waiting", "hung"} \/ (outcome = "hung" /\ dialect \in {"redis", "uncounted"}))

=============================================================================
