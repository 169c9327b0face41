----------------------------- MODULE HybridRrf -----------------------------
(***************************************************************************)
(* Runs of the hybrid-rrf workload against one server.  On OpenSearch the  *)
(* fusion is done by a search pipeline that the run creates, checks and    *)
(* removes, and that another run of the same config, in another process,   *)
(* creates and removes too.  On Redis FT.HYBRID carries the constant.      *)
(*   pipes  the server's pipelines: the rank constant of each, or NoPipe   *)
(*   rrf    the runs                                                       *)
(***************************************************************************)
EXTENDS Naturals, FiniteSets

CONSTANTS Clients, \* processes
          RrfSpecs, \* search configs: config name, rank constant, top, window, ef, totals
          RrfQueries, \* timed queries of one run
          NoPipe

VARIABLES rrfServer, pipes, rrf
rrfVars == <<rrfServer, pipes, rrf>>

RrfServers == [engine : {"redis", "opensearch"}, serverSide : BOOLEAN, shards : {1, 2}, cluster : BOOLEAN]

(* mistake: one pipeline for every constant of a config *)
PipelineNamedByConfig(s) == <<s.config, 0>>

OpensearchPipelineName(s) == <<s.config, s.k>>

(* startup: the fused page comes out of the window, which ef must reach *)
CheckParams(s) == s.top <= s.window /\ s.ef >= s.window
CheckTextSpec(s) == s.totals # "exact"
CheckRedisDeployment == rrfServer.engine = "redis" => ~rrfServer.cluster

NoRun == [stage |-> "idle", spec |-> NoPipe, pages |-> {}, failed |-> FALSE]

RrfInit ==
  /\ rrfServer \in {s \in RrfServers : s.cluster => s.engine = "redis"}
  /\ pipes = [n \in {OpensearchPipelineName(s) : s \in RrfSpecs} |-> NoPipe]
  /\ rrf = [c \in Clients |-> NoRun]

Become(c, stage) == rrf' = [rrf EXCEPT ![c].stage = stage]

StartRrf(c, s) ==
  /\ rrf[c].stage = "idle"
  /\ CheckParams(s) /\ CheckTextSpec(s) /\ CheckRedisDeployment
  /\ rrf' = [rrf EXCEPT ![c] = [stage |-> "server", spec |-> s, pages |-> {}, failed |-> FALSE]]
  /\ UNCHANGED <<rrfServer, pipes>>

(* the version, and the shards behind the endpoint: one is required *)
CheckServer(c) ==
  /\ rrf[c].stage = "server"
  /\ Become(c, IF rrfServer.shards # 1 \/ (rrfServer.engine = "opensearch" /\ ~rrfServer.serverSide) THEN "failed"
               ELSE IF rrfServer.engine = "opensearch" THEN "put" ELSE "reference")
  /\ UNCHANGED <<rrfServer, pipes>>

PutPipeline(c) ==
  LET s == rrf[c].spec
  IN  /\ rrf[c].stage = "put"
      /\ \/ pipes' = [pipes EXCEPT ![OpensearchPipelineName(s)] = s.k] /\ Become(c, "check")
         \/ UNCHANGED pipes /\ Become(c, "failed")
      /\ UNCHANGED rrfServer

(* read back; a pipeline that fails the check is left on the server *)
CheckPipeline(c) ==
  LET s == rrf[c].spec
  IN  /\ rrf[c].stage = "check"
      /\ Become(c, IF pipes[OpensearchPipelineName(s)] = s.k THEN "reference" ELSE "failed")
      /\ UNCHANGED <<rrfServer, pipes>>

(* the constant the server fuses the run's next query with *)
FusedWith(c) ==
  IF rrfServer.engine = "opensearch" THEN pipes[OpensearchPipelineName(rrf[c].spec)] ELSE rrf[c].spec.k

(* after a failure an OpenSearch run still drops its pipeline *)
Unwind(c) == IF rrfServer.engine = "opensearch" THEN "drop" ELSE "failed"

(* reference and probe, untimed, both checked *)
BuildRrfReference(c) ==
  /\ rrf[c].stage = "reference"
  /\ \E ok \in BOOLEAN :
       rrf' = [rrf EXCEPT ![c].stage = IF ok THEN "probe" ELSE Unwind(c), ![c].failed = ~ok]
  /\ UNCHANGED <<rrfServer, pipes>>

ProbeRrf(c) ==
  LET ok == FusedWith(c) # NoPipe /\ rrfServer.serverSide
  IN  /\ rrf[c].stage = "probe"
      /\ rrf' = [rrf EXCEPT ![c].stage = IF ok THEN "timed" ELSE Unwind(c), ![c].failed = ~ok]
      /\ UNCHANGED <<rrfServer, pipes>>

(* A timed query; a failure is kept with the outcomes and does not end the *)
(* loop.  A page of another constant may still lie on the score lattice.   *)
TimedQuery(c, q) ==
  /\ rrf[c].stage = "timed" /\ q \notin {p.query : p \in rrf[c].pages}
  /\ \E lost \in BOOLEAN :
       rrf' = [rrf EXCEPT ![c].pages =
                 @ \cup {[query |-> q, k |-> IF lost THEN NoPipe ELSE FusedWith(c)]}]
  /\ UNCHANGED <<rrfServer, pipes>>

(* the tail both engines share: one failed query fails the result *)
HybridRrfResults(c) ==
  IF rrf[c].failed \/ \E p \in rrf[c].pages : p.k = NoPipe THEN "failed" ELSE "published"

(* the pipeline is removed whatever happened; a failure is only reported *)
DropPipeline(c) ==
  /\ rrf[c].stage = "drop"
  /\ pipes' \in {pipes, [pipes EXCEPT ![OpensearchPipelineName(rrf[c].spec)] = NoPipe]}
  /\ Become(c, HybridRrfResults(c))
  /\ UNCHANGED rrfServer

EndTimed(c) ==
  /\ rrf[c].stage = "timed" /\ {p.query : p \in rrf[c].pages} = RrfQueries
  /\ Become(c, IF rrfServer.engine = "opensearch" THEN "drop" ELSE HybridRrfResults(c))
  /\ UNCHANGED <<rrfServer, pipes>>

(* a run ends, or dies wherever it is and leaves its pipeline *)
EndRrf(c) ==
  /\ rrf[c].stage # "idle"
  /\ rrf' = [rrf EXCEPT ![c] = NoRun]
  /\ UNCHANGED <<rrfServer, pipes>>

RrfNext == \E c \in Clients :
  \/ \E s \in RrfSpecs : StartRrf(c, s)
  \/ CheckServer(c) \/ PutPipeline(c) \/ CheckPipeline(c) \/ BuildRrfReference(c) \/ ProbeRrf(c)
  \/ \E q \in RrfQueries : TimedQuery(c, q)
  \/ EndTimed(c) \/ DropPipeline(c) \/ EndRrf(c)

RrfSpec == RrfInit /\ [][RrfNext]_rrfVars

-----------------------------------------------------------------------------
(* A published hybrid-rrf result holds every timed query, each fused by    *)
(* the server with the constant the result names, on one shard and within  *)
(* the window, whatever other runs do to the pipelines meanwhile and       *)
(* whatever a run that died left behind.                                   *)
FusedAsAsked ==
  \A c \in Clients : rrf[c].stage = "published" =>
    LET s == rrf[c].spec
    IN  /\ {p.query : p \in rrf[c].pages} = RrfQueries
        /\ \A p \in rrf[c].pages : p.k = s.k
        /\ s.top <= s.window /\ rrfServer.shards = 1 /\ rrfServer.serverSide
=============================================================================
