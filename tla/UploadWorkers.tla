---------------------------- MODULE UploadWorkers ----------------------------
(***************************************************************************)
(* The in-memory upload of every engine: the corpus is cut into batches,   *)
(* worker threads take batch numbers off one atomic counter, send their    *)
(* batch and leave the first error in a shared slot, which the caller      *)
(* reads once the thread scope has joined.                                 *)
(*                                                                         *)
(* The engines differ in when they look at the slot, what they send again, *)
(* and what they take for an answer, a row each.                           *)
(* The server is external: it may store none, part or all of a batch       *)
(* whatever the client gets to see.                                        *)
(***************************************************************************)
EXTENDS Naturals, FiniteSets

CONSTANTS
  Engines,      \* the rows of the engines to run
  MaxParallel,  \* largest upload_params.parallel
  MaxBatches,   \* largest number of batches
  MaxRetries    \* the retry budget: 5 (Redis), 8 (OpenSearch), 5 and 30 (Vertex)

\* How a send can go wrong: no answer at all, an answer that asks to come back
\* later, one that refuses the credentials, and any other refusal.
Classes == {"transport", "shed", "auth", "fatal"}
Meters  == {"a", "b"}

(***************************************************************************)
(* What tells the uploads of the engines apart:                            *)
(*   seq      parallel <= 1 takes a sequential path that stops at the      *)
(*            first error and never sends twice;                           *)
(*   capped   no more threads than batches, and with                       *)
(*   floor    always one;                                                  *)
(*   checks   the error slot is looked at before each batch;               *)
(*   stops    a worker whose batch failed takes no other;                  *)
(*   setup    a worker's client or connection may fail to build;           *)
(*   lenient  a 200 whose body cannot be read counts as success;           *)
(*   token    a fresh access token may be needed, and refused;             *)
(*   pool     the parallel path builds a thread pool first, or fails to;   *)
(*   dialEnds the client bounds the set-up of a worker by a timeout, or    *)
(*            the set-up sends nothing;                                    *)
(*   callEnds the client bounds every request by a timeout;                *)
(*   meter    the retry counter a class of failures is charged to.         *)
(***************************************************************************)
EngineRow ==
  [seq : BOOLEAN, capped : BOOLEAN, floor : BOOLEAN, checks : BOOLEAN,
   stops : BOOLEAN, setup : BOOLEAN, lenient : BOOLEAN, token : BOOLEAN,
   pool : BOOLEAN, dialEnds : BOOLEAN, callEnds : BOOLEAN,
   meter : [Classes -> Meters \cup {"none"}]]

ASSUME UploadAssumption ==
  /\ Engines \subseteq EngineRow
  /\ MaxParallel \in Nat \ {0} /\ MaxBatches \in Nat /\ MaxRetries \in Nat

NoRetry == [c \in Classes |-> "none"]

Row(flags, meter) ==
  [seq |-> "seq" \in flags, capped |-> "capped" \in flags,
   floor |-> "floor" \in flags, checks |-> "checks" \in flags,
   stops |-> "stops" \in flags, setup |-> "setup" \in flags, lenient |-> "lenient" \in flags,
   token |-> "token" \in flags, pool |-> "pool" \in flags,
   dialEnds |-> "dialEnds" \in flags, callEnds |-> "callEnds" \in flags, meter |-> meter]

Redis         == Row({"seq", "stops", "setup"}, [NoRetry EXCEPT !["transport"] = "a"])
RedisCluster  == Row({"seq", "stops", "setup", "callEnds"}, NoRetry)
Valkey        == Row({"seq", "capped", "stops", "setup", "callEnds"}, NoRetry)
Dragonfly     == Row({"seq", "capped", "floor", "stops", "setup", "callEnds"}, NoRetry)
Kividb        == Row({"seq", "capped", "floor", "stops", "setup", "callEnds"}, NoRetry)
VectorSets    == Row({"seq", "stops", "setup"}, NoRetry)
Chroma        == Row({"checks", "stops", "setup", "dialEnds", "callEnds"}, NoRetry)
Elasticsearch == Row({"checks", "stops", "setup", "dialEnds", "callEnds"}, NoRetry)
OpenSearch    == Row({"checks", "stops", "setup", "dialEnds", "callEnds"},
                     [NoRetry EXCEPT !["transport"] = "a", !["shed"] = "a"])
Milvus        == Row({"checks", "stops", "setup", "lenient", "dialEnds", "callEnds"}, NoRetry)
Qdrant        == Row({"checks", "stops", "setup", "dialEnds", "callEnds"}, NoRetry)
PgVector      == Row({"checks", "stops", "setup"}, NoRetry)
MongoDB       == Row({"checks", "stops", "setup", "dialEnds"}, NoRetry)
Weaviate      == Row({"checks", "stops", "setup", "lenient", "dialEnds", "callEnds"}, NoRetry)
Vertex        == Row({"capped", "floor", "checks", "stops", "setup", "token", "dialEnds", "callEnds"},
                     [NoRetry EXCEPT !["shed"] = "a", !["auth"] = "b"])
Turbopuffer   == Row({"seq", "pool", "dialEnds"}, NoRetry)

AllEngines ==
  {Redis, RedisCluster, Valkey, Dragonfly, Kividb, VectorSets, Chroma,
   Elasticsearch, OpenSearch, Milvus, Qdrant, PgVector, MongoDB, Weaviate,
   Vertex, Turbopuffer}

-----------------------------------------------------------------------------
Workers == 1..MaxParallel
AllBatches == {b \in 0..MaxBatches : b < MaxBatches}

VARIABLES
  engine, parallel, total,   \* this upload
  next,      \* batch_idx
  err,       \* the error slot is filled
  pc, at,    \* per worker: where it is, and the batch it holds
  tries,     \* per worker and meter: retries used on this batch
  stored,    \* what the server holds of each batch
  sends,     \* history: times each batch was sent
  result

setup == <<engine, parallel, total>>
vars  == <<setup, next, err, pc, at, tries, stored, sends, result>>

Min2(a, b) == IF a < b THEN a ELSE b

\* parallel <= 1 takes the sequential path where there is one.
Sequential == engine.seq /\ parallel <= 1

\* The threads the upload spawns.  Those that keep a floor spawn one even with
\* no batch to send, or a parallel of 0; the others loop over 0..parallel.
Threads ==
  LET wanted == IF engine.capped THEN Min2(parallel, total) ELSE parallel
  IN  IF Sequential \/ (engine.floor /\ wanted = 0) THEN 1 ELSE wanted

NoTries == [m \in Meters |-> 0]

Init ==
  /\ engine \in Engines /\ parallel \in 0..MaxParallel /\ total \in 0..MaxBatches
  /\ next = 0 /\ err = FALSE
  /\ pc = [w \in Workers |-> IF w <= Threads THEN "setup" ELSE "done"]
  /\ at = [w \in Workers |-> 0]
  /\ tries = [w \in Workers |-> NoTries]
  /\ stored = [b \in AllBatches |-> "none"]
  /\ sends = [b \in AllBatches |-> 0]
  /\ result = "none"

Goto(w, l) == pc' = [pc EXCEPT ![w] = l]

-----------------------------------------------------------------------------
\* The client, the connection or the runtime of the worker is built.
Setup(w) ==
  /\ pc[w] = "setup"
  /\ Goto(w, "claim")
  /\ UNCHANGED <<setup, next, err, at, tries, stored, sends, result>>

SetupFails(w) ==
  /\ pc[w] = "setup" /\ (engine.setup \/ Sequential)
  /\ err' = TRUE
  /\ Goto(w, "done")
  /\ UNCHANGED <<setup, next, at, tries, stored, sends, result>>

\* The pool of the parallel path is not built: no task was started.
PoolFails ==
  /\ engine.pool /\ ~Sequential /\ result = "none"
  /\ \A w \in Workers : pc[w] \in {"setup", "done"}
  /\ err' = TRUE /\ result' = "err"
  /\ pc' = [w \in Workers |-> "done"]
  /\ UNCHANGED <<setup, next, at, tries, stored, sends>>

\* Mutant: a load and a store instead of fetch_add: a worker that loads
\* between the two of another gets the same batch.
ClaimLoads(w) ==
  /\ pc[w] = "claim"
  /\ next' = IF \E v \in Workers : pc[v] = "check" THEN next ELSE next + 1
  /\ at' = [at EXCEPT ![w] = next]
  /\ tries' = [tries EXCEPT ![w] = NoTries]
  /\ Goto(w, IF next < total THEN "check" ELSE "done")
  /\ UNCHANGED <<setup, err, stored, sends, result>>

\* batch_idx.fetch_add; the worker leaves when the batches are used up.
Claim(w) ==
  /\ pc[w] = "claim"
  /\ next' = next + 1
  /\ at' = [at EXCEPT ![w] = next]
  /\ tries' = [tries EXCEPT ![w] = NoTries]
  /\ Goto(w, IF next < total THEN "check" ELSE "done")
  /\ UNCHANGED <<setup, err, stored, sends, result>>

\* Most engines look at the error slot before they send.
Check(w) ==
  /\ pc[w] = "check"
  /\ Goto(w, IF engine.checks /\ err THEN "done" ELSE "send")
  /\ UNCHANGED <<setup, next, err, at, tries, stored, sends, result>>

\* The batch of w goes out and the server keeps `kept` of it, or what it
\* already had: an id that is sent again overwrites itself.
Send(w, kept) ==
  /\ pc[w] = "send"
  /\ stored' = [stored EXCEPT ![at[w]] =
                  IF kept = "whole" \/ @ = "none" THEN kept ELSE @]
  /\ sends' = [sends EXCEPT ![at[w]] = @ + 1]

\* Nothing comes back, and the client set no limit to the wait: the worker
\* stays where it is, and whether the server got the batch nobody learns.
Hang(w) ==
  /\ \/ pc[w] = "setup" /\ ~engine.dialEnds /\ UNCHANGED <<stored, sends>>
     \/ ~engine.callEnds /\ \E kept \in {"none", "part", "whole"} : Send(w, kept)
  /\ Goto(w, "hung")
  /\ UNCHANGED <<setup, next, err, at, tries, result>>

\* A worker looks for the next batch; Vertex first looks at the slot again.
Proceed(w) == Goto(w, IF engine.token /\ err THEN "done" ELSE "claim")

\* The batch is stored and acknowledged.
Accepted(w) ==
  /\ Send(w, "whole")
  /\ Proceed(w)
  /\ UNCHANGED <<setup, next, err, at, tries, result>>

\* Milvus and Weaviate report refused objects in the body of a 200; a body
\* that cannot be read is taken for one without failures.
Muffled(w) ==
  /\ engine.lenient
  /\ \E kept \in {"none", "part", "whole"} : Send(w, kept)
  /\ Proceed(w)
  /\ UNCHANGED <<setup, next, err, at, tries, result>>

\* Mutant: the error stays in the worker.
GiveUpSilently(w) ==
  /\ err' = err
  /\ Goto(w, "done")

\* The error is recorded; all but Turbopuffer's parallel tasks stop with it.
GiveUp(w) ==
  /\ err' = TRUE
  /\ Goto(w, IF engine.stops \/ Sequential THEN "done" ELSE "claim")

\* The failure is one the engine sends again for, and the budget of its meter
\* is not used up.  The sequential path sends every batch once.
Retried(w, class) ==
  /\ ~Sequential
  /\ engine.meter[class] # "none"
  /\ tries[w][engine.meter[class]] < MaxRetries

\* What of a batch the server may hold after each kind of failure.
Kept(class) ==
  CASE class = "transport" -> {"none", "part", "whole"}
    [] class = "auth" -> {"none"}
    [] OTHER -> {"none", "part"}

\* The send fails: it is tried again, after a pause and with a new connection
\* or token, or the worker gives the batch up.
Refused(w, class) ==
  /\ \E kept \in Kept(class) : Send(w, kept)
  /\ \/ /\ Retried(w, class)
        /\ tries' = [tries EXCEPT ![w][engine.meter[class]] = @ + 1]
        /\ UNCHANGED <<err, pc>>
     \/ /\ ~Retried(w, class)
        /\ GiveUp(w)
        /\ UNCHANGED tries
  /\ UNCHANGED <<setup, next, at, result>>

\* Mutant: a worker without a token waits until it gets one.
TokenAwaited(w) ==
  /\ engine.token /\ pc[w] = "send"
  /\ Goto(w, "check")
  /\ UNCHANGED <<setup, next, err, at, tries, stored, sends, result>>

\* Vertex asks for a fresh token before a batch and between two attempts.
TokenRefused(w) ==
  /\ engine.token /\ pc[w] = "send"
  /\ GiveUp(w)
  /\ UNCHANGED <<setup, next, at, tries, stored, sends, result>>

\* The scope has joined the threads: the slot decides.
Finish ==
  /\ result = "none"
  /\ \A w \in Workers : pc[w] = "done"
  /\ result' = IF err THEN "err" ELSE "ok"
  /\ UNCHANGED <<setup, next, err, pc, at, tries, stored, sends>>

Worker(w) ==
  \/ Setup(w) \/ SetupFails(w) \/ Hang(w)
  \/ Claim(w) \/ Check(w)
  \/ Accepted(w) \/ Muffled(w) \/ TokenRefused(w)
  \/ \E class \in Classes : Refused(w, class)

\* The others are through, and the join of the scope waits for a thread that
\* will not come back.
Hung == \E w \in Workers : pc[w] = "hung"
Held == Hung /\ \A w \in Workers : pc[w] \in {"hung", "done"}

Done == (result # "none" \/ Held) /\ UNCHANGED vars

Next == (\E w \in Workers : Worker(w)) \/ PoolFails \/ Finish \/ Done

\* Threads are scheduled.  A request ends, by an answer, an error or the timeout
\* of its client; one that a client sets no limit to may hang instead.
Fairness == WF_vars(Finish) /\ \A w \in Workers : WF_vars(Worker(w))

Spec == Init /\ [][Next]_vars /\ Fairness

-----------------------------------------------------------------------------
\* Properties.

TypeOK ==
  /\ engine \in Engines /\ parallel \in 0..MaxParallel /\ total \in 0..MaxBatches
  /\ next \in Nat /\ err \in BOOLEAN
  /\ pc \in [Workers -> {"setup", "claim", "check", "send", "hung", "done"}]
  /\ at \in [Workers -> Nat]
  /\ \A w \in Workers : pc[w] \in {"check", "send"} => at[w] \in AllBatches
  /\ tries \in [Workers -> [Meters -> Nat]]
  /\ stored \in [AllBatches -> {"none", "part", "whole"}]
  /\ sends \in [AllBatches -> Nat]
  /\ result \in {"none", "ok", "err"}

\* An upload that reports Ok has every batch on the server, whichever workers
\* failed, retried or were overtaken on the way; for Milvus and Weaviate that
\* depends on readable answers.  Left out is upload_params.parallel = 0, which
\* nothing refuses: an engine without a sequential path or a floor sends nothing.
OkMeansStored ==
  result = "ok" /\ ~engine.lenient /\ (parallel > 0 \/ engine.seq \/ engine.floor) =>
    \A b \in AllBatches : b < total => stored[b] = "whole"

\* A batch is in the hands of one worker at a time, and one nobody has claimed
\* has never been sent.
Holds(w) == pc[w] \in {"check", "send"}
OneOwner ==
  /\ \A v, w \in Workers : Holds(v) /\ Holds(w) /\ at[v] = at[w] => v = w
  /\ \A b \in AllBatches : b >= next => sends[b] = 0

=============================================================================
