----------------------------- MODULE MCUploads ------------------------------
(***************************************************************************)
(* The two ways a corpus reaches a server.  Streamed: payload files that   *)
(* are absent, of every length up to one line too many, and with at most   *)
(* one bad line.  From memory: every engine's workers.  The two are        *)
(* explored side by side; `way` says which one moves, and the other stays  *)
(* where a failed upload ends.                                             *)
(***************************************************************************)
EXTENDS UploadWorkers, UploadStream

VARIABLE way
mcVars == <<way, vars, streamVars>>

Files ==
  {s \in UNION {[1..n -> LineKinds] : n \in 0..(Rows + 1)} :
     Cardinality({i \in DOMAIN s : s[i] # "good"}) <= 1}

MCPayloads ==
  {[present |-> FALSE, lines |-> <<>>]} \cup
  {[present |-> TRUE, lines |-> s] : s \in Files}

StreamOff ==
  /\ payloads = [present |-> FALSE, lines |-> <<>>] /\ batchSize = 0
  /\ nextRow = 0 /\ vpos = 0 /\ ppos = 0 /\ finished = FALSE /\ failed = TRUE /\ uploaded = 0
  /\ inFlight = 0 /\ maxInFlight = 0 /\ exhausted = FALSE
  /\ wpc = [w \in StreamWorkers |-> "done"] /\ hold = [w \in StreamWorkers |-> NoBlock]
  /\ server = {} /\ outcome = "err"

WorkersOff ==
  /\ engine = (CHOOSE e \in Engines : TRUE) /\ parallel = 1 /\ total = 0 /\ next = 0 /\ err = TRUE
  /\ pc = [w \in Workers |-> "done"] /\ at = [w \in Workers |-> 0] /\ tries = [w \in Workers |-> NoTries]
  /\ stored = [b \in AllBatches |-> "none"] /\ sends = [b \in AllBatches |-> 0] /\ result = "err"

MCInit ==
  \/ way = "memory" /\ Init /\ StreamOff
  \/ way = "stream" /\ StreamInit /\ WorkersOff

FromMemory(A) == way = "memory" /\ A /\ UNCHANGED <<way, streamVars>>
Streamed(A)   == way = "stream" /\ A /\ UNCHANGED <<way, vars>>

MCNext == FromMemory(Next) \/ Streamed(StreamNext)

(* the fairness of the two specifications *)
MCSpec ==
  /\ MCInit /\ [][MCNext]_mcVars
  /\ WF_mcVars(FromMemory(Finish)) /\ \A w \in Workers : WF_mcVars(FromMemory(Worker(w)))
  /\ WF_mcVars(Streamed(RefuseBatchSize)) /\ WF_mcVars(Streamed(Conclude))
  /\ \A w \in StreamWorkers : WF_mcVars(Streamed(WorkerStep(w)))

(* Every upload ends, streamed or from memory, also when workers fail in   *)
(* the middle or the server keeps refusing: no retry is endless and nobody *)
(* waits for a worker that has left.  What can keep one from ending is a   *)
(* request that never comes back, of a client that set no limit to it.     *)
Terminates ==
  <>((result # "none" \/ Held) /\ (outcome # "none" \/ StreamHeld))

=============================================================================
