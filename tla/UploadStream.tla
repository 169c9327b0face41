---------------------------- MODULE UploadStream ----------------------------
(***************************************************************************)
(* The streamed upload: parallel workers take blocks of rows off one       *)
(* CompoundStream (two files read under one lock), decode them and send    *)
(* them, until the stream is exhausted or the first error stops everyone.  *)
(*                                                                         *)
(* A row is its number.  The stream keeps three positions that have to     *)
(* agree: the next id to hand out, the place in vectors.npy and the place  *)
(* in payloads.jsonl; a block remembers all three, so a row whose vector   *)
(* or payload belongs to another row can be seen.                          *)
(***************************************************************************)
EXTENDS Naturals, Sequences, FiniteSets

CONSTANTS
  Rows,         \* rows of vectors.npy, by its header (checked on open)
  Parallel,     \* --parallel
  BatchSizes,   \* block sizes the upload may be called with
  Payloads      \* possible payloads.jsonl: whether it exists, and its lines

ASSUME StreamAssumption ==
  /\ Rows \in Nat /\ Parallel \in Nat
  /\ BatchSizes \subseteq Nat

LineKinds == {"good", "badutf8", "badjson"}

ASSUME PayloadAssumption ==
  Payloads \subseteq [present : BOOLEAN, lines : Seq(LineKinds)]

NWorkers == IF Parallel = 0 THEN 1 ELSE Parallel
StreamWorkers  == 1..NWorkers

VARIABLES
  payloads,     \* the payload file of this run
  batchSize,    \* batch_size of this run
  nextRow,      \* CompoundStream.next_row
  vpos, ppos,   \* rows read from the vectors file, lines from the payload file
  finished,     \* CompoundStream.finished
  failed,       \* the error slot is filled
  uploaded,     \* rows whose batch was acknowledged
  inFlight, maxInFlight,
  exhausted,    \* some worker saw the end of the stream
  wpc,          \* per worker: where it is in its loop
  hold,         \* per worker: the block it holds
  server,       \* the rows the engine holds, each with its vector and payload
  outcome

stream == <<payloads, batchSize, nextRow, vpos, ppos, finished>>
streamVars   == <<stream, failed, uploaded, inFlight, maxInFlight, exhausted, wpc,
            hold, server, outcome>>

NoBlock == [first |-> 0, n |-> 0, vec |-> 0, line |-> 0]

StreamInit ==
  /\ payloads \in Payloads /\ batchSize \in BatchSizes
  /\ nextRow = 0 /\ vpos = 0 /\ ppos = 0 /\ finished = FALSE
  /\ failed = FALSE /\ uploaded = 0
  /\ inFlight = 0 /\ maxInFlight = 0 /\ exhausted = FALSE
  /\ wpc = [w \in StreamWorkers |-> "connect"]
  /\ hold = [w \in StreamWorkers |-> NoBlock]
  /\ server = {}
  /\ outcome = "none"

-----------------------------------------------------------------------------
\* The worker's own bookkeeping.

At(w, step) == wpc[w] = step /\ outcome = "none"

StepTo(w, step) == wpc' = [wpc EXCEPT ![w] = step]

\* fail: the first error fills the slot; the worker leaves its loop.
Fail(w) == failed' = TRUE /\ StepTo(w, "stopped")

\* A zero batch size is refused before any worker exists.
RefuseBatchSize ==
  /\ batchSize = 0 /\ outcome = "none"
  /\ outcome' = "err"
  /\ UNCHANGED <<stream, failed, uploaded, inFlight, maxInFlight, exhausted,
                 wpc, hold, server>>

\* connect runs once per worker.
Connect(w) ==
  /\ At(w, "connect") /\ batchSize > 0
  /\ \/ StepTo(w, "check") /\ UNCHANGED failed
     \/ Fail(w)
  /\ UNCHANGED <<stream, uploaded, inFlight, maxInFlight, exhausted, hold,
                 server, outcome>>

\* connect waits for an answer that its client sets no limit to.
DialHangs(w) ==
  /\ At(w, "connect") /\ batchSize > 0
  /\ StepTo(w, "hung")
  /\ UNCHANGED <<stream, failed, uploaded, inFlight, maxInFlight, exhausted, hold,
                 server, outcome>>

\* Top of the loop: stop when some worker has failed.
CheckBlock(w) ==
  /\ At(w, "check")
  /\ StepTo(w, IF failed THEN "stopped" ELSE "lock")
  /\ UNCHANGED <<stream, failed, uploaded, inFlight, maxInFlight, exhausted,
                 hold, server, outcome>>

-----------------------------------------------------------------------------
\* CompoundStream::next_raw, under the stream lock.

Remaining == Rows - nextRow
Want      == IF Remaining < batchSize THEN Remaining ELSE batchSize

\* The payload lines from ppos on, up to `upto`, that read_line gets through.
Unreadable(upto) ==
  {i \in (ppos + 1)..upto : i > Len(payloads.lines) \/ payloads.lines[i] = "badutf8"}

\* End of the corpus, seen again after `finish`.
NextRawNone(w) ==
  /\ At(w, "lock") /\ finished
  /\ exhausted' = TRUE
  /\ StepTo(w, "stopped")
  /\ UNCHANGED <<stream, failed, uploaded, inFlight, maxInFlight, hold, server,
                 outcome>>

\* Mutant: surplus payload lines are not looked for.
FinishUnchecked(w) ==
  /\ At(w, "lock") /\ ~finished /\ Remaining = 0
  /\ finished' = TRUE /\ exhausted' = TRUE
  /\ StepTo(w, "stopped")
  /\ UNCHANGED <<payloads, batchSize, nextRow, vpos, ppos, failed, uploaded,
                 inFlight, maxInFlight, hold, server, outcome>>

\* CompoundStream::finish: every row is out, the payloads must be exhausted.
\* The stream counts as finished even if the check fails.
FinishStream(w) ==
  /\ At(w, "lock") /\ ~finished /\ Remaining = 0
  /\ finished' = TRUE
  /\ IF ~payloads.present \/ ppos = Len(payloads.lines)
     THEN exhausted' = TRUE /\ StepTo(w, "stopped") /\ UNCHANGED failed
     ELSE Fail(w) /\ UNCHANGED exhausted
  /\ ppos' = IF ~payloads.present THEN ppos ELSE Len(payloads.lines)
  /\ UNCHANGED <<payloads, batchSize, nextRow, vpos, uploaded, inFlight,
                 maxInFlight, hold, server, outcome>>

\* The vectors cannot be read: an I/O error, or the file position has run
\* ahead of the ids.  Where read_exact leaves the position is unspecified.
NextRawVectorsErr(w) ==
  /\ At(w, "lock") /\ ~finished /\ Remaining > 0
  /\ vpos' \in vpos..(vpos + Want) /\ vpos' <= Rows
  /\ Fail(w)
  /\ UNCHANGED <<payloads, batchSize, nextRow, ppos, finished, uploaded,
                 inFlight, maxInFlight, exhausted, hold, server, outcome>>

\* A payload line cannot be read, or there is none: the vectors are consumed
\* and so are the lines up to the bad one, but next_row does not move.
NextRawPayloadErr(w) ==
  /\ At(w, "lock") /\ ~finished /\ Remaining > 0 /\ vpos + Want <= Rows
  /\ payloads.present
  /\ \E i \in Unreadable(ppos + Want) :
       /\ \A k \in Unreadable(ppos + Want) : i <= k
       /\ ppos' = IF i > Len(payloads.lines) THEN Len(payloads.lines) ELSE i
  /\ vpos' = vpos + Want
  /\ Fail(w)
  /\ UNCHANGED <<payloads, batchSize, nextRow, finished, uploaded, inFlight,
                 maxInFlight, exhausted, hold, server, outcome>>

\* A block is handed out.
NextRawBlock(w) ==
  /\ At(w, "lock") /\ ~finished /\ Remaining > 0 /\ vpos + Want <= Rows
  /\ payloads.present => Unreadable(ppos + Want) = {}
  /\ hold' = [hold EXCEPT ![w] =
                [first |-> nextRow, n |-> Want, vec |-> vpos, line |-> ppos]]
  /\ nextRow' = nextRow + Want
  /\ vpos' = vpos + Want
  /\ ppos' = IF ~payloads.present THEN ppos ELSE ppos + Want
  /\ StepTo(w, "taken")
  /\ UNCHANGED <<payloads, batchSize, finished, failed, uploaded, inFlight,
                 maxInFlight, exhausted, server, outcome>>

-----------------------------------------------------------------------------
\* Decoding and sending, outside the lock.

\* The rows of a block, as the engine gets them.
RowsOf(b) ==
  {[id |-> b.first + i, vec |-> b.vec + i,
    line |-> IF ~payloads.present THEN b.first + i ELSE b.line + i]
     : i \in {j \in 0..Rows : j < b.n}}

Decodes(b) ==
  payloads.present =>
    \A i \in (b.line + 1)..(b.line + b.n) : payloads.lines[i] # "badjson"

\* in_flight.fetch_add and max_in_flight.fetch_max with its outcome.
Enter(w) ==
  /\ At(w, "taken")
  /\ inFlight' = inFlight + 1
  /\ maxInFlight' = IF inFlight' > maxInFlight THEN inFlight' ELSE maxInFlight
  /\ StepTo(w, "busy")
  /\ UNCHANGED <<stream, failed, uploaded, exhausted, hold, server, outcome>>

\* decode and upload succeed.
SendBlock(w) ==
  /\ At(w, "busy") /\ Decodes(hold[w])
  /\ server' = server \cup RowsOf(hold[w])
  /\ StepTo(w, "sent")
  /\ UNCHANGED <<stream, failed, uploaded, inFlight, maxInFlight, exhausted,
                 hold, outcome>>

\* decode fails, or upload gives up; the engine may have applied the block.
SendErr(w) ==
  /\ At(w, "busy")
  /\ \/ UNCHANGED server
     \/ Decodes(hold[w]) /\ server' = server \cup RowsOf(hold[w])
  /\ StepTo(w, "unsent")
  /\ UNCHANGED <<stream, failed, uploaded, inFlight, maxInFlight, exhausted,
                 hold, outcome>>

\* upload waits for an answer that its client sets no limit to.
SendHangs(w) ==
  /\ At(w, "busy") /\ Decodes(hold[w])
  /\ server' = server \/ server' = server \cup RowsOf(hold[w])
  /\ StepTo(w, "hung")
  /\ UNCHANGED <<stream, failed, uploaded, inFlight, maxInFlight, exhausted,
                 hold, outcome>>

\* in_flight.fetch_sub, whatever the outcome.
Leave(w) ==
  /\ At(w, "sent") \/ At(w, "unsent")
  /\ inFlight' = inFlight - 1
  /\ StepTo(w, IF wpc[w] = "sent" THEN "ok" ELSE "bad")
  /\ UNCHANGED <<stream, failed, uploaded, maxInFlight, exhausted, hold,
                 server, outcome>>

\* The outcome is accounted for: rows counted, or the error recorded.
Account(w) ==
  /\ \/ /\ At(w, "ok")
        /\ uploaded' = uploaded + hold[w].n
        /\ StepTo(w, "check")
        /\ UNCHANGED failed
     \/ /\ At(w, "bad")
        /\ Fail(w)
        /\ UNCHANGED uploaded
  /\ hold' = [hold EXCEPT ![w] = NoBlock]
  /\ UNCHANGED <<stream, inFlight, maxInFlight, exhausted, server, outcome>>

-----------------------------------------------------------------------------
\* The scope has joined every worker: the verdict.
Conclude ==
  /\ outcome = "none" /\ batchSize > 0
  /\ \A w \in StreamWorkers : wpc[w] = "stopped"
  /\ outcome' = IF failed \/ ~exhausted \/ uploaded # Rows THEN "err" ELSE "ok"
  /\ UNCHANGED <<stream, failed, uploaded, inFlight, maxInFlight, exhausted,
                 wpc, hold, server>>

WorkerStep(w) ==
  \/ Connect(w) \/ DialHangs(w) \/ CheckBlock(w)
  \/ NextRawNone(w) \/ FinishStream(w)
  \/ NextRawVectorsErr(w) \/ NextRawPayloadErr(w) \/ NextRawBlock(w)
  \/ Enter(w) \/ SendBlock(w) \/ SendErr(w) \/ SendHangs(w)
  \/ Leave(w) \/ Account(w)

\* The others are through, and the join of the scope waits for a worker that
\* will not come back.
StreamHeld ==
  /\ \E w \in StreamWorkers : wpc[w] = "hung"
  /\ \A w \in StreamWorkers : wpc[w] \in {"hung", "stopped"}

StreamDone == (outcome # "none" \/ StreamHeld) /\ UNCHANGED streamVars

StreamNext ==
  \/ RefuseBatchSize \/ Conclude
  \/ \E w \in StreamWorkers : WorkerStep(w)
  \/ StreamDone

\* Threads are scheduled, and a call of an engine returns, with or without
\* success, or hangs where its client sets no timeout.
StreamFairness ==
  /\ WF_streamVars(RefuseBatchSize) /\ WF_streamVars(Conclude)
  /\ \A w \in StreamWorkers : WF_streamVars(WorkerStep(w))

StreamSpec == StreamInit /\ [][StreamNext]_streamVars /\ StreamFairness

-----------------------------------------------------------------------------
\* Properties.

RowNumbers == 0..Rows

StreamTypeOK ==
  /\ payloads \in Payloads /\ batchSize \in BatchSizes
  /\ nextRow \in RowNumbers /\ vpos \in RowNumbers /\ ppos \in Nat
  /\ finished \in BOOLEAN /\ failed \in BOOLEAN /\ exhausted \in BOOLEAN
  /\ uploaded \in Nat /\ inFlight \in Nat /\ maxInFlight \in Nat
  /\ wpc \in [StreamWorkers -> {"connect", "check", "lock", "taken", "busy", "sent",
                          "unsent", "ok", "bad", "hung", "stopped"}]
  /\ hold \in [StreamWorkers -> [first : RowNumbers, n : RowNumbers,
                           vec : RowNumbers, line : Nat]]
  /\ server \subseteq [id : RowNumbers, vec : RowNumbers, line : Nat]
  /\ outcome \in {"none", "ok", "err"}

\* A successful upload_stream left exactly the corpus on the server: every row
\* once, with its own vector and its own payload line, and no line unread.
OkMeansExactCorpus ==
  outcome = "ok" =>
    /\ server = {[id |-> i, vec |-> i, line |-> i] : i \in {j \in 0..Rows : j < Rows}}
    /\ ~payloads.present \/ Len(payloads.lines) = Rows

\* Blocks in the hands of the workers never share a row with each other or
\* with what was sent before, although they complete in any order.
Holding(w) == wpc[w] \in {"taken", "busy"}
NoRowTwice ==
  \A w \in StreamWorkers : Holding(w) =>
    LET ids == {r.id : r \in RowsOf(hold[w])} IN
    /\ \A r \in server : r.id \notin ids
    /\ \A v \in StreamWorkers \ {w} : Holding(v) =>
         \A r \in RowsOf(hold[v]) : r.id \notin ids

\* The three positions of the stream can part company only through an error
\* that is already on record, so a row with a foreign vector or payload (which
\* a worker past its check may still send) never belongs to a success.
MisalignedOnlyAfterError ==
  (\E r \in server : r.vec # r.id \/ r.line # r.id) => failed

\* What a successful streamed upload left on the server is the corpus, and no
\* interleaving of the workers put a row there twice or, without an error on
\* record, next to another row's vector or payload.
StreamedExactly == OkMeansExactCorpus /\ NoRowTwice /\ MisalignedOnlyAfterError

=============================================================================
