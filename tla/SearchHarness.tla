--------------------------- MODULE SearchHarness ----------------------------
(***************************************************************************)
(* One search phase: `parallel` workers take query ordinals from a shared  *)
(* counter, send them, and hand their samples to the coordinator, which    *)
(* turns them into a report.  A closed run sends each query once, an       *)
(* open-loop run sends each at its slot or sheds it, a duration run goes   *)
(* on until its deadline, a mixed run interleaves updates.  The start gate *)
(* is modelled in StartGate and enters here as its contract: every worker  *)
(* warm, or an error.                                                      *)
(***************************************************************************)
EXTENDS Integers, FiniteSets, FiniteSetsExt, SearchEngines

CONSTANTS
  Harnesses,     \* rows of SearchEngines checked
  Modes,         \* subset of {"closed", "open", "duration", "mixed"}
  Parallel,      \* params.parallel
  Requests,      \* numbers of queries to run
  Interval,      \* ticks between two open-loop arrivals
  MaxLateness, LateThreshold,   \* OpenLoopPlan's limits
  Duration,      \* of a duration run
  RatioSearches, RatioUpdates,  \* UpdateSearchRatio
  MaxTicks,      \* bound: the clock of a timed run stops here
  MaxTaken       \* bound: ordinals a duration run may take

ASSUME HarnessAssumption ==
  /\ Harnesses \subseteq AllHarnesses
  /\ Modes \subseteq {"closed", "open", "duration", "mixed"}
  /\ Parallel \in Nat \ {0} /\ Requests \subseteq Nat
  /\ {Interval, Duration, RatioSearches, RatioUpdates} \subseteq Nat \ {0}
  /\ {MaxLateness, LateThreshold, MaxTicks, MaxTaken} \subseteq Nat

VARIABLES
  harness, mode, numToRun, capture,   \* the inputs
  queryIdx,     \* the shared atomic counter
  now,          \* the clock, from the stamp of the gate
  pc, idx,      \* per worker: where it is, and the ordinal it holds
  stuck,        \* workers waiting on a reply that never comes
  t, failed, dropped, late, cap,   \* per worker: ordinals in each buffer
  rounds,       \* per worker: searches of this round (mixed)
  updates,      \* per worker: updates it tallied, by outcome
  captureError, \* a worker met a hit that is no corpus row
  counted,      \* the server counted a failed command
  outcome,      \* "running", "err", "ok", "zero"
  report        \* what the result file will say

Workers == 1..Parallel
Outcomes == {"applied", "unattributed", "failed"}
buffers == <<t, failed, dropped, late, cap>>
inputs == <<harness, mode, numToRun, capture>>
vars == <<inputs, stuck, queryIdx, now, pc, idx, buffers, rounds, updates,
          captureError, counted, outcome, report>>

\* The workers a capped harness starts; every other starts `parallel`.
Started ==
  IF harness.capped /\ numToRun < Parallel THEN 1..(IF numToRun = 0 THEN 1 ELSE numToRun)
  ELSE Workers

NoReport == [requested |-> 0, failed |-> 0, dropped |-> 0, late |-> 0, updates |-> 0]

Init ==
  /\ harness \in Harnesses /\ mode \in Modes /\ numToRun \in Requests /\ capture \in BOOLEAN
  /\ mode = "mixed" <=> harness.mixed
  /\ mode \in {"open", "duration"} => harness.timed /\ numToRun > 0
  /\ queryIdx = 0 /\ now = 0 /\ stuck = {}
  /\ pc = [w \in Workers |-> IF w \in Started THEN "setup" ELSE "unstarted"]
  /\ idx = [w \in Workers |-> -1]
  /\ t = [w \in Workers |-> {}] /\ failed = t /\ dropped = t /\ late = t /\ cap = t
  /\ rounds = [w \in Workers |-> 0]
  /\ updates = [w \in Workers |-> [o \in Outcomes |-> 0]]
  /\ captureError = FALSE /\ counted = FALSE
  /\ outcome = "running" /\ report = NoReport

Timed == mode \in {"open", "duration"}
Goto(w, where) == pc' = [pc EXCEPT ![w] = where]
Push(buffer, w) == [buffer EXCEPT ![w] = @ \cup {idx[w]}]

-----------------------------------------------------------------------------
\* A worker.

\* Connect and send the discarded prime query, whose error is ignored by the
\* client and may be counted by the server.
Setup(w) ==
  /\ pc[w] = "setup"
  /\ Goto(w, IF harness.gated THEN "parked" ELSE "loop")
  /\ counted' \in (IF harness.gated /\ harness.stats THEN {counted, TRUE} ELSE {counted})
  /\ UNCHANGED <<inputs, stuck, queryIdx, now, idx, buffers, rounds, updates,
                 captureError, outcome, report>>

\* Without a connection: settle the ticket with the reason, or just return.
SetupFails(w) ==
  /\ pc[w] = "setup"
  /\ Goto(w, IF harness.gated THEN "refused" ELSE "quit")
  /\ UNCHANGED <<inputs, stuck, queryIdx, now, idx, buffers, rounds, updates,
                 captureError, counted, outcome, report>>

\* WorkerPool::start: an error unless every worker is warm.
Release ==
  /\ harness.gated /\ outcome = "running"
  /\ \A w \in Started : pc[w] \in {"parked", "refused"}
  /\ IF \E w \in Started : pc[w] = "refused"
     THEN outcome' = "err" /\ UNCHANGED pc
     ELSE /\ pc' = [w \in Workers |-> IF w \in Started THEN "loop" ELSE pc[w]]
          /\ UNCHANGED outcome
  /\ UNCHANGED <<inputs, stuck, queryIdx, now, idx, buffers, rounds, updates, captureError,
                 counted, report>>

PastDeadline == mode = "duration" /\ now >= Duration

\* Mutant: the counter is read and written in two operations.
TakeRacy(w) ==
  /\ pc[w] = "loop"
  /\ ~PastDeadline
  /\ queryIdx < (IF mode = "duration" THEN MaxTaken ELSE numToRun)
  /\ queryIdx' \in {queryIdx, queryIdx + 1} /\ idx' = [idx EXCEPT ![w] = queryIdx]
  /\ Goto(w, IF mode = "open" THEN "slot" ELSE "rpc")
  /\ UNCHANGED <<inputs, stuck, now, buffers, rounds, updates, captureError, counted,
                 outcome, report>>

\* fetch_add hands out each ordinal to one worker.
Take(w) ==
  /\ pc[w] = "loop"
  /\ ~PastDeadline
  /\ queryIdx < (IF mode = "duration" THEN MaxTaken ELSE numToRun)
  /\ queryIdx' = queryIdx + 1 /\ idx' = [idx EXCEPT ![w] = queryIdx]
  /\ Goto(w, IF mode = "open" THEN "slot" ELSE "rpc")
  /\ UNCHANGED <<inputs, stuck, now, buffers, rounds, updates, captureError, counted,
                 outcome, report>>

\* Mutant: a worker past the deadline goes round the loop again.
FinishSpins(w) ==
  /\ pc[w] = "loop"
  /\ IF PastDeadline THEN UNCHANGED <<queryIdx, pc>>
     ELSE mode # "duration" /\ queryIdx >= numToRun /\ queryIdx' = queryIdx + 1 /\ Goto(w, "exit")
  /\ UNCHANGED <<inputs, stuck, now, idx, buffers, rounds, updates, captureError,
                 counted, outcome, report>>

\* The queries are used up: the counter is still incremented.
Finish(w) ==
  /\ pc[w] = "loop"
  /\ \/ PastDeadline /\ UNCHANGED queryIdx
     \/ mode # "duration" /\ queryIdx >= numToRun /\ queryIdx' = queryIdx + 1
  /\ Goto(w, "exit")
  /\ UNCHANGED <<inputs, stuck, now, idx, buffers, rounds, updates, captureError,
                 counted, outcome, report>>

ScheduledAt(w) == idx[w] * Interval

\* wait_for_slot: sleep until the arrival time, and shed what is too late.
WaitForSlot(w) ==
  LET delay == now - ScheduledAt(w) IN
  /\ pc[w] = "slot" /\ delay >= 0
  /\ IF delay > MaxLateness
     THEN dropped' = Push(dropped, w) /\ Goto(w, "loop") /\ UNCHANGED late
     ELSE /\ late' = IF delay > LateThreshold THEN Push(late, w) ELSE late
          /\ Goto(w, "rpc") /\ UNCHANGED dropped
  /\ UNCHANGED <<inputs, stuck, queryIdx, now, idx, t, failed, cap, rounds, updates,
                 captureError, counted, outcome, report>>

\* Where the worker goes after a search: updates follow every S-th.
AfterSearch(w) ==
  IF mode = "mixed" /\ rounds[w] + 1 = RatioSearches
  THEN Goto(w, "update") /\ rounds' = [rounds EXCEPT ![w] = 0]
  ELSE Goto(w, "loop") /\ rounds' = [rounds EXCEPT ![w] = IF mode = "mixed" THEN @ + 1 ELSE @]

Capturing == capture /\ harness.captures

Answered(w) ==
  /\ pc[w] = "rpc"
  /\ t' = Push(t, w) /\ cap' = IF Capturing THEN Push(cap, w) ELSE cap
  /\ AfterSearch(w)
  /\ UNCHANGED <<inputs, stuck, queryIdx, now, idx, failed, dropped, late, updates,
                 captureError, counted, outcome, report>>

\* An error reply, a timeout, or a reply that does not parse: no sample.
Fails(w) ==
  /\ pc[w] = "rpc"
  /\ failed' = Push(failed, w) /\ cap' = IF Capturing THEN Push(cap, w) ELSE cap
  /\ counted' \in (IF harness.stats THEN {counted, TRUE} ELSE {counted})
  /\ AfterSearch(w)
  /\ UNCHANGED <<inputs, stuck, queryIdx, now, idx, t, dropped, late, updates,
                 captureError, outcome, report>>

\* A captured hit that is no corpus row: sampled, then the worker stops.
NotARow(w) ==
  /\ pc[w] = "rpc" /\ Capturing /\ harness.rowCheck
  /\ t' = Push(t, w) /\ captureError' = TRUE /\ Goto(w, "exit")
  /\ UNCHANGED <<inputs, stuck, queryIdx, now, idx, failed, dropped, late, cap, rounds,
                 updates, counted, outcome, report>>

Panic(w) ==
  /\ pc[w] = "rpc" /\ Goto(w, "panicked")
  /\ UNCHANGED <<inputs, stuck, queryIdx, now, idx, buffers, rounds, updates,
                 captureError, counted, outcome, report>>

\* One update of the round: applied, applied to no corpus row, or failed.
Update(w) ==
  \E o \in Outcomes :
    /\ pc[w] = "update"
    /\ updates' = [updates EXCEPT ![w][o] = @ + 1]
    /\ counted' \in (IF o = "failed" /\ harness.stats THEN {counted, TRUE} ELSE {counted})
    /\ IF rounds[w] + 1 = RatioUpdates
       THEN Goto(w, "loop") /\ rounds' = [rounds EXCEPT ![w] = 0]
       ELSE rounds' = [rounds EXCEPT ![w] = @ + 1] /\ UNCHANGED pc
    /\ UNCHANGED <<inputs, stuck, queryIdx, now, idx, buffers, captureError, outcome,
                   report>>

\* The server never answers, and the client waits for it with no timeout.
Hang(w) ==
  /\ \/ pc[w] = "setup" /\ ~harness.dialEnds
     \/ pc[w] \in {"rpc", "update"} /\ ~harness.callEnds
  /\ stuck' = stuck \cup {w}
  /\ UNCHANGED <<inputs, queryIdx, now, pc, idx, buffers, rounds, updates,
                 captureError, counted, outcome, report>>

-----------------------------------------------------------------------------
\* The coordinator.

Merged(buffer) == UNION {buffer[w] : w \in Workers}
Count(buffer) == Cardinality(Merged(buffer))
UpdateCount(os) ==
  MapThenSumSet(LAMBDA w : MapThenSumSet(LAMBDA o : updates[w][o], os), Workers)

\* Mutant: requests that were shed are attempts.
AttemptedWithShed == IF queryIdx < numToRun \/ mode = "duration" THEN queryIdx ELSE numToRun

\* The attempts of a timed run; a closed run owes all its queries.
Attempted ==
  IF harness.timed
  THEN (IF queryIdx < numToRun \/ mode = "duration" THEN queryIdx ELSE numToRun)
       - Count(dropped)
  ELSE numToRun

\* validate_capture, and the refusal of a harness that captures nothing.
CaptureBad ==
  capture /\ mode # "mixed" /\ (~harness.captures \/ Count(cap) # Attempted)

\* compute_search_stats and the checks around it.
Verdict ==
  IF captureError \/ \E w \in Started : pc[w] = "panicked" THEN "err"
  ELSE IF Count(t) = 0
       THEN IF harness.zero /\ (Attempted > 0 \/ Count(dropped) > 0) /\ ~CaptureBad
            THEN "zero" ELSE "err"
  ELSE IF (harness.stats /\ counted) \/ CaptureBad THEN "err" ELSE "ok"

Join ==
  /\ outcome = "running"
  /\ \A w \in Started : pc[w] \in {"exit", "quit", "panicked"}
  /\ outcome' = Verdict
  /\ report' = [requested |-> Attempted,
                failed    |-> Attempted - Count(t),
                dropped   |-> Count(dropped),
                late      |-> Count(late),
                updates   |-> UpdateCount(Outcomes)]
  /\ UNCHANGED <<inputs, stuck, queryIdx, now, pc, idx, buffers, rounds, updates,
                 captureError, counted>>

Tick ==
  /\ Timed /\ outcome = "running" /\ now < MaxTicks /\ now' = now + 1
  /\ \A w \in Started : pc[w] \notin {"setup", "parked", "refused"}
  /\ UNCHANGED <<inputs, stuck, queryIdx, pc, idx, buffers, rounds, updates,
                 captureError, counted, outcome, report>>

\* Every worker that is not stuck is through, or waits for the stuck ones.
Held ==
  /\ stuck # {}
  /\ \A w \in Started \ stuck : pc[w] \in {"parked", "refused", "exit", "quit", "panicked"}

\* The phase is over, or the coordinator waits for a worker that will not come.
Over == (outcome # "running" \/ Held) /\ UNCHANGED vars

Step(w) ==
  /\ w \notin stuck
  /\ \/ Setup(w) \/ SetupFails(w) \/ Take(w) \/ Finish(w) \/ WaitForSlot(w)
     \/ Answered(w) \/ Fails(w) \/ NotARow(w) \/ Panic(w) \/ Update(w) \/ Hang(w)

Next == Release \/ Join \/ Tick \/ Over \/ \E w \in Workers : Step(w)

\* Threads are scheduled and the clock runs.  A request is answered, fails or
\* times out, or, on a client without a timeout, hangs: Step(w) is fair and
\* Hang(w) is one of its outcomes.
Spec ==
  /\ Init /\ [][Next]_vars
  /\ WF_vars(Tick) /\ WF_vars(Release) /\ WF_vars(Join)
  /\ \A w \in Workers : WF_vars(Step(w))

-----------------------------------------------------------------------------
\* Properties.

Reported == outcome \in {"ok", "zero"}

States ==
  {"unstarted", "setup", "parked", "refused", "quit", "loop", "slot", "rpc", "update",
   "exit", "panicked"}

TypeOK ==
  /\ harness \in Harnesses /\ mode \in Modes /\ numToRun \in Requests /\ capture \in BOOLEAN
  /\ queryIdx \in Nat /\ now \in 0..MaxTicks /\ stuck \subseteq Workers
  /\ pc \in [Workers -> States] /\ idx \in [Workers -> -1..queryIdx]
  /\ {t, failed, dropped, late, cap} \subseteq [Workers -> SUBSET (0..queryIdx)]
  /\ rounds \in [Workers -> Nat] /\ updates \in [Workers -> [Outcomes -> Nat]]
  /\ captureError \in BOOLEAN /\ counted \in BOOLEAN
  /\ outcome \in {"running", "err", "ok", "zero"}

\* No two workers ever handle the same ordinal, and no ordinal is put in two
\* of the answered, failed and shed buffers.
OrdinalOnce ==
  /\ \A v, w \in Workers : v # w =>
       (t[v] \cup failed[v] \cup dropped[v]) \cap (t[w] \cup failed[w] \cup dropped[w]) = {}
  /\ \A w \in Workers :
       t[w] \cap failed[w] = {} /\ (t[w] \cup failed[w]) \cap dropped[w] = {}

\* A report accounts for every query it owes: what it calls failed did fail,
\* and answered, failed and shed together are all the ordinals there were.
ReportConserves ==
  Reported =>
    /\ report.failed = Count(failed)
    /\ report.requested = Count(t) + Count(failed)
    /\ mode \in {"closed", "open", "mixed"} =>
         Merged(t) \cup Merged(failed) \cup Merged(dropped) = 0..(numToRun - 1)
    /\ mode = "duration" =>
         Merged(t) \cup Merged(failed) = 0..(report.requested - 1)

\* The settled policy of start_gate: a gated run short of a worker it started
\* is an error, never a report, and no run reports over a worker that panicked.
FullConcurrency ==
  Reported => \A w \in Started :
    pc[w] # "panicked" /\ (harness.gated => pc[w] = "exit")

\* No worker of a mixed run gets ahead of the ratio: its updates, whatever came
\* of them, against the searches it has done.
UpdatesOf(w) == updates[w]["applied"] + updates[w]["unattributed"] + updates[w]["failed"]
RatioHeld ==
  \A w \in Workers :
    UpdatesOf(w) * RatioSearches <= RatioUpdates * (Cardinality(t[w]) + Cardinality(failed[w]))

\* A search phase ends, unless a request hangs on a client that sets no timeout:
\* the "one hung search" that run_with_search_watchdog is there for.  Then every
\* other worker still comes to its end or waits at the gate, and it is the hung
\* one alone that the coordinator waits for.
Terminates == <>[](outcome # "running" \/ Held)

\* Ordinals and updates are handed out once and in proportion, whoever is
\* faster: the atomic index gives no query to two workers, and no interleaving
\* lets the updates of a mixed run get ahead of its ratio.
DispatchKept == OrdinalOnce /\ RatioHeld

\* A report is about the whole run at the concurrency it names: it accounts for
\* every query, and no worker that started is missing from it.
ReportHonest == ReportConserves /\ FullConcurrency

=============================================================================
