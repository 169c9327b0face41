------------------------------ MODULE StartGate ------------------------------
(***************************************************************************)
(* The synchronized start of the parallel search harnesses: one StartGate  *)
(* (a mutex, a condition variable and counters), one ticket per worker and *)
(* the WorkerPool that spawns, releases and joins the workers.             *)
(*                                                                         *)
(* Every critical section of the gate is one atomic step.  The code drops  *)
(* the lock before it calls notify_all, so the notification is a step of   *)
(* its own: a thread in `owes` has changed the gate and not yet notified.  *)
(***************************************************************************)
EXTENDS Naturals, FiniteSets

CONSTANT Planned    \* workers the run is labelled with (`parallel`)

ASSUME PlannedAssumption == Planned \in Nat

Workers == 1..Planned
Coord   == 0
Threads == {Coord} \cup Workers

VARIABLES
  phase,      \* GateState.phase
  settled,    \* GateState.settled
  ready,      \* GateState.ready
  lost,       \* GateState.lost
  failures,   \* GateState.failures.len()
  asleep,     \* threads blocked in Condvar::wait
  owes,       \* threads that dropped the lock and are about to notify_all
  ticket,     \* per worker: what became of its WorkerTicket
  wpc,        \* per worker: where its thread is
  cpc,        \* where the coordinator is
  spawned,    \* handles pushed by WorkerPool::spawn
  joined,     \* handles taken out of the pool and joined
  panicked,   \* panicking workers seen by start_with's join loop
  result      \* what the scope closure returns

gate == <<phase, settled, ready, lost, failures>>
pool == <<cpc, spawned, joined, panicked, result>>
vars == <<phase, settled, ready, lost, failures, asleep, owes, ticket, wpc,
          cpc, spawned, joined, panicked, result>>

Init ==
  /\ phase = "waiting"
  /\ settled = 0 /\ ready = 0 /\ lost = 0 /\ failures = 0
  /\ asleep = {} /\ owes = {}
  /\ ticket = [w \in Workers |-> "unminted"]
  /\ wpc = [w \in Workers |-> "unborn"]
  /\ cpc = "spawning"
  /\ spawned = 0 /\ joined = 0 /\ panicked = 0
  /\ result = "none"

-----------------------------------------------------------------------------
\* The gate's critical sections.

\* A thread may take its next step: not blocked, no notification pending.
Runnable(t) == t \notin asleep /\ t \notin owes

\* Mutant: the notification after the lock is forgotten.
SettleSilently(t, w, outcome) ==
  /\ settled' = settled + 1
  /\ ready' = IF outcome = "ready" THEN ready + 1 ELSE ready
  /\ lost' = IF outcome = "lost" THEN lost + 1 ELSE lost
  /\ failures' = IF outcome = "failed" THEN failures + 1 ELSE failures
  /\ ticket' = [ticket EXCEPT ![w] = outcome]
  /\ UNCHANGED <<phase, asleep, owes>>

\* StartGate::settle: count the outcome under the lock, notify after it.
Settle(t, w, outcome) ==
  /\ settled' = settled + 1
  /\ ready' = IF outcome = "ready" THEN ready + 1 ELSE ready
  /\ lost' = IF outcome = "lost" THEN lost + 1 ELSE lost
  /\ failures' = IF outcome = "failed" THEN failures + 1 ELSE failures
  /\ ticket' = [ticket EXCEPT ![w] = outcome]
  /\ owes' = owes \cup {t}
  /\ UNCHANGED <<phase, asleep>>

\* Mutant: the abort does not spare a released gate.
AbortAlways ==
  /\ phase' = "aborted"
  /\ owes' = owes \cup {Coord}
  /\ UNCHANGED <<settled, ready, lost, failures, asleep, ticket>>

\* StartGate::abort: a no-op once the gate is released, notifies either way.
Abort ==
  /\ phase' = IF phase = "waiting" THEN "aborted" ELSE phase
  /\ owes' = owes \cup {Coord}
  /\ UNCHANGED <<settled, ready, lost, failures, asleep, ticket>>

\* Condvar::notify_all, after the lock was dropped.
NotifyAll(t) ==
  /\ t \in owes
  /\ owes' = owes \ {t}
  /\ asleep' = {}
  /\ UNCHANGED <<gate, ticket, wpc, pool>>

\* A condition variable may wake a thread nobody notified.
SpuriousWake(t) ==
  /\ t \in asleep
  /\ asleep' = asleep \ {t}
  /\ UNCHANGED <<gate, owes, ticket, wpc, pool>>

-----------------------------------------------------------------------------
\* The worker threads.

\* arrive_and_wait, first half: warmed up, settles its ticket as ready.
Arrive(w) ==
  /\ wpc[w] = "setup" /\ Runnable(w)
  /\ Settle(w, w, "ready")
  /\ wpc' = [wpc EXCEPT ![w] = "gate"]
  /\ UNCHANGED pool

\* WorkerTicket::fail: setup went wrong, the reason is recorded.
Fail(w) ==
  /\ wpc[w] = "setup" /\ Runnable(w)
  /\ Settle(w, w, "failed")
  /\ wpc' = [wpc EXCEPT ![w] = "left"]
  /\ UNCHANGED pool

\* Drop for WorkerTicket: the closure panics, or returns, with its ticket.
Lose(w, how) ==
  /\ wpc[w] = "setup" /\ Runnable(w)
  /\ Settle(w, w, "lost")
  /\ wpc' = [wpc EXCEPT ![w] = how]
  /\ UNCHANGED pool

\* arrive_and_wait, second half: the loop over the phase under the lock.
CheckPhase(w) ==
  /\ wpc[w] = "gate" /\ Runnable(w)
  /\ \/ /\ phase = "released"
        /\ wpc' = [wpc EXCEPT ![w] = "measuring"]
        /\ UNCHANGED asleep
     \/ /\ phase = "aborted"
        /\ wpc' = [wpc EXCEPT ![w] = "left"]
        /\ UNCHANGED asleep
     \/ /\ phase = "waiting"
        /\ asleep' = asleep \cup {w}
        /\ UNCHANGED wpc
  /\ UNCHANGED <<gate, owes, ticket, pool>>

\* The measured loop ends: normally, or by a panic mid-run.
Finish(w, how) ==
  /\ wpc[w] = "measuring"
  /\ wpc' = [wpc EXCEPT ![w] = how]
  /\ UNCHANGED <<gate, asleep, owes, ticket, pool>>

Ended(w) == wpc[w] \in {"left", "finished", "panicked"} /\ w \notin owes

-----------------------------------------------------------------------------
\* The coordinator: the closure of thread::scope that owns the pool.

AtCoord(pc) == cpc = pc /\ Runnable(Coord)

\* WorkerPool::spawn, the OS starts the thread.
SpawnOk ==
  /\ AtCoord("spawning") /\ spawned < Planned
  /\ spawned' = spawned + 1
  /\ ticket' = [ticket EXCEPT ![spawned + 1] = "held"]
  /\ wpc' = [wpc EXCEPT ![spawned + 1] = "setup"]
  /\ UNCHANGED <<gate, asleep, owes, cpc, joined, panicked, result>>

\* WorkerPool::spawn, the OS refuses: dropping the closure loses the ticket.
SpawnRefused ==
  /\ AtCoord("spawning") /\ spawned < Planned
  /\ Settle(Coord, spawned + 1, "lost")
  /\ cpc' = "refused"
  /\ UNCHANGED <<wpc, spawned, joined, panicked, result>>

\* ... then the error arm aborts the gate and `?` leaves the closure.
AbortRefused ==
  /\ AtCoord("refused")
  /\ Abort
  /\ cpc' = "dropping" /\ result' = "err"
  /\ UNCHANGED <<wpc, spawned, joined, panicked>>

\* Any other early exit between `new` and the release: a `?` or a panic.
Bail ==
  /\ AtCoord("spawning") \/ AtCoord("stamping")
  /\ cpc' = "dropping" /\ result' = "err"
  /\ UNCHANGED <<gate, asleep, owes, ticket, wpc, spawned, joined, panicked>>

\* start_with on a pool that spawned a different number than planned.
StartMismatch ==
  /\ AtCoord("spawning") /\ spawned # Planned
  /\ Abort
  /\ cpc' = "draining" /\ result' = "err"
  /\ UNCHANGED <<wpc, spawned, joined, panicked>>

\* start_with on a complete pool: enter wait_ready.
Start ==
  /\ AtCoord("spawning") /\ spawned = Planned
  /\ cpc' = "waiting"
  /\ UNCHANGED <<gate, asleep, owes, ticket, wpc, spawned, joined, panicked, result>>

\* wait_ready, the loop condition holds: block on the condition variable.
WaitReadyBlock ==
  /\ AtCoord("waiting")
  /\ settled < spawned /\ phase # "aborted"
  /\ asleep' = asleep \cup {Coord}
  /\ UNCHANGED <<gate, owes, ticket, wpc, pool>>

\* Mutant: lost tickets are not looked at.
WaitReadyIgnoresLost ==
  /\ AtCoord("waiting")
  /\ settled >= spawned /\ phase # "aborted"
  /\ failures = 0
  /\ cpc' = "stamping"
  /\ UNCHANGED <<gate, asleep, owes, ticket, wpc, spawned, joined, panicked, result>>

\* wait_ready returns Ok: every ticket settled, all of them ready.
WaitReadyOk ==
  /\ AtCoord("waiting")
  /\ settled >= spawned /\ phase # "aborted"
  /\ lost = 0 /\ failures = 0
  /\ cpc' = "stamping"
  /\ UNCHANGED <<gate, asleep, owes, ticket, wpc, spawned, joined, panicked, result>>

\* wait_ready returns Err: it aborts the gate itself, then start_with drains.
WaitReadyErr ==
  /\ AtCoord("waiting")
  /\ settled >= spawned \/ phase = "aborted"
  /\ lost > 0 \/ failures > 0 \/ phase = "aborted"
  /\ phase' = "aborted"
  /\ owes' = owes \cup {Coord}
  /\ cpc' = "draining" /\ result' = "err"
  /\ UNCHANGED <<settled, ready, lost, failures, asleep, ticket, wpc, spawned,
                 joined, panicked>>

\* stamp() ran; StartGate::release opens the measured window.
Release ==
  /\ AtCoord("stamping")
  /\ phase' = IF phase = "waiting" THEN "released" ELSE phase
  /\ owes' = owes \cup {Coord}
  /\ cpc' = "joining"
  /\ UNCHANGED <<settled, ready, lost, failures, asleep, ticket, wpc, spawned,
                 joined, panicked, result>>

\* start_with joins the next handle and counts a panicking worker.
JoinCounting ==
  /\ AtCoord("joining") /\ joined < spawned
  /\ Ended(joined + 1)
  /\ joined' = joined + 1
  /\ panicked' = IF wpc[joined + 1] = "panicked" THEN panicked + 1 ELSE panicked
  /\ UNCHANGED <<gate, asleep, owes, ticket, wpc, cpc, spawned, result>>

\* Mutant: the surviving workers' results are reported.
ReportSurvivors ==
  /\ AtCoord("joining") /\ joined = spawned
  /\ result' = "ok"
  /\ cpc' = "dropping"
  /\ UNCHANGED <<gate, asleep, owes, ticket, wpc, spawned, joined, panicked>>

\* start_with returns: Ok only when no worker panicked mid-run.
Report ==
  /\ AtCoord("joining") /\ joined = spawned
  /\ result' = IF panicked > 0 THEN "err" ELSE "ok"
  /\ cpc' = "dropping"
  /\ UNCHANGED <<gate, asleep, owes, ticket, wpc, spawned, joined, panicked>>

\* WorkerPool::drain joins the next handle and discards its value.
Drain ==
  /\ AtCoord("draining") \/ AtCoord("dropped")
  /\ joined < spawned /\ Ended(joined + 1)
  /\ joined' = joined + 1
  /\ UNCHANGED <<gate, asleep, owes, ticket, wpc, cpc, spawned, panicked, result>>

\* start_with's error return reaches the end of the scope closure.
Drained ==
  /\ AtCoord("draining") /\ joined = spawned
  /\ cpc' = "dropping"
  /\ UNCHANGED <<gate, asleep, owes, ticket, wpc, spawned, joined, panicked, result>>

\* Drop for WorkerPool: abort the gate, then drain what is still unjoined.
DropPool ==
  /\ AtCoord("dropping")
  /\ Abort
  /\ cpc' = "dropped"
  /\ UNCHANGED <<wpc, spawned, joined, panicked, result>>

\* Mutant: the destructor does not drain.
LeaveUndrained ==
  /\ AtCoord("dropped")
  /\ cpc' = "done"
  /\ UNCHANGED <<gate, asleep, owes, ticket, wpc, spawned, joined, panicked, result>>

\* The drop is over: thread::scope has nothing left to join and returns.
LeaveScope ==
  /\ AtCoord("dropped") /\ joined = spawned
  /\ cpc' = "done"
  /\ UNCHANGED <<gate, asleep, owes, ticket, wpc, spawned, joined, panicked, result>>

-----------------------------------------------------------------------------
CoordStep ==
  \/ SpawnOk \/ SpawnRefused \/ AbortRefused \/ Bail
  \/ StartMismatch \/ Start
  \/ WaitReadyBlock \/ WaitReadyOk \/ WaitReadyErr
  \/ Release \/ JoinCounting \/ Report
  \/ Drain \/ Drained \/ DropPool \/ LeaveScope

WorkerStep(w) ==
  \/ Arrive(w) \/ Fail(w)
  \/ Lose(w, "panicked") \/ Lose(w, "left")
  \/ CheckPhase(w)
  \/ Finish(w, "finished") \/ Finish(w, "panicked")

\* The scope has returned; nothing is left to run.
Done == cpc = "done" /\ UNCHANGED vars

Next ==
  \/ CoordStep
  \/ \E w \in Workers : WorkerStep(w)
  \/ \E t \in Threads : NotifyAll(t)
  \/ \E t \in Threads : SpuriousWake(t)
  \/ Done

\* Every thread that can run is eventually scheduled, and a worker's setup and
\* measured loop end (the code has no deadline here and says so).
Fairness ==
  /\ WF_vars(CoordStep)
  /\ \A w \in Workers : WF_vars(WorkerStep(w))
  /\ \A t \in Threads : WF_vars(NotifyAll(t))

Spec == Init /\ [][Next]_vars /\ Fairness

-----------------------------------------------------------------------------
\* Properties.

Settled == {"ready", "failed", "lost"}

TypeOK ==
  /\ phase \in {"waiting", "released", "aborted"}
  /\ settled \in Nat /\ ready \in Nat /\ lost \in Nat /\ failures \in Nat
  /\ asleep \subseteq Threads /\ owes \subseteq Threads
  /\ ticket \in [Workers -> {"unminted", "held"} \cup Settled]
  /\ wpc \in [Workers -> {"unborn", "setup", "gate", "measuring", "finished",
                          "left", "panicked"}]
  /\ cpc \in {"spawning", "refused", "waiting", "stamping", "joining",
              "draining", "dropping", "dropped", "done"}
  /\ spawned \in 0..Planned /\ joined \in 0..Planned /\ panicked \in 0..Planned
  /\ result \in {"none", "ok", "err"}

\* A worker enters its measured loop only when all Planned workers warmed up
\* and reported ready: the run never starts at a lower concurrency than its
\* label (arrive_and_wait, wait_ready, release).
NoEarlyMeasurement ==
  (\E w \in Workers : wpc[w] \in {"measuring", "finished"})
     => spawned = Planned /\ \A w \in Workers : ticket[w] = "ready"

\* start_with returns Ok only for a run in which each of the Planned workers
\* went through the gate and through the whole measured loop.
OkMeansFullConcurrency ==
  result = "ok" => phase = "released" /\ \A w \in Workers : wpc[w] = "finished"

\* Although notify_all runs after the lock is dropped, no wake-up is lost: a
\* thread blocked on the condition variable is one whose condition to go on is
\* still false, or a notification is on its way.
NoLostWakeup ==
  owes = {} =>
    /\ Coord \in asleep => settled < spawned /\ phase # "aborted"
    /\ \A w \in Workers : w \in asleep => phase = "waiting"

\* When the scope returns every spawned worker was joined by the pool itself,
\* also on the error paths: thread::scope never meets an unjoined panic.
NoThreadOutlivesPool ==
  cpc = "done" =>
    joined = spawned /\ \A w \in 1..spawned : Ended(w)

\* The pool implements its contract.
Part(w) ==
  CASE wpc[w] = "unborn" -> "absent"
    [] wpc[w] = "setup" -> "warming"
    [] wpc[w] = "gate" -> "parked"
    [] wpc[w] = "left" -> "gone"
    [] wpc[w] = "panicked" -> IF ticket[w] = "ready" THEN "crashed" ELSE "gone"
    [] OTHER -> wpc[w]

Window == IF phase = "waiting" THEN "forming" ELSE IF phase = "released" THEN "open" ELSE "closed"
Work   == [w \in Workers |-> Part(w)]

Contract == INSTANCE StartContract WITH
  window <- Window,
  work <- Work,
  verdict <- result,
  returned <- (cpc = "done")

\* Every behaviour of the pool is, through Part, a behaviour of StartContract,
\* its progress included.
ImplementsContract == Contract!Spec

=============================================================================
