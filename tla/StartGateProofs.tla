--------------------------- MODULE StartGateProofs ---------------------------
(***************************************************************************)
(* The start gate's safety, for every number of workers.                   *)
(*                                                                         *)
(* Neither NoEarlyMeasurement nor OkMeansFullConcurrency is inductive.     *)
(* They rest on the stages of the coordinator (which phase the gate is in  *)
(* at each of them), on what a ticket says about its thread, and on the    *)
(* counting argument of wait_ready: when as many tickets have settled as   *)
(* there are workers, and none was lost or failed, all of them are ready.  *)
(***************************************************************************)
EXTENDS StartGate, FiniteSetTheorems, TLAPS

SettledSet == {w \in Workers : ticket[w] \in Settled}

AllReady == \A w \in Workers : ticket[w] = "ready"

\* The counters that wait_ready decides by, against the tickets.
Counting ==
  /\ settled = Cardinality(SettledSet)
  /\ lost = 0 => \A w \in Workers : ticket[w] # "lost"
  /\ failures = 0 => \A w \in Workers : ticket[w] # "failed"

\* What a thread's place says about its ticket, and about the gate.
Threading ==
  \A w \in Workers :
    /\ wpc[w] = "unborn" <=> w > spawned
    /\ wpc[w] = "unborn" => ticket[w] \in {"unminted", "lost"}
    /\ ticket[w] = "unminted" => wpc[w] = "unborn"
    /\ wpc[w] = "setup" <=> ticket[w] = "held"
    /\ wpc[w] \in {"gate", "measuring", "finished"} => ticket[w] = "ready"
    /\ wpc[w] \in {"measuring", "finished"} => phase = "released"
    /\ ticket[w] = "ready" /\ phase # "aborted" => wpc[w] # "left"
    /\ ticket[w] = "ready" /\ wpc[w] = "panicked" => phase = "released"

\* Where the coordinator is, against the gate.
Staging ==
  /\ cpc \in {"spawning", "refused", "waiting", "stamping"} =>
       phase = "waiting" /\ joined = 0 /\ panicked = 0 /\ result = "none"
  /\ cpc = "spawning" => \A w \in Workers : w > spawned => ticket[w] = "unminted"
  /\ cpc = "refused" => spawned < Planned
  /\ cpc \in {"waiting", "stamping", "joining"} => spawned = Planned
  /\ cpc \in {"stamping", "joining"} => AllReady
  /\ cpc = "joining" => phase = "released" /\ result = "none"
  /\ cpc = "draining" => phase = "aborted" /\ result = "err"
  /\ phase = "released" => AllReady /\ spawned = Planned
  /\ cpc = "done" => joined = spawned
  /\ phase = "released" /\ cpc \in {"dropping", "dropped"} => joined = spawned
  /\ cpc \in {"dropping", "dropped", "done"} => result # "none"
  /\ cpc = "dropping" /\ phase = "waiting" => result = "err"
  /\ cpc \in {"dropped", "done"} => phase # "waiting"
  /\ joined <= spawned

\* The joined handles.
Joining ==
  /\ \A w \in Workers : w <= joined => Ended(w)
  /\ panicked = 0 /\ phase = "released" =>
       \A w \in Workers : w <= joined => wpc[w] # "panicked"
  /\ panicked > 0 => \E w \in Workers : w <= joined /\ wpc[w] = "panicked"
  /\ panicked <= joined
  /\ result = "ok" => panicked = 0 /\ phase = "released" /\ joined = spawned

\* Who may be blocked on the condition variable, and until when.
Sleeping ==
  /\ Coord \in asleep =>
       cpc = "waiting" /\ (settled < spawned \/ owes # {})
  /\ \A w \in Workers : w \in asleep =>
       wpc[w] = "gate" /\ (phase = "waiting" \/ owes # {})

IInv == TypeOK /\ Counting /\ Threading /\ Staging /\ Joining /\ Sleeping

-----------------------------------------------------------------------------
\* The coordinator's identity differs from every worker's.
LEMMA CoordIsNoWorker == Coord \notin Workers
  BY PlannedAssumption DEF Coord, Workers

\* The counting argument of wait_ready: as many settled tickets as workers,
\* none lost and none failed, leaves only ready ones.
LEMMA AllSettledAllReady ==
  ASSUME TypeOK, Counting, settled >= Planned, lost = 0, failures = 0
  PROVE  AllReady
<1>1. IsFiniteSet(Workers) /\ Cardinality(Workers) = Planned
  BY FS_Interval, PlannedAssumption DEF Workers
<1>2. SettledSet \subseteq Workers
  BY DEF SettledSet
<1>3. IsFiniteSet(SettledSet) /\ Cardinality(SettledSet) <= Planned
  BY <1>1, <1>2, FS_Subset
<1>4. SettledSet = Workers
  BY <1>1, <1>2, <1>3, FS_Subset, FS_CardinalityType, PlannedAssumption DEF Counting, TypeOK
<1> QED
  BY <1>4 DEF SettledSet, Settled, AllReady, Counting

\* StartGate::settle keeps the counters in step with the tickets.
LEMMA SettleCounts ==
  ASSUME TypeOK, Counting, NEW t, NEW w \in Workers, NEW outcome \in Settled,
         ticket[w] \notin Settled, Settle(t, w, outcome)
  PROVE  Counting'
<1>1. IsFiniteSet(Workers)
  BY FS_Interval, PlannedAssumption DEF Workers
<1>2. IsFiniteSet(SettledSet)
  BY <1>1, FS_Subset DEF SettledSet
<1>3. ticket' = [ticket EXCEPT ![w] = outcome] /\ ticket \in [Workers -> {"unminted", "held"} \cup Settled]
  BY DEF Settle, TypeOK
<1>4. SettledSet' = SettledSet \cup {w} /\ w \notin SettledSet
  BY <1>3 DEF SettledSet
<1>5. Cardinality(SettledSet') = Cardinality(SettledSet) + 1
  BY <1>2, <1>4, FS_AddElement
<1>6. settled' = Cardinality(SettledSet')
  BY <1>5 DEF Settle, Counting
<1>7. lost' = 0 => \A v \in Workers : ticket'[v] # "lost"
  BY <1>3 DEF Settle, Counting, TypeOK, Settled
<1>8. failures' = 0 => \A v \in Workers : ticket'[v] # "failed"
  BY <1>3 DEF Settle, Counting, TypeOK, Settled
<1> QED
  BY <1>6, <1>7, <1>8 DEF Counting

\* A step that leaves tickets and counters alone leaves the counting alone.
LEMMA CountingFrame ==
  ASSUME Counting, UNCHANGED <<settled, lost, failures, ticket>>
  PROVE  Counting'
  BY DEF Counting, SettledSet

-----------------------------------------------------------------------------
LEMMA InitIInv == Init => IInv
<1> SUFFICES ASSUME Init PROVE IInv
  OBVIOUS
<1>1. SettledSet = {}
  BY DEF Init, SettledSet, Settled
<1>2. Counting
  BY <1>1, FS_EmptySet DEF Init, Counting
<1>3. TypeOK
  BY PlannedAssumption DEF Init, TypeOK, Threads, Workers, Settled
<1>4. Threading /\ Staging /\ Joining /\ Sleeping
  BY PlannedAssumption DEF Init, Threading, Staging, Joining, Sleeping, Workers, Coord, AllReady
<1> QED
  BY <1>2, <1>3, <1>4 DEF IInv

\* Worker steps before the gate: the ticket settles.
LEMMA WorkerSettles ==
  ASSUME IInv, NEW w \in Workers, wpc[w] = "setup", Runnable(w),
         NEW outcome \in Settled, Settle(w, w, outcome),
         NEW place \in {"gate", "left", "panicked"},
         place = "gate" <=> outcome = "ready",
         wpc' = [wpc EXCEPT ![w] = place], UNCHANGED pool
  PROVE  IInv'
<1> USE PlannedAssumption, CoordIsNoWorker DEF IInv
<1>1. ticket[w] = "held"
  BY DEF Threading
<1>2. Counting'
  BY <1>1, SettleCounts DEF Settled
<1>3. TypeOK'
  BY DEF TypeOK, Settle, pool, Threads
<1>4. phase # "released" /\ ~AllReady
  BY <1>1 DEF Staging, AllReady
<1>5. Threading'
  BY <1>1, <1>4 DEF Threading, Settle, TypeOK, pool, Settled
<1>6. Staging'
  BY <1>1, <1>4 DEF Staging, Settle, TypeOK, pool, AllReady, Threading
<1>7. Joining'
  BY <1>1, <1>4 DEF Joining, Settle, TypeOK, pool, Ended
<1>8. Sleeping'
  BY <1>1 DEF Sleeping, Settle, TypeOK, pool, Runnable
<1> QED
  BY <1>2, <1>3, <1>5, <1>6, <1>7, <1>8

\* Every action preserves the inductive invariant.
LEMMA NextIInv == IInv /\ [Next]_vars => IInv'
<1> SUFFICES ASSUME IInv, [Next]_vars PROVE IInv'
  OBVIOUS
<1> USE PlannedAssumption, CoordIsNoWorker
<1> DEFINE Rest == Threading /\ Staging /\ Joining /\ Sleeping
<1>0. TypeOK /\ Counting /\ Threading /\ Staging /\ Joining /\ Sleeping
  BY DEF IInv
<1>a. ASSUME UNCHANGED <<settled, lost, failures, ticket>>, TypeOK', Rest'
      PROVE  IInv'
  BY <1>a, <1>0, CountingFrame DEF IInv
<1> HIDE DEF Rest
<1>1. ASSUME NEW w \in Workers, WorkerStep(w) PROVE IInv'
  <2>1. CASE Arrive(w)
    BY <2>1, WorkerSettles DEF Arrive, Settled
  <2>2. CASE Fail(w)
    BY <2>2, WorkerSettles DEF Fail, Settled
  <2>3. CASE Lose(w, "panicked") \/ Lose(w, "left")
    BY <2>3, WorkerSettles DEF Lose, Settled
  <2>4. CASE CheckPhase(w)
    <3>1. TypeOK'
      BY <2>4, <1>0 DEF CheckPhase, TypeOK, gate, pool, Threads
    <3>2. Rest'
      BY <2>4, <1>0 DEF Rest, CheckPhase, TypeOK, Threading, Staging, Joining,
         Sleeping, AllReady, Ended, Runnable, gate, pool
    <3> QED  BY <3>1, <3>2, <2>4, <1>a DEF CheckPhase, gate
  <2>5. ASSUME NEW how \in {"finished", "panicked"}, Finish(w, how) PROVE IInv'
    <3>1. TypeOK'
      BY <2>5, <1>0 DEF Finish, TypeOK, gate, pool, Threads
    <3>2. Rest'
      BY <2>5, <1>0 DEF Rest, Finish, TypeOK, Threading, Staging, Joining,
         Sleeping, AllReady, Ended, gate, pool
    <3> QED  BY <3>1, <3>2, <2>5, <1>a DEF Finish, gate
  <2> QED  BY <1>1, <2>1, <2>2, <2>3, <2>4, <2>5 DEF WorkerStep
<1>2. ASSUME NEW t \in Threads, NotifyAll(t) \/ SpuriousWake(t) PROVE IInv'
  <2>1. TypeOK'
    BY <1>2, <1>0 DEF NotifyAll, SpuriousWake, TypeOK, gate, pool
  <2>2. Rest'
    BY <1>2, <1>0 DEF Rest, NotifyAll, SpuriousWake, TypeOK, Threading, Staging,
       Joining, Sleeping, AllReady, Ended, gate, pool
  <2> QED  BY <2>1, <2>2, <1>2, <1>a DEF NotifyAll, SpuriousWake, gate
<1>3. CASE CoordStep
  <2>1. CASE SpawnOk
    <3>1. spawned + 1 \in Workers /\ ticket[spawned + 1] = "unminted"
      BY <2>1, <1>0 DEF SpawnOk, AtCoord, Staging, TypeOK, Workers
    <3>2. TypeOK'
      BY <2>1, <1>0, <3>1 DEF SpawnOk, TypeOK, Workers, gate
    <3>3. SettledSet' = SettledSet
      BY <2>1, <1>0, <3>1 DEF SpawnOk, SettledSet, Settled, TypeOK
    <3>4. Counting'
      BY <2>1, <1>0, <3>1, <3>3 DEF SpawnOk, Counting, TypeOK, gate
    <3>5. Threading'
      BY <2>1, <1>0, <3>1 DEF SpawnOk, AtCoord, TypeOK, Threading, Staging, Workers, gate
    <3>6. Staging'
      BY <2>1, <1>0, <3>1 DEF SpawnOk, AtCoord, TypeOK, Staging, Workers, AllReady, gate
    <3>7. Joining' /\ Sleeping'
      BY <2>1, <1>0, <3>1 DEF SpawnOk, AtCoord, TypeOK, Joining, Sleeping, Staging,
         Threading, Ended, Workers, gate
    <3> QED  BY <3>2, <3>4, <3>5, <3>6, <3>7 DEF IInv
  <2>2. CASE SpawnRefused
    <3>1. spawned + 1 \in Workers /\ ticket[spawned + 1] = "unminted"
      BY <2>2, <1>0 DEF SpawnRefused, AtCoord, Staging, TypeOK, Workers
    <3>2. Counting'
      BY <2>2, <1>0, <3>1, SettleCounts DEF SpawnRefused, Settled
    <3>3. TypeOK'
      BY <2>2, <1>0, <3>1 DEF SpawnRefused, Settle, TypeOK, Settled, Threads
    <3>4. Threading'
      BY <2>2, <1>0, <3>1 DEF SpawnRefused, Settle, AtCoord, TypeOK, Threading, Staging, Workers
    <3>5. Staging'
      BY <2>2, <1>0, <3>1 DEF SpawnRefused, Settle, AtCoord, TypeOK, Staging, Workers, AllReady
    <3>6. Joining' /\ Sleeping'
      BY <2>2, <1>0, <3>1 DEF SpawnRefused, Settle, AtCoord, TypeOK, Joining, Sleeping,
         Staging, Ended, Workers
    <3> QED  BY <3>2, <3>3, <3>4, <3>5, <3>6 DEF IInv
  <2>3. CASE AbortRefused \/ StartMismatch \/ DropPool
    <3>1. TypeOK'
      BY <2>3, <1>0 DEF AbortRefused, StartMismatch, DropPool, Abort, TypeOK, Threads
    <3>2. Rest'
      BY <2>3, <1>0 DEF Rest, AbortRefused, StartMismatch, DropPool, Abort, AtCoord,
         TypeOK, Threading, Staging, Joining, Sleeping, AllReady, Ended, Runnable
    <3> QED  BY <3>1, <3>2, <2>3, <1>a DEF AbortRefused, StartMismatch, DropPool, Abort
  <2>4. CASE Bail \/ Start \/ Report \/ Drained \/ LeaveScope
    <3>1. TypeOK'
      BY <2>4, <1>0 DEF Bail, Start, Report, Drained, LeaveScope, TypeOK, gate
    <3>2. Rest'
      BY <2>4, <1>0 DEF Rest, Bail, Start, Report, Drained, LeaveScope, AtCoord, gate,
         TypeOK, Threading, Staging, Joining, Sleeping, AllReady, Ended, Runnable
    <3> QED  BY <3>1, <3>2, <2>4, <1>a DEF Bail, Start, Report, Drained, LeaveScope, gate
  <2>5. CASE WaitReadyBlock
    <3>1. TypeOK'
      BY <2>5, <1>0 DEF WaitReadyBlock, TypeOK, gate, pool, Threads
    <3>2. Rest'
      BY <2>5, <1>0 DEF Rest, WaitReadyBlock, AtCoord, gate, pool,
         TypeOK, Threading, Staging, Joining, Sleeping, AllReady, Ended, Runnable
    <3> QED  BY <3>1, <3>2, <2>5, <1>a DEF WaitReadyBlock, gate
  <2>6. CASE WaitReadyOk
    <3>1. AllReady
      BY <2>6, <1>0, AllSettledAllReady DEF WaitReadyOk, AtCoord, Staging, TypeOK
    <3>2. TypeOK'
      BY <2>6, <1>0 DEF WaitReadyOk, TypeOK, gate
    <3>3. Rest'
      BY <2>6, <1>0, <3>1 DEF Rest, WaitReadyOk, AtCoord, gate,
         TypeOK, Threading, Staging, Joining, Sleeping, AllReady, Ended, Runnable
    <3> QED  BY <3>2, <3>3, <2>6, <1>a DEF WaitReadyOk, gate
  <2>7. CASE WaitReadyErr
    <3>1. TypeOK'
      BY <2>7, <1>0 DEF WaitReadyErr, TypeOK, Threads
    <3>2. phase = "waiting"
      BY <2>7, <1>0 DEF WaitReadyErr, AtCoord, Staging
    <3>3. Rest'
      BY <2>7, <1>0, <3>2 DEF Rest, WaitReadyErr, AtCoord,
         TypeOK, Threading, Staging, Joining, Sleeping, AllReady, Ended, Runnable
    <3> QED  BY <3>1, <3>3, <2>7, <1>a DEF WaitReadyErr
  <2>9. CASE Release
    <3>1. TypeOK'
      BY <2>9, <1>0 DEF Release, TypeOK, Threads
    <3>2. phase = "waiting" /\ AllReady /\ spawned = Planned /\ joined = 0 /\ result = "none"
      BY <2>9, <1>0 DEF Release, AtCoord, Staging
    <3>3. Threading' /\ Staging'
      BY <2>9, <1>0, <3>2 DEF Release, TypeOK, Threading, Staging, AllReady
    <3>4. Joining'
      BY <2>9, <1>0, <3>2 DEF Release, TypeOK, Joining, Ended, Workers
    <3>5. Sleeping'
      BY <2>9, <1>0, <3>2 DEF Release, AtCoord, Runnable, Sleeping
    <3> QED  BY <3>1, <3>3, <3>4, <3>5, <2>9, <1>a DEF Release, Rest
  <2>8. CASE JoinCounting \/ Drain
    <3>1. TypeOK'
      BY <2>8, <1>0 DEF JoinCounting, Drain, Joining, TypeOK, gate
    <3>2. Rest'
      BY <2>8, <1>0 DEF Rest, JoinCounting, Drain, AtCoord, gate, Workers,
         TypeOK, Threading, Staging, Joining, Sleeping, AllReady, Ended, Runnable
    <3> QED  BY <3>1, <3>2, <2>8, <1>a DEF JoinCounting, Drain, gate
  <2> QED
    BY <1>3, <2>1, <2>2, <2>3, <2>4, <2>5, <2>6, <2>7, <2>8, <2>9 DEF CoordStep
<1>4. CASE UNCHANGED vars
  <2>1. TypeOK'
    BY <1>4, <1>0 DEF vars, TypeOK
  <2>2. Rest'
    BY <1>4, <1>0 DEF Rest, vars, Threading, Staging, Joining, Sleeping, AllReady, Ended
  <2> QED  BY <2>1, <2>2, <1>4, <1>a DEF vars
<1> QED
  BY <1>1, <1>2, <1>3, <1>4 DEF Next, Done

\* The inductive invariant holds in every reachable state of the gate.
THEOREM GateInvariance == Spec => []IInv
  BY InitIInv, NextIInv, PTL DEF Spec

\* The gate's state keeps its type, for every number of workers.
THEOREM TypeCorrect == Spec => []TypeOK
<1>1. IInv => TypeOK
  BY DEF IInv
<1> QED
  BY <1>1, GateInvariance, PTL

\* No worker enters its measured loop before all of them have warmed up.
THEOREM SynchronizedStart == Spec => []NoEarlyMeasurement
<1>1. IInv => NoEarlyMeasurement
  BY DEF IInv, NoEarlyMeasurement, Threading, Staging, AllReady
<1> QED
  BY <1>1, GateInvariance, PTL

\* A success of start_with is a run at the full planned concurrency.
THEOREM HonestSuccess == Spec => []OkMeansFullConcurrency
<1>1. IInv => OkMeansFullConcurrency
  <2> SUFFICES ASSUME IInv, result = "ok"
               PROVE  phase = "released" /\ \A w \in Workers : wpc[w] = "finished"
    BY DEF OkMeansFullConcurrency
  <2>1. phase = "released" /\ panicked = 0 /\ joined = Planned /\ AllReady
    BY DEF IInv, Joining, Staging
  <2>2. ASSUME NEW w \in Workers PROVE wpc[w] = "finished"
    <3>1. w <= joined
      BY <2>1, PlannedAssumption DEF Workers
    <3>2. Ended(w) /\ wpc[w] # "panicked"
      BY <2>1, <3>1 DEF IInv, Joining
    <3> QED
      BY <2>1, <3>2 DEF IInv, Threading, AllReady, Ended
  <2> QED
    BY <2>1, <2>2
<1> QED
  BY <1>1, GateInvariance, PTL

\* No notification is lost between a condition check and its wait.
THEOREM WakeupsArrive == Spec => []NoLostWakeup
<1>1. IInv => NoLostWakeup
  BY DEF IInv, NoLostWakeup, Sleeping, Staging
<1> QED
  BY <1>1, GateInvariance, PTL

\* The pool joins every thread it spawned before the scope returns.
THEOREM PoolDrains == Spec => []NoThreadOutlivesPool
<1>1. IInv => NoThreadOutlivesPool
  <2> SUFFICES ASSUME IInv, cpc = "done"
               PROVE  joined = spawned /\ \A w \in 1..spawned : Ended(w)
    BY DEF NoThreadOutlivesPool
  <2>1. joined = spawned /\ spawned \in 0..Planned
    BY DEF IInv, Staging, TypeOK
  <2>2. \A w \in 1..spawned : w \in Workers /\ w <= joined
    BY <2>1, PlannedAssumption DEF Workers
  <2> QED
    BY <2>1, <2>2 DEF IInv, Joining
<1> QED
  BY <1>1, GateInvariance, PTL

-----------------------------------------------------------------------------
\* The refinement of StartContract, step by step.

\* What the contract sees of a worker that an action moves, and of the others.
LEMMA OneMoves ==
  ASSUME IInv, NEW w \in Workers, NEW to, Part(w)' = to,
         \A v \in Workers : v # w => wpc'[v] = wpc[v] /\ ticket'[v] = ticket[v]
  PROVE  Work' = [Work EXCEPT ![w] = to]
<1>1. \A v \in Workers : v # w => Part(v)' = Part(v)
  BY DEF Part
<1> QED
  BY <1>1 DEF Work

\* Nothing the contract sees has changed.
LEMMA Stutters ==
  ASSUME IInv, UNCHANGED <<phase, wpc, result>>, (cpc' = "done") <=> (cpc = "done"),
         \A v \in Workers : ticket'[v] # ticket[v] => wpc[v] = "unborn"
  PROVE  UNCHANGED Contract!vars
<1>1. \A v \in Workers : Part(v)' = Part(v)
  BY DEF Part
<1> QED
  BY <1>1 DEF Contract!vars, Work, Window

LEMMA InitContract == Init => Contract!Init
<1> SUFFICES ASSUME Init PROVE Contract!Init
  OBVIOUS
<1>1. \A w \in Workers : Part(w) = "absent"
  BY DEF Init, Part
<1> QED
  BY <1>1 DEF Init, Contract!Init, Contract!Workers, Workers, Window, Work

LEMMA WorkerContract ==
  ASSUME IInv, NEW w \in Workers, WorkerStep(w)
  PROVE  [Contract!Next]_Contract!vars
<1> USE DEF Contract!Workers, Workers
<1>0. TypeOK /\ Threading
  BY DEF IInv
<1>1. UNCHANGED <<cpc, result, phase>>
  BY DEF WorkerStep, Arrive, Fail, Lose, CheckPhase, Finish, Settle, pool, gate
<1>2. \A v \in Workers : v # w => wpc'[v] = wpc[v] /\ ticket'[v] = ticket[v]
  BY <1>0 DEF WorkerStep, Arrive, Fail, Lose, CheckPhase, Finish, Settle, TypeOK
<1>3. ASSUME NEW from, NEW to, Part(w) = from, Part(w)' = to
      PROVE  Contract!Move(w, from, to)
  BY <1>1, <1>2, <1>3, OneMoves DEF Contract!Move, Work, Window
<1>4. CASE Arrive(w)
  <2>1. Part(w) = "warming" /\ Part(w)' = "parked"
    BY <1>0, <1>4 DEF Arrive, Part, TypeOK
  <2> QED
    BY <1>3, <2>1 DEF Contract!Next, Contract!Park
<1>5. CASE Fail(w) \/ Lose(w, "panicked") \/ Lose(w, "left")
  <2>1. Part(w) = "warming" /\ Part(w)' = "gone"
    BY <1>0, <1>5 DEF Fail, Lose, Settle, Part, TypeOK
  <2> QED
    BY <1>3, <2>1 DEF Contract!Next, Contract!Withdraw
<1>6. CASE CheckPhase(w)
  <2>1. Part(w) = "parked"
    BY <1>6 DEF CheckPhase, Part
  <2>2. CASE phase = "released"
    <3>1. Part(w)' = "measuring" /\ Window = "open"
      BY <1>0, <1>6, <2>2 DEF CheckPhase, Part, TypeOK, Window
    <3> QED
      BY <1>3, <2>1, <3>1 DEF Contract!Next, Contract!Begin
  <2>3. CASE phase = "aborted"
    <3>1. Part(w)' = "gone" /\ Window = "closed"
      BY <1>0, <1>6, <2>3 DEF CheckPhase, Part, TypeOK, Window
    <3> QED
      BY <1>3, <2>1, <3>1 DEF Contract!Next, Contract!Leave
  <2>4. CASE phase = "waiting"
    BY <1>1, <1>6, <2>4, Stutters DEF CheckPhase
  <2> QED
    BY <1>0, <2>2, <2>3, <2>4 DEF TypeOK
<1>7. CASE Finish(w, "finished") \/ Finish(w, "panicked")
  <2>1. Part(w) = "measuring" /\ Part(w)' \in {"finished", "crashed"}
    BY <1>0, <1>7 DEF Finish, Part, TypeOK, Threading
  <2> QED
    BY <1>3, <2>1 DEF Contract!Next, Contract!End
<1> QED
  BY <1>4, <1>5, <1>6, <1>7 DEF WorkerStep

LEMMA CoordContract ==
  ASSUME IInv, CoordStep
  PROVE  [Contract!Next]_Contract!vars
<1> USE PlannedAssumption DEF Contract!Workers
<1>0. TypeOK /\ Threading /\ Staging /\ Joining
  BY DEF IInv
<1>1. CASE SpawnOk
  <2> DEFINE w == spawned + 1
  <2>1. w \in Workers /\ w \in 1..Planned /\ wpc[w] = "unborn" /\ phase = "waiting"
    BY <1>0, <1>1 DEF SpawnOk, AtCoord, Staging, Threading, TypeOK, Workers
  <2>2. Part(w) = "absent" /\ wpc'[w] = "setup"
    BY <1>0, <1>1, <2>1 DEF SpawnOk, Part, TypeOK
  <2>3. \A v \in Workers : v # w => wpc'[v] = wpc[v] /\ ticket'[v] = ticket[v]
    BY <1>0, <1>1 DEF SpawnOk, TypeOK
  <2>4. ASSUME NEW v \in Workers, v = w PROVE Part(v)' = "warming"
    BY <2>2, <2>4 DEF Part
  <2>5. ASSUME NEW v \in Workers, v = w PROVE Work' = [Work EXCEPT ![v] = "warming"]
    BY <2>3, <2>4, <2>5, OneMoves
  <2>6. Contract!Recruit(w)
    BY <1>1, <2>1, <2>2, <2>5 DEF Contract!Recruit, Contract!Move, SpawnOk, AtCoord, gate, Window, Work
  <2> QED
    BY <2>1, <2>6 DEF Contract!Next
<1>2. CASE SpawnRefused
  <2>1. \A v \in Workers : ticket'[v] # ticket[v] => wpc[v] = "unborn"
    BY <1>0, <1>2 DEF SpawnRefused, Settle, Threading, TypeOK, Workers
  <2> QED
    BY <1>2, <2>1, Stutters DEF SpawnRefused, Settle, AtCoord
<1>3. ASSUME phase = "waiting", phase' = "aborted", result' = "err", cpc # "done", cpc' # "done",
             UNCHANGED <<wpc, ticket>>
      PROVE  Contract!Close
  BY <1>3 DEF Contract!Close, Window, Work, Part
<1>4. CASE AbortRefused \/ StartMismatch \/ WaitReadyErr
  <2>1. Contract!Close
    BY <1>0, <1>3, <1>4 DEF AbortRefused, StartMismatch, WaitReadyErr, Abort, AtCoord, Staging
  <2> QED
    BY <2>1 DEF Contract!Next
<1>5. CASE DropPool
  <2>1. CASE phase = "waiting"
    <3>1. Contract!Close
      BY <1>0, <1>3, <1>5, <2>1 DEF DropPool, Abort, AtCoord, Staging
    <3> QED
      BY <3>1 DEF Contract!Next
  <2>2. CASE phase # "waiting"
    BY <1>5, <2>2, Stutters DEF DropPool, Abort, AtCoord
  <2> QED
    BY <2>1, <2>2
<1>6. CASE Bail
  <2>1. Contract!Refuse
    BY <1>0, <1>6 DEF Bail, AtCoord, Staging, gate, Contract!Refuse, Window, Work, Part
  <2> QED
    BY <2>1 DEF Contract!Next
<1>7. CASE Start \/ WaitReadyBlock \/ WaitReadyOk \/ JoinCounting \/ Drain \/ Drained
  BY <1>7, Stutters DEF Start, WaitReadyBlock, WaitReadyOk, JoinCounting, Drain, Drained, AtCoord, gate, pool
<1>8. CASE Release
  <2>1. phase = "waiting" /\ AllReady /\ result = "none" /\ cpc = "stamping"
    BY <1>0, <1>8 DEF Release, AtCoord, Staging
  <2>2. ASSUME NEW w \in Workers PROVE Part(w) = "parked"
    <3>1. wpc[w] = "gate"
      BY <1>0, <2>1 DEF Threading, AllReady, TypeOK
    <3> QED
      BY <3>1 DEF Part
  <2>3. Contract!Open
    BY <1>8, <2>1, <2>2 DEF Release, Contract!Open, Window, Work, Part, Workers
  <2> QED
    BY <2>3 DEF Contract!Next
<1>9. CASE Report
  <2>1. /\ phase = "released" /\ AllReady /\ result = "none" /\ joined = Planned /\ cpc = "joining"
        /\ panicked \in Nat
    BY <1>0, <1>9 DEF Report, AtCoord, Staging, TypeOK
  <2>2. ASSUME NEW w \in Workers
        PROVE  /\ wpc[w] \in {"finished", "panicked"} /\ w <= joined
               /\ Part(w) = IF wpc[w] = "panicked" THEN "crashed" ELSE "finished"
    <3>1. w <= joined
      BY <2>1 DEF Workers
    <3>2. wpc[w] \in {"finished", "panicked"} /\ ticket[w] = "ready"
      BY <1>0, <2>1, <3>1 DEF Joining, Ended, Threading, AllReady
    <3> QED
      BY <3>1, <3>2 DEF Part
  <2>3. panicked > 0 <=> \E w \in Workers : Part(w) = "crashed"
    BY <1>0, <2>1, <2>2 DEF Joining
  <2>4. Contract!Judge
    BY <1>9, <2>1, <2>2, <2>3 DEF Report, Contract!Judge, gate, Window, Work, Part, Workers
  <2> QED
    BY <2>4 DEF Contract!Next
<1>10. CASE LeaveScope
  <2>1. phase # "waiting" /\ result # "none" /\ joined = spawned
    BY <1>0, <1>10 DEF LeaveScope, AtCoord, Staging
  <2>2. ASSUME NEW w \in Workers PROVE Part(w) \notin {"warming", "parked", "measuring"}
    <3>1. wpc[w] \in {"unborn", "left", "finished", "panicked"}
      BY <1>0, <2>1 DEF Joining, Ended, Threading, TypeOK, Workers
    <3> QED
      BY <3>1 DEF Part
  <2>3. Contract!Return
    BY <1>10, <2>1, <2>2 DEF LeaveScope, AtCoord, Contract!Return, gate, Window, Work, Part, Workers
  <2> QED
    BY <2>3 DEF Contract!Next
<1> QED
  BY <1>1, <1>2, <1>4, <1>5, <1>6, <1>7, <1>8, <1>9, <1>10 DEF CoordStep

LEMMA NextContract == IInv /\ [Next]_vars => [Contract!Next]_Contract!vars
<1> SUFFICES ASSUME IInv, [Next]_vars PROVE [Contract!Next]_Contract!vars
  OBVIOUS
<1>1. ASSUME NEW t \in Threads, NotifyAll(t) \/ SpuriousWake(t) PROVE UNCHANGED Contract!vars
  BY <1>1, Stutters DEF NotifyAll, SpuriousWake, gate, pool
<1>2. CASE UNCHANGED vars
  BY <1>2, Stutters DEF vars
<1> QED
  BY <1>1, <1>2, WorkerContract, CoordContract DEF Next, Done

\* Every step of the gate, its tickets and the WorkerPool is, through Part, a
\* step StartContract allows, for every number of workers: the window opens once
\* and over a full set of parked workers, and the caller's verdict is the
\* contract's.  The progress it promises too is left to the model checker.
THEOREM PoolKeepsContract == Spec => Contract!Init /\ [][Contract!Next]_Contract!vars
<1> QED
  BY InitContract, NextContract, GateInvariance, PTL DEF Spec

=============================================================================
