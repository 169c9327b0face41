---------------------------- MODULE CorpusProofs ----------------------------
(***************************************************************************)
(* A corpus from its preparation to the engine.  In memory, for every      *)
(* engine row and every number of workers, batches and retries: a batch    *)
(* has one owner, and Ok means stored.  Streamed, for every corpus, block  *)
(* size, payload file and number of workers: Ok means exactly the corpus.  *)
(* Published by prepare-msmarco, for every set of subcommands: what a      *)
(* reader may take is whole, and what was cut short can be finished.  And  *)
(* downloaded, checked and read by any number of runs: what is measured is *)
(* the dataset that was declared.                                          *)
(***************************************************************************)
EXTENDS UploadWorkers, UploadStream, Publication, CorpusSource, FiniteSetTheorems, TLAPS

\* A held batch was taken off the counter.
Claimed == \A w \in Workers : Holds(w) => at[w] < next /\ at[w] < total

\* Without an error or a hung worker, a batch taken off the counter is stored
\* or in some worker's hands: it cannot get lost between the two.
Conserved ==
  ~err /\ ~engine.lenient /\ ~Hung =>
    \A b \in AllBatches : b < next /\ b < total =>
      stored[b] = "whole" \/ \E w \in Workers : Holds(w) /\ at[w] = b

\* Without an error, a spawned thread leaves only when the counter is used up.
Drained ==
  ~err => \A w \in Workers : w <= Threads /\ pc[w] = "done" => next >= total

\* The verdict is given once, after the join.
Verdict ==
  /\ result # "none" => \A w \in Workers : pc[w] = "done"
  /\ result = "ok" => ~err

IInv == TypeOK /\ Claimed /\ OneOwner /\ Conserved /\ Drained /\ Verdict

LEMMA RowType ==
  ASSUME TypeOK
  PROVE  /\ engine \in EngineRow
         /\ \A c \in Classes : engine.meter[c] \in Meters \cup {"none"}
<1>1. engine \in EngineRow
  BY UploadAssumption DEF TypeOK
<1> QED
  BY <1>1 DEF EngineRow

LEMMA BatchType == AllBatches \subseteq Nat
BY UploadAssumption DEF AllBatches

LEMMA InitIInv == Init => IInv
<1> SUFFICES ASSUME Init PROVE IInv
  OBVIOUS
<1>1. parallel \in Nat /\ total \in Nat /\ Workers \subseteq Nat
  BY UploadAssumption DEF Init, Workers
<1>2. TypeOK
  BY <1>1, UploadAssumption DEF Init, TypeOK, NoTries
<1>3. Claimed /\ OneOwner
  BY <1>1 DEF Init, Claimed, OneOwner, Holds
<1>4. Conserved
  BY <1>1, BatchType DEF Init, Conserved, Hung
<1>5. Drained
  BY <1>1 DEF Init, Drained
<1>6. Verdict
  BY DEF Init, Verdict
<1> QED
  BY <1>2, <1>3, <1>4, <1>5, <1>6 DEF IInv

\* What a send does, whatever comes of it.
LEMMA SendKeeps ==
  ASSUME IInv, NEW w \in Workers, NEW kept \in {"none", "part", "whole"}, Send(w, kept)
  PROVE  /\ stored' \in [AllBatches -> {"none", "part", "whole"}]
         /\ sends' \in [AllBatches -> Nat]
         /\ pc[w] = "send" /\ at[w] \in AllBatches /\ at[w] < next
         /\ \A b \in AllBatches : b # at[w] => stored'[b] = stored[b] /\ sends'[b] = sends[b]
         /\ \A b \in AllBatches : stored[b] = "whole" => stored'[b] = "whole"
         /\ kept = "whole" => stored'[at[w]] = "whole"
<1>1. pc[w] = "send" /\ at[w] \in AllBatches /\ at[w] < next
  BY DEF IInv, TypeOK, Claimed, Holds, Send
<1>2. /\ stored \in [AllBatches -> {"none", "part", "whole"}]
      /\ sends \in [AllBatches -> Nat]
  BY DEF IInv, TypeOK
<1>3. stored' \in [AllBatches -> {"none", "part", "whole"}]
  BY <1>1, <1>2 DEF Send
<1>4. sends' \in [AllBatches -> Nat]
  BY <1>1, <1>2 DEF Send
<1> QED
  BY <1>1, <1>2, <1>3, <1>4 DEF Send

\* Giving up is recorded, so nothing is promised of the batch any more.
LEMMA GiveUpKeeps ==
  ASSUME IInv, NEW w \in Workers,
         GiveUp(w), pc[w] = "send", UNCHANGED <<setup, next, at, result>>,
         TypeOK'
  PROVE  Claimed' /\ Conserved' /\ Drained' /\ Verdict'
         /\ \A v, x \in Workers : Holds(v)' /\ Holds(x)' /\ at'[v] = at'[x] => v = x
<1>1. err' = TRUE /\ \A v \in Workers : v # w => pc'[v] = pc[v]
  BY DEF GiveUp, Goto, IInv, TypeOK
<1>2. pc'[w] \in {"done", "claim"}
  BY DEF GiveUp, Goto, IInv, TypeOK
<1>3. \A v \in Workers : Holds(v)' => v # w /\ Holds(v)
  BY <1>1, <1>2 DEF Holds
<1>4. Claimed'
  BY <1>3 DEF IInv, Claimed, setup
<1>5. Conserved' /\ Drained'
  BY <1>1 DEF Conserved, Drained
<1>6. Verdict'
  BY <1>1, <1>2 DEF IInv, Verdict
<1> QED
  BY <1>3, <1>4, <1>5, <1>6 DEF IInv, OneOwner

\* A step of a worker keeps the invariant.
LEMMA WorkerIInv ==
  ASSUME IInv, NEW w \in Workers, Worker(w)
  PROVE  IInv'
<1> USE DEF IInv
<1>1. /\ total \in Nat /\ next \in Nat /\ parallel \in Nat /\ AllBatches \subseteq Nat
      /\ w \in Nat /\ at \in [Workers -> Nat] /\ result = "none"
      /\ Hung => Hung'
  <2>1. total \in Nat /\ parallel \in Nat /\ w \in Nat
    BY UploadAssumption DEF TypeOK, Workers
  <2>2. result = "none" /\ pc[w] # "hung"
    BY DEF Worker, Verdict, Setup, SetupFails, Hang, Claim, Check, Accepted, Muffled,
           TokenRefused, Refused, Send
  <2>3. \A v \in Workers : v # w => pc'[v] = pc[v]
    BY DEF Worker, Setup, SetupFails, Hang, Claim, Check, Accepted, Muffled, TokenRefused,
           Refused, Proceed, GiveUp, Goto, TypeOK
  <2> QED
    BY <2>1, <2>2, <2>3, BatchType DEF TypeOK, Hung
<1>2. CASE Setup(w)
  <2>1. \A v \in Workers : Holds(v)' <=> Holds(v)
    BY <1>2 DEF Setup, Goto, Holds, TypeOK
  <2>2. TypeOK'
    BY <1>2, <2>1 DEF Setup, Goto, TypeOK, setup
  <2>3. \A v \in Workers : pc'[v] = "done" => pc[v] = "done"
    BY <1>2 DEF Setup, Goto, TypeOK
  <2>4. Claimed' /\ OneOwner' /\ Conserved'
    BY <1>1, <1>2, <2>1 DEF Setup, Claimed, OneOwner, Conserved, setup
  <2>5. Drained' /\ Verdict'
    BY <1>1, <1>2, <2>3 DEF Setup, Drained, Verdict, Threads, Sequential, setup
  <2> QED
    BY <2>2, <2>4, <2>5
<1>3. CASE SetupFails(w)
  <2>1. \A v \in Workers : Holds(v)' <=> Holds(v)
    BY <1>3 DEF SetupFails, Goto, Holds, TypeOK
  <2>2. TypeOK'
    BY <1>3, <2>1 DEF SetupFails, Goto, TypeOK, setup
  <2>3. Claimed' /\ OneOwner' /\ Conserved'
    BY <1>3, <2>1 DEF SetupFails, Claimed, OneOwner, Conserved, setup
  <2>4. Drained' /\ Verdict'
    BY <1>1, <1>3 DEF SetupFails, Drained, Verdict
  <2> QED
    BY <2>2, <2>3, <2>4
<1>4. CASE Claim(w)
  <2>1. /\ next' = next + 1 /\ UNCHANGED <<setup, err, stored, sends, result>>
        /\ at' = [at EXCEPT ![w] = next] /\ pc[w] = "claim"
        /\ pc' = [pc EXCEPT ![w] = IF next < total THEN "check" ELSE "done"]
    BY <1>4 DEF Claim, Goto
  <2>2. \A v \in Workers : v # w => (Holds(v)' <=> Holds(v)) /\ at'[v] = at[v] /\ pc'[v] = pc[v]
    BY <2>1 DEF Holds, TypeOK
  <2>3. ~Holds(w) /\ at'[w] = next /\ (Holds(w)' <=> next < total)
        /\ pc'[w] = (IF next < total THEN "check" ELSE "done")
    BY <1>1, <2>1 DEF Holds, TypeOK
  <2>4. next < total => next \in AllBatches
    BY <1>1, UploadAssumption DEF AllBatches, TypeOK
  <2>5. TypeOK'
    <3>1. tries' \in [Workers -> [Meters -> Nat]]
      BY <1>4 DEF Claim, TypeOK, NoTries
    <3>2. \A v \in Workers : pc'[v] \in {"check", "send"} => at'[v] \in AllBatches
      BY <2>2, <2>3, <2>4 DEF TypeOK, Holds
    <3>3. pc' \in [Workers -> {"setup", "claim", "check", "send", "hung", "done"}]
          /\ at' \in [Workers -> Nat] /\ next' \in Nat
      BY <1>1, <2>1 DEF TypeOK
    <3> QED
      BY <2>1, <3>1, <3>2, <3>3 DEF TypeOK, setup
  <2>6. Claimed'
    BY <1>1, <2>1, <2>2, <2>3 DEF Claimed, setup
  <2>7. OneOwner'
    <3>1. \A v \in Workers : Holds(v) => at[v] # next
      BY <1>1 DEF Claimed
    <3>2. \A b \in AllBatches : b >= next' => sends'[b] = 0
      BY <1>1, <2>1 DEF OneOwner
    <3>3. \A v, x \in Workers : Holds(v)' /\ Holds(x)' /\ at'[v] = at'[x] => v = x
      BY <2>2, <2>3, <3>1 DEF OneOwner
    <3> QED
      BY <3>2, <3>3 DEF OneOwner
  <2>8. Conserved'
    <3> SUFFICES ASSUME ~err, ~engine.lenient, ~Hung, NEW b \in AllBatches, b < next + 1, b < total
                 PROVE  stored[b] = "whole" \/ \E v \in Workers : Holds(v)' /\ at'[v] = b
      BY <1>1, <2>1 DEF Conserved, setup
    <3>1. CASE b = next
      BY <2>3, <3>1
    <3>2. CASE b < next
      BY <2>2, <2>3, <3>2 DEF Conserved
    <3> QED
      BY <1>1, <3>1, <3>2
  <2>9. Drained'
    BY <1>1, <2>1, <2>2, <2>3 DEF Drained, Threads, Sequential, setup
  <2>10. Verdict'
    BY <1>1, <2>1 DEF Verdict
  <2> QED
    BY <2>5, <2>6, <2>7, <2>8, <2>9, <2>10
<1>5. CASE Check(w)
  <2>1. \A v \in Workers : Holds(v)' => Holds(v)
    BY <1>5 DEF Check, Goto, Holds, TypeOK
  <2>2. ~err => \A v \in Workers : (Holds(v)' <=> Holds(v)) /\ (pc'[v] = "done" => pc[v] = "done")
    BY <1>5 DEF Check, Goto, Holds, TypeOK
  <2>3. TypeOK'
    BY <1>5, <2>1 DEF Check, Goto, TypeOK, setup, Holds
  <2>4. Claimed' /\ OneOwner'
    BY <1>5, <2>1 DEF Check, Claimed, OneOwner, setup
  <2>5. Conserved'
    BY <1>1, <1>5, <2>2 DEF Check, Conserved, setup
  <2>6. Drained' /\ Verdict'
    BY <1>1, <1>5, <2>2 DEF Check, Drained, Verdict, Threads, Sequential, setup
  <2> QED
    BY <2>3, <2>4, <2>5, <2>6
<1>6. ASSUME NEW kept \in {"none", "part", "whole"}, Send(w, kept), Proceed(w),
             kept = "whole" \/ engine.lenient,
             UNCHANGED <<setup, next, err, at, tries, result>>
      PROVE  IInv'
  <2>1. \A v \in Workers : v # w => pc'[v] = pc[v] /\ (Holds(v)' <=> Holds(v))
    BY <1>6 DEF Proceed, Goto, Holds, TypeOK
  <2>2. pc'[w] \in {"claim", "done"} /\ ~Holds(w)' /\ (~err => pc'[w] = "claim")
    BY <1>6 DEF Proceed, Goto, Holds, TypeOK
  <2>3. TypeOK'
    <3>1. pc' \in [Workers -> {"setup", "claim", "check", "send", "hung", "done"}]
      BY <1>6 DEF Proceed, Goto, TypeOK
    <3>2. \A v \in Workers : pc'[v] \in {"check", "send"} => at'[v] \in AllBatches
      BY <1>6, <2>1, <2>2 DEF TypeOK
    <3> QED
      BY <1>6, <3>1, <3>2, SendKeeps DEF TypeOK, setup
  <2>4. Claimed'
    BY <1>6, <2>1, <2>2 DEF Claimed, setup
  <2>5. OneOwner'
    <3>1. \A b \in AllBatches : b >= next => sends'[b] = 0
      BY <1>1, <1>6, SendKeeps DEF OneOwner
    <3> QED
      BY <1>6, <2>1, <2>2, <3>1 DEF OneOwner
  <2>6. Conserved'
    <3> SUFFICES ASSUME ~err, ~engine.lenient, ~Hung, NEW b \in AllBatches, b < next, b < total
                 PROVE  stored'[b] = "whole" \/ \E v \in Workers : Holds(v)' /\ at[v] = b
      BY <1>1, <1>6 DEF Conserved, setup
    <3>1. CASE b = at[w]
      BY <1>6, <3>1, SendKeeps
    <3>2. CASE b # at[w]
      <4>1. stored[b] = "whole" \/ \E v \in Workers : Holds(v) /\ at[v] = b
        BY DEF Conserved
      <4> QED
        BY <1>6, <2>1, <3>2, <4>1, SendKeeps
    <3> QED
      BY <3>1, <3>2
  <2>7. Drained' /\ Verdict'
    BY <1>1, <1>6, <2>1, <2>2 DEF Drained, Verdict, Threads, Sequential, setup
  <2> QED
    BY <2>3, <2>4, <2>5, <2>6, <2>7
<1>7. CASE Accepted(w)
  BY <1>6, <1>7 DEF Accepted
<1>8. CASE Muffled(w)
  BY <1>6, <1>8 DEF Muffled
<1>9. CASE TokenRefused(w)
  <2>1. pc[w] = "send" /\ GiveUp(w) /\ UNCHANGED <<setup, next, at, result>>
    BY <1>9 DEF TokenRefused
  <2>2. TypeOK'
    BY <1>9 DEF TokenRefused, GiveUp, Goto, TypeOK, setup, Classes
  <2>3. OneOwner'
    BY <1>9, <2>1, <2>2, GiveUpKeeps DEF TokenRefused, OneOwner
  <2> QED
    BY <2>1, <2>2, <2>3, GiveUpKeeps
<1>10. ASSUME NEW class \in Classes, Refused(w, class) PROVE IInv'
  <2>1. PICK kept \in {"none", "part", "whole"} : Send(w, kept)
    BY <1>10 DEF Refused, Kept
  <2>2. UNCHANGED <<setup, next, at, result>>
    BY <1>10 DEF Refused
  <2>3. \A b \in AllBatches : b >= next' => sends'[b] = 0
    BY <1>1, <2>1, <2>2, SendKeeps DEF OneOwner
  <2>4. CASE /\ Retried(w, class)
             /\ tries' = [tries EXCEPT ![w][engine.meter[class]] = @ + 1]
             /\ UNCHANGED <<err, pc>>
    <3>1. engine.meter[class] \in Meters
      BY <2>4, RowType DEF Retried
    <3>2. tries' \in [Workers -> [Meters -> Nat]]
      BY <2>4, <3>1 DEF TypeOK
    <3>3. TypeOK'
      BY <2>1, <2>2, <2>4, <3>2, SendKeeps DEF TypeOK, setup
    <3>4. \A v \in Workers : Holds(v)' <=> Holds(v)
      BY <2>4 DEF Holds
    <3>5. Claimed' /\ OneOwner'
      BY <2>2, <2>3, <3>4 DEF Claimed, OneOwner, setup
    <3>6. Conserved'
      <4> SUFFICES ASSUME ~err, ~engine.lenient, ~Hung, NEW b \in AllBatches, b < next, b < total
                   PROVE  stored'[b] = "whole" \/ \E v \in Workers : Holds(v)' /\ at[v] = b
        BY <1>1, <2>2, <2>4 DEF Conserved, setup
      <4> QED
        BY <2>1, <3>4, SendKeeps DEF Conserved
    <3>7. Drained' /\ Verdict'
      BY <2>2, <2>4 DEF Drained, Verdict, Threads, Sequential, setup
    <3> QED
      BY <3>3, <3>5, <3>6, <3>7
  <2>5. CASE GiveUp(w) /\ UNCHANGED tries
    <3>1. pc[w] = "send"
      BY <2>1 DEF Send
    <3>2. TypeOK'
      <4>1. pc' \in [Workers -> {"setup", "claim", "check", "send", "hung", "done"}]
            /\ \A v \in Workers : pc'[v] \in {"check", "send"} => pc[v] \in {"check", "send"}
        BY <2>5 DEF GiveUp, Goto, TypeOK
      <4>2. err' = TRUE
        BY <2>5 DEF GiveUp
      <4> QED
        BY <2>1, <2>2, <2>5, <4>1, <4>2, SendKeeps DEF TypeOK, setup
    <3> QED
      BY <2>2, <2>3, <2>5, <3>1, <3>2, GiveUpKeeps DEF OneOwner
  <2> QED
    BY <1>10, <2>4, <2>5 DEF Refused
<1>11. CASE Hang(w)
  <2>1. /\ UNCHANGED <<setup, next, err, at, tries, result>> /\ pc' = [pc EXCEPT ![w] = "hung"]
        /\ pc[w] # "hung"
    BY <1>11 DEF Hang, Goto, Send
  <2>2. pc'[w] = "hung" /\ \A v \in Workers : v # w => pc'[v] = pc[v]
    BY <2>1 DEF TypeOK
  <2>3. Hung' /\ \A v \in Workers : (Holds(v)' => Holds(v)) /\ (pc'[v] = "done" => pc[v] = "done")
    BY <2>2 DEF Holds, Hung
  <2>4. \/ UNCHANGED <<stored, sends>>
        \/ \E kept \in {"none", "part", "whole"} : Send(w, kept)
    BY <1>11 DEF Hang
  <2>5. /\ stored' \in [AllBatches -> {"none", "part", "whole"}]
        /\ sends' \in [AllBatches -> Nat]
        /\ \A b \in AllBatches : b >= next => sends'[b] = 0
    <3>1. CASE UNCHANGED <<stored, sends>>
      BY <3>1 DEF TypeOK, OneOwner
    <3>2. CASE \E kept \in {"none", "part", "whole"} : Send(w, kept)
      <4>1. PICK kept \in {"none", "part", "whole"} : Send(w, kept)
        BY <3>2
      <4>2. stored' \in [AllBatches -> {"none", "part", "whole"}] /\ sends' \in [AllBatches -> Nat]
        BY <4>1, SendKeeps
      <4>3. at[w] < next /\ \A b \in AllBatches : b # at[w] => sends'[b] = sends[b]
        BY <4>1, SendKeeps
      <4> QED
        BY <1>1, <4>2, <4>3 DEF OneOwner
    <3> QED
      BY <2>4, <3>1, <3>2
  <2>6. TypeOK'
    <3>1. pc' \in [Workers -> {"setup", "claim", "check", "send", "hung", "done"}]
      BY <2>1 DEF TypeOK
    <3>2. \A v \in Workers : pc'[v] \in {"check", "send"} => at'[v] \in AllBatches
      BY <2>1, <2>3 DEF TypeOK, Holds
    <3> QED
      BY <2>1, <2>5, <3>1, <3>2 DEF TypeOK, setup
  <2>7. Claimed' /\ OneOwner'
    BY <2>1, <2>3, <2>5 DEF Claimed, OneOwner, setup
  <2>8. Conserved'
    BY <2>3 DEF Conserved
  <2>9. Drained' /\ Verdict'
    BY <1>1, <2>1, <2>3 DEF Drained, Verdict, Threads, Sequential, setup
  <2> QED
    BY <2>6, <2>7, <2>8, <2>9
<1> QED
  BY <1>2, <1>3, <1>4, <1>5, <1>7, <1>8, <1>9, <1>10, <1>11 DEF Worker

LEMMA NextIInv == IInv /\ [Next]_vars => IInv'
<1> SUFFICES ASSUME IInv, [Next]_vars PROVE IInv'
  OBVIOUS
<1>1. CASE \E w \in Workers : Worker(w)
  BY <1>1, WorkerIInv
<1>2. CASE Finish
  BY <1>2 DEF Finish, IInv, TypeOK, Claimed, OneOwner, Holds, Conserved, Hung, Drained, Verdict,
     Threads, Sequential, setup
<1>3. CASE PoolFails
  BY <1>3 DEF PoolFails, IInv, TypeOK, Claimed, OneOwner, Holds, Conserved, Drained, Verdict, setup
<1>4. CASE UNCHANGED vars
  BY <1>4 DEF vars, setup, IInv, TypeOK, Claimed, OneOwner, Holds, Conserved, Hung, Drained,
     Verdict, Threads, Sequential
<1> QED
  BY <1>1, <1>2, <1>3, <1>4 DEF Next, Done

\* The invariant holds in every state of an upload.
THEOREM UploadInvariance == Spec => []IInv
BY InitIInv, NextIInv, PTL DEF Spec

\* upload_parallel: the atomic counter gives every batch to one worker, and no
\* batch is sent before it is taken off the counter.
THEOREM SingleOwner == Spec => []OneOwner
<1>1. IInv => OneOwner
  BY DEF IInv
<1> QED
  BY <1>1, UploadInvariance, PTL

\* upload_parallel returns Ok only with every batch on the server, for every
\* engine row that reads its answers, any number of workers and any retries.
THEOREM OkIsHonest == Spec => []OkMeansStored
<1>1. IInv => OkMeansStored
  <2> SUFFICES ASSUME IInv, result = "ok", ~engine.lenient,
                      parallel > 0 \/ engine.seq \/ engine.floor,
                      NEW b \in AllBatches, b < total
               PROVE  stored[b] = "whole"
    BY DEF OkMeansStored
  <2>1. ~err /\ \A w \in Workers : pc[w] = "done"
    BY DEF IInv, Verdict
  <2>2. /\ total \in Nat /\ next \in Nat /\ b \in Nat
        /\ parallel \in Nat /\ 1 \in Workers /\ engine \in EngineRow
    BY UploadAssumption, BatchType DEF IInv, TypeOK, Workers
  <2>3. 1 <= Threads
    BY <2>2 DEF Threads, Min2, Sequential
  <2>4. next >= total
    BY <2>1, <2>2, <2>3 DEF IInv, Drained
  <2>5. ~Hung /\ \A w \in Workers : ~Holds(w)
    BY <2>1 DEF Holds, Hung
  <2> QED
    BY <2>1, <2>2, <2>4, <2>5 DEF IInv, Conserved
<1> QED
  BY <1>1, UploadInvariance, PTL

-----------------------------------------------------------------------------
\* The streamed upload.

Positions == 0..Rows
StreamTypes ==
  /\ payloads \in Payloads /\ batchSize \in BatchSizes
  /\ nextRow \in Positions /\ vpos \in Positions /\ ppos \in Nat
  /\ finished \in BOOLEAN /\ failed \in BOOLEAN /\ exhausted \in BOOLEAN
  /\ wpc \in [StreamWorkers -> {"connect", "check", "lock", "taken", "busy", "sent",
                          "unsent", "ok", "bad", "hung", "stopped"}]
  /\ hold \in [StreamWorkers -> [first : Positions, n : Positions, vec : Positions, line : Nat]]
  /\ outcome \in {"none", "ok", "err"}

\* A worker holds a block that it has not dealt with.
Carries(w) == wpc[w] \in {"taken", "busy", "unsent", "bad", "hung"}

\* Blocks in hand, sent or not, lie below next_row and apart from each other;
\* what is on the server lies below next_row and outside the blocks to be sent.
BlocksApart ==
  /\ \A w \in StreamWorkers : Holding(w) => hold[w].first + hold[w].n <= nextRow
  /\ \A v, w \in StreamWorkers : v # w /\ Holding(v) /\ Holding(w) =>
       \/ hold[v].first + hold[v].n <= hold[w].first
       \/ hold[w].first + hold[w].n <= hold[v].first
  /\ \A r \in server : r.id \in Nat /\ r.id < nextRow
  /\ \A r \in server : \A w \in StreamWorkers : Holding(w) =>
       r.id < hold[w].first \/ hold[w].first + hold[w].n <= r.id

\* Until an error is recorded the three positions agree, in the stream and in
\* every block that was taken from it.
Aligned ==
  ~failed =>
    /\ vpos = nextRow /\ (payloads.present => ppos = nextRow)
    /\ \A w \in StreamWorkers : Holding(w) =>
         hold[w].vec = hold[w].first /\ (payloads.present => hold[w].line = hold[w].first)
    /\ \A r \in server : r = [id |-> r.id, vec |-> r.id, line |-> r.id]

\* Until an error is recorded every row below next_row is on the server or in
\* some worker's hands.
RowsKept ==
  ~failed =>
    \A i \in Positions : i < nextRow =>
      \/ [id |-> i, vec |-> i, line |-> i] \in server
      \/ \E w \in StreamWorkers : Carries(w) /\ hold[w].first <= i /\ i < hold[w].first + hold[w].n

\* A finished stream without an error has handed out every row and every line.
EndSeen ==
  /\ exhausted => finished
  /\ finished /\ ~failed => nextRow = Rows /\ (payloads.present => Len(payloads.lines) = Rows)

\* The verdict comes after the last worker, and Ok after an exhausted stream.
Concluded ==
  outcome = "ok" => ~failed /\ exhausted /\ \A w \in StreamWorkers : wpc[w] = "stopped"

StreamIInv == StreamTypes /\ BlocksApart /\ Aligned /\ RowsKept /\ EndSeen /\ Concluded

USE StreamAssumption DEF Positions

BlockType == [first : Positions, n : Positions, vec : Positions, line : Nat]

LEMMA StreamData ==
  ASSUME StreamTypes
  PROVE  /\ payloads.present \in BOOLEAN /\ Len(payloads.lines) \in Nat /\ batchSize \in Nat
         /\ \A w \in StreamWorkers :
              hold[w] \in BlockType /\ hold[w].first \in Nat /\ hold[w].n \in Nat
<1>1. payloads \in [present : BOOLEAN, lines : Seq(LineKinds)]
  BY PayloadAssumption DEF StreamTypes
<1> QED
  BY <1>1 DEF StreamTypes, BlockType

LEMMA StreamInitIInv == StreamInit => StreamIInv
<1> SUFFICES ASSUME StreamInit PROVE StreamIInv
  OBVIOUS
<1>1. StreamTypes
  <2>1. NoBlock \in BlockType
    BY DEF NoBlock, BlockType
  <2>2. hold \in [StreamWorkers -> BlockType]
    BY <2>1 DEF StreamInit
  <2>3. 0 \in Positions
    OBVIOUS
  <2> QED
    BY <2>2, <2>3, Zenon DEF StreamInit, StreamTypes, BlockType
<1>2. BlocksApart /\ Concluded /\ EndSeen
  BY DEF StreamInit, BlocksApart, Concluded, EndSeen, Holding
<1>3. Aligned /\ RowsKept
  BY DEF StreamInit, Aligned, RowsKept, Holding
<1> QED
  BY <1>1, <1>2, <1>3 DEF StreamIInv

\* The rows of a block as the engine gets them.
LEMMA RowOfBlock ==
  ASSUME NEW b \in BlockType, NEW r \in RowsOf(b)
  PROVE  /\ r.id \in Nat /\ b.first <= r.id /\ r.id < b.first + b.n
         /\ (b.vec = b.first /\ (payloads.present => b.line = b.first)) =>
              r = [id |-> r.id, vec |-> r.id, line |-> r.id]
BY DEF RowsOf, BlockType

LEMMA BlockOfRow ==
  ASSUME NEW b \in BlockType, b.vec = b.first, payloads.present => b.line = b.first,
         NEW i \in Positions, b.first <= i, i < b.first + b.n
  PROVE  [id |-> i, vec |-> i, line |-> i] \in RowsOf(b)
<1>1. i - b.first \in {j \in 0..Rows : j < b.n} /\ b.first + (i - b.first) = i
  BY DEF BlockType
<1> QED
  BY <1>1 DEF RowsOf

\* A step that takes no block, sends none and keeps what the blocks hold.
LEMMA QuietStep ==
  ASSUME StreamIInv, outcome = "none", UNCHANGED <<nextRow, vpos, ppos, payloads, hold, server, outcome>>,
         StreamTypes',
         \A v \in StreamWorkers : Holding(v)' => Holding(v),
         \A v \in StreamWorkers : Carries(v) => Carries(v)',
         failed => failed', exhausted' => finished', EndSeen'
  PROVE  StreamIInv'
<1> USE DEF StreamIInv
<1>1. BlocksApart'
  BY DEF BlocksApart
<1>2. Aligned'
  BY DEF Aligned
<1>3. RowsKept'
  BY DEF RowsKept
<1>4. Concluded'
  BY DEF Concluded
<1> QED
  BY <1>1, <1>2, <1>3, <1>4

\* A step that records an error takes no block and sends none.
LEMMA FailingStep ==
  ASSUME StreamIInv, outcome = "none", failed', UNCHANGED <<nextRow, server, outcome>>,
         StreamTypes', exhausted' => finished',
         \A v \in StreamWorkers : Holding(v)' => Holding(v) /\ hold'[v] = hold[v]
  PROVE  StreamIInv'
<1> USE DEF StreamIInv
<1>1. BlocksApart'
  BY DEF BlocksApart
<1>2. Aligned' /\ RowsKept' /\ Concluded' /\ EndSeen'
  BY DEF Aligned, RowsKept, Concluded, EndSeen
<1> QED
  BY <1>1, <1>2

\* A worker's move through its loop changes wpc in one place.
LEMMA Moved ==
  ASSUME StreamTypes, NEW w \in StreamWorkers, NEW step, StepTo(w, step)
  PROVE  /\ wpc'[w] = step
         /\ \A v \in StreamWorkers : v # w => wpc'[v] = wpc[v]
BY DEF StepTo, StreamTypes

LEMMA QuietWorker ==
  ASSUME StreamIInv, NEW w \in StreamWorkers,
         Connect(w) \/ DialHangs(w) \/ CheckBlock(w) \/ NextRawNone(w) \/ Enter(w) \/ Leave(w)
  PROVE  StreamIInv'
<1>a. StreamTypes /\ EndSeen
  BY DEF StreamIInv
<1>b. StreamTypes'
  BY <1>a DEF StreamTypes, Connect, DialHangs, CheckBlock, NextRawNone, Enter, Leave, stream, StepTo, Fail, At
<1>1. UNCHANGED <<nextRow, vpos, ppos, payloads, finished, hold, server, outcome>> /\ outcome = "none"
  BY DEF Connect, DialHangs, CheckBlock, NextRawNone, Enter, Leave, stream, At
<1>2. PICK step : StepTo(w, step)
                  /\ (step \in {"taken", "busy"} => wpc[w] \in {"taken", "busy"})
                  /\ (Carries(w) => step \in {"taken", "busy", "unsent", "bad", "hung"})
  BY <1>a DEF Connect, DialHangs, CheckBlock, NextRawNone, Enter, Leave, At, Fail, Carries
<1>3. \A v \in StreamWorkers : Holding(v)' => Holding(v)
  BY <1>a, <1>2, Moved DEF Holding
<1>4. \A v \in StreamWorkers : Carries(v) => Carries(v)'
  BY <1>a, <1>2, Moved DEF Carries
<1>5. (failed => failed') /\ (exhausted' => finished') /\ EndSeen'
  BY <1>a, <1>1 DEF Connect, DialHangs, CheckBlock, NextRawNone, Enter, Leave, Fail, EndSeen
<1> QED
  BY <1>b, <1>1, <1>3, <1>4, <1>5, QuietStep

LEMMA FinishKeeps ==
  ASSUME StreamIInv, NEW w \in StreamWorkers, FinishStream(w)
  PROVE  StreamIInv'
<1>a. StreamTypes /\ EndSeen /\ Aligned
  BY DEF StreamIInv
<1>b. payloads.present \in BOOLEAN /\ Len(payloads.lines) \in Nat
  BY <1>a, StreamData
<1>c. StreamTypes'
  BY <1>a, <1>b DEF StreamTypes, FinishStream, StepTo, Fail
<1>d. wpc[w] = "lock" /\ outcome = "none" /\ UNCHANGED <<nextRow, vpos, payloads, hold, server, outcome>>
  BY DEF FinishStream, At
<1>e. StepTo(w, "stopped")
  BY DEF FinishStream, Fail
<1>f. \A v \in StreamWorkers : (Holding(v)' => Holding(v)) /\ (Carries(v) => Carries(v)')
  BY <1>a, <1>d, <1>e, Moved DEF Holding, Carries
<1>1. CASE ~failed'
  <2>1. ~failed /\ nextRow = Rows /\ finished' /\ (~payloads.present \/ ppos = Len(payloads.lines))
    BY <1>1, <1>a DEF FinishStream, Fail, Remaining, StreamTypes
  <2>2. ppos' = ppos /\ EndSeen'
    BY <2>1, <1>a, <1>b, <1>d DEF FinishStream, EndSeen, Aligned
  <2> QED
    BY <1>c, <1>d, <1>f, <2>1, <2>2, QuietStep
<1>2. CASE failed'
  BY <1>2, <1>c, <1>d, <1>f, FailingStep DEF FinishStream
<1> QED
  BY <1>1, <1>2

LEMMA ErrorKeeps ==
  ASSUME StreamIInv, NEW w \in StreamWorkers, NextRawVectorsErr(w) \/ NextRawPayloadErr(w)
  PROVE  StreamIInv'
<1>a. StreamTypes /\ EndSeen
  BY DEF StreamIInv
<1>b. Len(payloads.lines) \in Nat /\ batchSize \in Nat /\ Want \in Nat
  BY <1>a, StreamData DEF Want, Remaining, StreamTypes
<1>c. ppos' \in Nat /\ vpos' \in Positions
  BY <1>a, <1>b DEF StreamTypes, NextRawVectorsErr, NextRawPayloadErr, Unreadable
<1>d. StreamTypes'
  BY <1>a, <1>c DEF StreamTypes, NextRawVectorsErr, NextRawPayloadErr, StepTo, Fail
<1>e. /\ outcome = "none" /\ failed' /\ UNCHANGED <<nextRow, hold, server, outcome, exhausted, finished>>
      /\ StepTo(w, "stopped")
  BY DEF NextRawVectorsErr, NextRawPayloadErr, Fail, At
<1>f. \A v \in StreamWorkers : Holding(v)' => Holding(v)
  BY <1>a, <1>e, Moved DEF Holding
<1> QED
  BY <1>a, <1>d, <1>e, <1>f, FailingStep DEF EndSeen

\* CompoundStream::next_raw hands out the rows from next_row on: the new block
\* lies beyond every other, and takes over the rows it adds below next_row.
LEMMA BlockKeeps ==
  ASSUME StreamIInv, NEW w \in StreamWorkers, NextRawBlock(w)
  PROVE  StreamIInv'
<1> DEFINE b == [first |-> nextRow, n |-> Want, vec |-> vpos, line |-> ppos]
<1>a. StreamTypes /\ BlocksApart /\ Aligned /\ RowsKept /\ EndSeen /\ Concluded
  BY DEF StreamIInv
<1>b. /\ Want \in Nat /\ Want <= Rows - nextRow /\ nextRow \in Nat
      /\ \A v \in StreamWorkers : hold[v].first \in Nat /\ hold[v].n \in Nat
  BY <1>a, StreamData DEF Want, Remaining, StreamTypes
<1>c. /\ outcome = "none" /\ ~finished /\ wpc[w] = "lock" /\ nextRow' = nextRow + Want /\ vpos' = vpos + Want
      /\ vpos + Want <= Rows /\ ppos' = (IF ~payloads.present THEN ppos ELSE ppos + Want)
      /\ StepTo(w, "taken")
      /\ UNCHANGED <<payloads, batchSize, finished, failed, exhausted, server, outcome>>
  BY DEF NextRawBlock, At
<1>d. hold' = [hold EXCEPT ![w] = b] /\ b \in BlockType
  BY <1>a, <1>b DEF NextRawBlock, StreamTypes, BlockType
<1>e. hold'[w] = b /\ \A v \in StreamWorkers : v # w => hold'[v] = hold[v] /\ wpc'[v] = wpc[v]
  BY <1>a, <1>c, <1>d, Moved DEF StreamTypes
<1>f. ~Holding(w) /\ ~Carries(w) /\ wpc'[w] = "taken"
  BY <1>a, <1>c, Moved DEF Holding, Carries
<1>g. \A v \in StreamWorkers : v # w => (Holding(v)' <=> Holding(v)) /\ (Carries(v)' <=> Carries(v))
  BY <1>e DEF Holding, Carries
<1>h. b.first = nextRow /\ b.n = Want /\ b.vec = vpos /\ b.line = ppos
  OBVIOUS
<1> HIDE DEF b
<1>1. StreamTypes'
  <2>1. hold' \in [StreamWorkers -> BlockType]
    BY <1>a, <1>d DEF StreamTypes, BlockType
  <2>2. nextRow' \in Positions /\ vpos' \in Positions /\ ppos' \in Nat
    BY <1>a, <1>b, <1>c DEF StreamTypes
  <2> QED
    BY <1>a, <1>c, <2>1, <2>2 DEF StreamTypes, BlockType, StepTo
<1>2. BlocksApart'
  <2>1. \A v \in StreamWorkers : Holding(v)' => hold'[v].first + hold'[v].n <= nextRow'
    BY <1>a, <1>b, <1>c, <1>e, <1>g, <1>h DEF BlocksApart
  <2>2. \A v \in StreamWorkers : v # w /\ Holding(v)' => hold'[v].first + hold'[v].n <= hold'[w].first
    BY <1>a, <1>b, <1>c, <1>e, <1>g, <1>h DEF BlocksApart
  <2>3. \A u, v \in StreamWorkers : u # v /\ u # w /\ v # w /\ Holding(u)' /\ Holding(v)' =>
          \/ hold'[u].first + hold'[u].n <= hold'[v].first
          \/ hold'[v].first + hold'[v].n <= hold'[u].first
    BY <1>a, <1>e, <1>g DEF BlocksApart
  <2>4. \A r \in server' : r.id \in Nat /\ r.id < nextRow'
    BY <1>a, <1>b, <1>c DEF BlocksApart
  <2>5. \A r \in server' : \A v \in StreamWorkers : Holding(v)' =>
          r.id < hold'[v].first \/ hold'[v].first + hold'[v].n <= r.id
    BY <1>a, <1>c, <1>e, <1>g, <1>h DEF BlocksApart
  <2> QED
    BY <2>1, <2>2, <2>3, <2>4, <2>5 DEF BlocksApart
<1>3. Aligned'
  BY <1>a, <1>b, <1>c, <1>e, <1>g, <1>h DEF Aligned
<1>4. RowsKept'
  <2> SUFFICES ASSUME ~failed, NEW i \in Positions, i < nextRow'
               PROVE  \/ [id |-> i, vec |-> i, line |-> i] \in server'
                      \/ \E v \in StreamWorkers : Carries(v)' /\ hold'[v].first <= i
                                                /\ i < hold'[v].first + hold'[v].n
    BY <1>c DEF RowsKept
  <2>1. CASE i < nextRow
    BY <1>a, <2>1, <1>c, <1>e, <1>f, <1>g DEF RowsKept
  <2>2. CASE nextRow <= i
    BY <2>2, <1>b, <1>c, <1>e, <1>f, <1>h DEF Carries
  <2> QED
    BY <2>1, <2>2, <1>b
<1>5. EndSeen' /\ Concluded'
  BY <1>a, <1>c DEF EndSeen, Concluded
<1> QED
  BY <1>1, <1>2, <1>3, <1>4, <1>5 DEF StreamIInv

\* The rows of a block reach the server, or none of them does: they come from
\* the block alone, and the worker no longer counts as about to send it.
LEMMA BlockSendKeeps ==
  ASSUME StreamIInv, NEW w \in StreamWorkers, SendBlock(w) \/ SendErr(w) \/ SendHangs(w)
  PROVE  StreamIInv'
<1>a. StreamTypes /\ BlocksApart /\ Aligned /\ RowsKept /\ EndSeen /\ Concluded
  BY DEF StreamIInv
<1>b. /\ nextRow \in Nat /\ hold[w] \in BlockType
      /\ \A v \in StreamWorkers : hold[v].first \in Nat /\ hold[v].n \in Nat
  BY <1>a, StreamData DEF StreamTypes
<1>c. /\ outcome = "none" /\ wpc[w] = "busy"
      /\ UNCHANGED <<payloads, batchSize, nextRow, vpos, ppos, finished, failed, exhausted, hold, outcome>>
  BY DEF SendBlock, SendErr, SendHangs, stream, At
<1>d. PICK step \in {"sent", "unsent", "hung"} : StepTo(w, step) /\ (step = "sent" => server' = server \cup RowsOf(hold[w]))
  BY DEF SendBlock, SendErr, SendHangs
<1>e. server' = server \/ server' = server \cup RowsOf(hold[w])
  BY DEF SendBlock, SendErr, SendHangs
<1>f. wpc'[w] = step /\ \A v \in StreamWorkers : v # w => wpc'[v] = wpc[v]
  BY <1>a, <1>d, Moved
<1>g. Holding(w) /\ ~Holding(w)' /\ \A v \in StreamWorkers : Holding(v)' => Holding(v) /\ v # w
  BY <1>c, <1>d, <1>f DEF Holding
<1>h. \A r \in server' : r \in server \/ r \in RowsOf(hold[w])
  BY <1>e
<1>1. StreamTypes'
  BY <1>a, <1>c, <1>d DEF StreamTypes, StepTo
<1>2. BlocksApart'
  <2>1. \A r \in server' : r.id \in Nat /\ r.id < nextRow'
    <3> SUFFICES ASSUME NEW r \in RowsOf(hold[w]) PROVE r.id \in Nat /\ r.id < nextRow
      BY <1>a, <1>c, <1>h DEF BlocksApart
    <3>1. r.id \in Nat /\ r.id < hold[w].first + hold[w].n
      BY <1>b, RowOfBlock
    <3> QED
      BY <3>1, <1>a, <1>b, <1>g DEF BlocksApart
  <2>2. \A r \in server' : \A v \in StreamWorkers : Holding(v)' =>
          r.id < hold'[v].first \/ hold'[v].first + hold'[v].n <= r.id
    <3> SUFFICES ASSUME NEW r \in server', NEW v \in StreamWorkers, Holding(v), v # w
                 PROVE  r.id < hold[v].first \/ hold[v].first + hold[v].n <= r.id
      BY <1>c, <1>g
    <3>1. CASE r \in server
      BY <3>1, <1>a DEF BlocksApart
    <3>2. CASE r \in RowsOf(hold[w])
      <4>1. r.id \in Nat /\ hold[w].first <= r.id /\ r.id < hold[w].first + hold[w].n
        BY <3>2, <1>b, RowOfBlock
      <4>2. \/ hold[v].first + hold[v].n <= hold[w].first
            \/ hold[w].first + hold[w].n <= hold[v].first
        BY <1>a, <1>g DEF BlocksApart
      <4> QED
        BY <4>1, <4>2, <1>b
    <3> QED
      BY <3>1, <3>2, <1>h
  <2> QED
    BY <1>a, <1>c, <1>g, <2>1, <2>2 DEF BlocksApart
<1>3. Aligned'
  <2> SUFFICES ASSUME ~failed PROVE Aligned'
    BY <1>c DEF Aligned
  <2>1. hold[w].vec = hold[w].first /\ (payloads.present => hold[w].line = hold[w].first)
    BY <1>a, <1>g DEF Aligned
  <2>2. \A r \in RowsOf(hold[w]) : r = [id |-> r.id, vec |-> r.id, line |-> r.id]
    BY <2>1, <1>b, RowOfBlock
  <2>3. \A r \in server' : r = [id |-> r.id, vec |-> r.id, line |-> r.id]
    BY <2>2, <1>a, <1>h DEF Aligned
  <2> QED
    BY <2>3, <1>a, <1>c, <1>g DEF Aligned
<1>4. RowsKept'
  <2> SUFFICES ASSUME ~failed, NEW i \in Positions, i < nextRow
               PROVE  \/ [id |-> i, vec |-> i, line |-> i] \in server'
                      \/ \E v \in StreamWorkers : Carries(v)' /\ hold[v].first <= i
                                                /\ i < hold[v].first + hold[v].n
    BY <1>c DEF RowsKept
  <2>1. CASE [id |-> i, vec |-> i, line |-> i] \in server
    BY <2>1, <1>e
  <2>2. CASE \E v \in StreamWorkers : v # w /\ Carries(v) /\ hold[v].first <= i /\ i < hold[v].first + hold[v].n
    BY <2>2, <1>f DEF Carries
  <2>3. CASE hold[w].first <= i /\ i < hold[w].first + hold[w].n
    <3>1. CASE step # "sent"
      BY <3>1, <2>3, <1>f DEF Carries
    <3>2. CASE step = "sent"
      <4>1. hold[w].vec = hold[w].first /\ (payloads.present => hold[w].line = hold[w].first)
        BY <1>a, <1>g DEF Aligned
      <4>2. [id |-> i, vec |-> i, line |-> i] \in RowsOf(hold[w])
        BY <4>1, <2>3, <1>b, BlockOfRow
      <4> QED
        BY <4>2, <3>2, <1>d
    <3> QED
      BY <3>1, <3>2
  <2> QED
    BY <2>1, <2>2, <2>3, <1>a DEF RowsKept
<1>5. EndSeen' /\ Concluded'
  BY <1>a, <1>c DEF EndSeen, Concluded
<1> QED
  BY <1>1, <1>2, <1>3, <1>4, <1>5 DEF StreamIInv

\* The outcome of a block is accounted for, and the block put down.
LEMMA AccountKeeps ==
  ASSUME StreamIInv, NEW w \in StreamWorkers, Account(w)
  PROVE  StreamIInv'
<1>a. StreamTypes /\ BlocksApart /\ Aligned /\ RowsKept /\ EndSeen /\ Concluded
  BY DEF StreamIInv
<1>b. /\ outcome = "none" /\ hold' = [hold EXCEPT ![w] = NoBlock]
      /\ UNCHANGED <<payloads, batchSize, nextRow, vpos, ppos, finished, exhausted, server, outcome>>
  BY DEF Account, stream, At
<1>c. PICK step \in {"check", "stopped"} : StepTo(w, step) /\ failed' \in BOOLEAN /\ (failed => failed')
  BY <1>a DEF Account, Fail, StreamTypes
<1>d. wpc'[w] = step /\ \A v \in StreamWorkers : v # w => wpc'[v] = wpc[v] /\ hold'[v] = hold[v]
  BY <1>a, <1>b, <1>c, Moved DEF StreamTypes
<1>e. \A v \in StreamWorkers : Holding(v)' => Holding(v) /\ hold'[v] = hold[v]
  BY <1>c, <1>d DEF Holding
<1>1. StreamTypes'
  <2>1. NoBlock \in BlockType
    BY DEF NoBlock, BlockType
  <2>2. hold' \in [StreamWorkers -> BlockType]
    BY <2>1, <1>a, <1>b DEF StreamTypes, BlockType
  <2> QED
    BY <2>2, <1>a, <1>b, <1>c DEF StreamTypes, StepTo, BlockType
<1>2. CASE failed'
  BY <1>2, <1>1, <1>a, <1>b, <1>e, FailingStep DEF EndSeen
<1>3. CASE ~failed'
  <2>1. ~failed /\ wpc[w] = "ok"
    BY <1>3, <1>c DEF Account, At, Fail
  <2>2. ~Carries(w) /\ \A v \in StreamWorkers : Carries(v) => Carries(v)' /\ hold'[v] = hold[v]
    BY <2>1, <1>d DEF Carries
  <2>3. BlocksApart'
    BY <1>a, <1>b, <1>e DEF BlocksApart
  <2>4. Aligned'
    BY <2>1, <1>a, <1>b, <1>e DEF Aligned
  <2>5. RowsKept'
    BY <2>1, <2>2, <1>a, <1>b DEF RowsKept
  <2>6. EndSeen' /\ Concluded'
    BY <2>1, <1>a, <1>b DEF EndSeen, Concluded
  <2> QED
    BY <1>1, <2>3, <2>4, <2>5, <2>6 DEF StreamIInv
<1> QED
  BY <1>2, <1>3

LEMMA StreamNextIInv == StreamIInv /\ [StreamNext]_streamVars => StreamIInv'
<1> SUFFICES ASSUME StreamIInv, [StreamNext]_streamVars PROVE StreamIInv'
  OBVIOUS
<1>1. ASSUME NEW w \in StreamWorkers, WorkerStep(w) PROVE StreamIInv'
  BY <1>1, QuietWorker, FinishKeeps, ErrorKeeps, BlockKeeps, BlockSendKeeps, AccountKeeps DEF WorkerStep
<1>2. CASE UNCHANGED <<stream, failed, exhausted, wpc, hold, server>> /\ outcome' \in {"none", "ok", "err"}
           /\ (outcome' = "ok" => outcome = "ok" \/ (~failed /\ exhausted /\ \A w \in StreamWorkers : wpc[w] = "stopped"))
  <2>1. StreamTypes'
    BY <1>2 DEF StreamIInv, StreamTypes, stream
  <2>2. BlocksApart' /\ Aligned' /\ RowsKept'
    BY <1>2 DEF StreamIInv, BlocksApart, Aligned, RowsKept, Holding, Carries, stream
  <2>3. EndSeen' /\ Concluded'
    BY <1>2 DEF StreamIInv, EndSeen, Concluded, stream
  <2> QED
    BY <2>1, <2>2, <2>3 DEF StreamIInv
<1>3. CASE RefuseBatchSize
  BY <1>2, <1>3 DEF RefuseBatchSize
<1>4. CASE Conclude
  BY <1>2, <1>4 DEF Conclude
<1>5. CASE UNCHANGED streamVars
  BY <1>2, <1>5 DEF streamVars, StreamIInv, StreamTypes
<1> QED
  BY <1>1, <1>3, <1>4, <1>5 DEF StreamNext, StreamDone

\* The invariant holds in every state of a streamed upload.
THEOREM StreamInvariance == StreamSpec => []StreamIInv
BY StreamInitIInv, StreamNextIInv, PTL DEF StreamSpec

\* upload_stream: for every corpus size, block size, number of workers and
\* payload file, Ok means exactly the corpus on the server, no row is in two
\* hands or sent twice, and rows part from their vectors or payloads only after
\* an error is on record.
THEOREM StreamedIsExact == StreamSpec => []StreamedExactly
<1>1. StreamIInv => OkMeansExactCorpus
  <2> SUFFICES ASSUME StreamIInv, outcome = "ok"
               PROVE  /\ server = {[id |-> i, vec |-> i, line |-> i] : i \in {j \in 0..Rows : j < Rows}}
                      /\ ~payloads.present \/ Len(payloads.lines) = Rows
    BY DEF OkMeansExactCorpus
  <2>1. ~failed /\ finished /\ \A w \in StreamWorkers : ~Carries(w)
    BY DEF StreamIInv, Concluded, EndSeen, Carries
  <2>2. nextRow = Rows /\ (payloads.present => Len(payloads.lines) = Rows)
    BY <2>1 DEF StreamIInv, EndSeen
  <2>3. \A i \in {j \in 0..Rows : j < Rows} : [id |-> i, vec |-> i, line |-> i] \in server
    BY <2>1, <2>2 DEF StreamIInv, RowsKept
  <2>4. \A r \in server : r.id \in {j \in 0..Rows : j < Rows} /\ r = [id |-> r.id, vec |-> r.id, line |-> r.id]
    BY <2>1, <2>2 DEF StreamIInv, BlocksApart, Aligned
  <2> QED
    BY <2>2, <2>3, <2>4, StreamData DEF StreamIInv
<1>2. StreamIInv => NoRowTwice
  <2> SUFFICES ASSUME StreamIInv, NEW w \in StreamWorkers, Holding(w), NEW q \in RowsOf(hold[w])
               PROVE  /\ \A r \in server : r.id # q.id
                      /\ \A v \in StreamWorkers \ {w} : Holding(v) => \A r \in RowsOf(hold[v]) : r.id # q.id
    BY DEF NoRowTwice
  <2>1. StreamTypes /\ BlocksApart
    BY DEF StreamIInv
  <2>2. \A v \in StreamWorkers : hold[v] \in BlockType /\ hold[v].first \in Nat /\ hold[v].n \in Nat
    BY <2>1, StreamData
  <2>3. \A v \in StreamWorkers : \A r \in RowsOf(hold[v]) :
          r.id \in Nat /\ hold[v].first <= r.id /\ r.id < hold[v].first + hold[v].n
    BY <2>2, RowOfBlock
  <2>4. \A r \in server : r.id # q.id
    BY <2>1, <2>2, <2>3 DEF BlocksApart
  <2>5. ASSUME NEW v \in StreamWorkers \ {w}, Holding(v), NEW r \in RowsOf(hold[v])
        PROVE  r.id # q.id
    BY <2>1, <2>2, <2>3, <2>5 DEF BlocksApart
  <2> QED
    BY <2>4, <2>5
<1>3. StreamIInv => MisalignedOnlyAfterError
  BY DEF StreamIInv, Aligned, MisalignedOnlyAfterError
<1>4. StreamIInv => StreamedExactly
  BY <1>1, <1>2, <1>3 DEF StreamedExactly
<1> QED
  BY <1>4, StreamInvariance, PTL

-----------------------------------------------------------------------------
(***************************************************************************)
(* prepare-msmarco's dataset directory.                                    *)
(*                                                                         *)
(* A command at work follows one of seven plans.  A plan is known by the   *)
(* operation, counted from its end, at which each file is written and      *)
(* renamed and the marker taken away; that every list of operations keeps  *)
(* to its plan is proved first.  The invariant then says what the          *)
(* directory holds with n operations of the plan left, what a recovery     *)
(* still has to do, and what a publication that was cut short left.        *)
(***************************************************************************)

\* What a manifest seals: with or without the ranking, with or without the filtered truth.
Image(truth, filtered) ==
  [f \in Data |-> CASE f = "vectors" -> "v" [] f = "payloads" -> "p1" [] f = "filter" -> "f1"
                    [] f = "tests" -> IF truth THEN "t1" ELSE "t0"
                    [] f = "hybrid" -> IF filtered THEN "h1" ELSE "none"]
Sealed(truth, filtered) == Manifest("sealed", truth, filtered, Image(truth, filtered))
Seals == {Sealed(TRUE, TRUE), Sealed(TRUE, FALSE), Sealed(FALSE, FALSE)}

\* The contents a whole file may have; hybrid queries are never computed from p0.
Contents(f) ==
  CASE f = "vectors" -> {"v"} [] f = "payloads" -> {"p0", "p1"} [] f = "filter" -> {"f1"}
    [] f = "tests" -> {"t0", "t1"} [] f = "hybrid" -> {"h1"}

\* The directory and the command hold what they may hold.
DirOK ==
  /\ DOMAIN pub = Data /\ \A f \in Data : pub[f] \in Contents(f) \cup {"none"}
  /\ DOMAIN part = Data /\ \A f \in Data : part[f] \in Contents(f) \cup {"none", "torn"}
  /\ man \in {NoManifest, Legacy} \cup Seals
  /\ manPart \in {NoManifest, TornManifest, Legacy} \cup Seals
  /\ marker \in BOOLEAN
  /\ cmd \in Commands \cup {"idle"}
  /\ stage \in {"idle", "recover", "recovering", "decide", "work"}
  /\ returned \in {"none", "ok", "err", "died"} /\ ends \in {"none", "ok", "err"}
  /\ cut \subseteq Data

\* Filter queries in a directory without a sealed manifest come with derived payloads and queries.
LegacyOK ==
  man.kind # "sealed" /\ pub["filter"] # "none" => pub["payloads"] = "p1" /\ pub["tests"] # "none"

\* COMPLETE next to a sealed manifest: the directory is exactly what was sealed.
MarkerOK == (marker /\ man.kind = "sealed") => \A f \in Data : pub[f] = man.digests[f]

\* Operations, and a number for each file.
Kinds  == {"tear", "write", "drop", "rename", "remove", "unmark", "mark"}
AllOps == Kinds \X (Files \cup {"COMPLETE"})

PerFile(v, p, f, t, h, m) ==
  [vectors |-> v, payloads |-> p, filter |-> f, tests |-> t, hybrid |-> h, manifest |-> m]

\* A plan: its length and, counted from its end, the operations that write and rename each
\* file and the one that takes the marker away for the publication; 0 is never.
Times(len, written, renamed, unmarked) ==
  [len |-> len, w |-> written, r |-> renamed, u |-> unmarked]

FullTimes    == Times(27, PerFile(18, 17, 15, 13, 11, 9), PerFile(2, 3, 4, 5, 6, 7), 8)
TextTimes    == Times(25, PerFile(16, 15, 13, 11, 0, 9), PerFile(2, 3, 4, 5, 7, 6), 8)
DerivedTimes == Times(15, PerFile(0, 11, 9, 0, 0, 7), PerFile(0, 3, 2, 0, 4, 5), 6)
KnnTimes     == Times(11, PerFile(0, 0, 0, 10, 8, 6), PerFile(0, 0, 0, 2, 3, 4), 5)
HybridTimes  == Times(10, PerFile(0, 0, 0, 0, 7, 5), PerFile(0, 0, 0, 0, 2, 3), 4)
DerivedStub  == Times(7, PerFile(0, 3, 1, 0, 0, 0), PerFile(0, 0, 0, 0, 0, 0), 0)
HybridStub   == Times(4, PerFile(0, 0, 0, 0, 1, 0), PerFile(0, 0, 0, 0, 0, 0), 0)

AllTimes == {FullTimes, TextTimes, DerivedTimes, KnnTimes, HybridTimes, DerivedStub, HybridStub}

\* An operation that p may have where it leaves n - 1 operations to do.
Fine(p, n, op) ==
  /\ \/ op[1] \in {"tear", "drop"} /\ op[2] \in Files /\ n > p.w[op[2]] /\ n > p.u
     \/ op[1] = "write" /\ op[2] \in Files /\ n = p.w[op[2]]
     \/ op[1] = "rename" /\ op[2] \in Files /\ n = p.r[op[2]] /\ p.w[op[2]] > 0
        /\ (op[2] \in Data => n < p.r["manifest"])
     \/ op[1] = "remove" /\ op[2] = "hybrid" /\ n = p.r["hybrid"] /\ p.w["hybrid"] = 0
     \/ op[1] = "unmark" /\ n >= p.u
     \/ op[1] = "mark" /\ n = 1 /\ p.u > 0
  /\ \A f \in Files :
       /\ n = p.w[f] => op[1] = "write" /\ op[2] = f
       /\ n = p.r[f] => op[1] \in {"rename", "remove"} /\ op[2] = f
  /\ n = p.u => op[1] = "unmark"

\* s holds the operations of p from the one numbered hi down to lo + 1.
Covers(p, hi, lo, s) ==
  /\ s \in Seq(AllOps) /\ hi \in Nat /\ lo \in Nat /\ lo + Len(s) = hi
  /\ \A i \in 1..Len(s) : Fine(p, hi + 1 - i, s[i])

\* Files are written before the marker goes, and renamed between the two.
Timely(p) ==
  /\ p.len \in Nat /\ p.u \in 0..p.len
  /\ \A f \in Files : p.w[f] \in 0..p.len /\ p.r[f] \in 0..p.len
  /\ \A f \in Files : p.r[f] > 0 => p.r[f] > 1 /\ p.r[f] < p.u
  /\ \A f \in Files : p.u > 0 /\ p.w[f] > 0 => p.u < p.w[f] /\ p.r[f] > 0
  /\ p.u > 0 => p.r["manifest"] > 0 /\ p.w["manifest"] > 0

\* The data files of a command that follows p, with n operations left.
FilesOn(p, n) ==
  \A f \in Data :
    /\ p.r[f] <= n /\ n < p.w[f] => part[f] = made[f]
    /\ n < p.r[f] => pub[f] = made[f] /\ (p.w[f] > 0 => part[f] = "none")

\* Its manifest: staged before its rename, published after it.
ManifestOn(p, n) ==
  /\ p.r["manifest"] <= n /\ n < p.w["manifest"] => manPart = newMan
  /\ n < p.r["manifest"] => man = newMan /\ manPart = NoManifest

\* A sealed manifest describes the directory that the publication will leave.
SealOn(p) ==
  p.u > 0 /\ newMan.kind = "sealed" =>
    \A f \in Data : IF p.r[f] > 0 THEN made[f] = newMan.digests[f] ELSE pub[f] = newMan.digests[f]

\* A publication without a seal keeps the queries and derives the payloads first.
LegacyOn(p) ==
  p.u > 0 /\ newMan.kind # "sealed" =>
    /\ man.kind # "sealed"
    /\ p.r["tests"] = 0 /\ pub["tests"] # "none"
    /\ p.r["payloads"] > 0 => made["payloads"] = "p1"
    /\ p.r["filter"] > 0 => p.r["filter"] < p.r["payloads"]

\* A command makes exactly the files its plan writes; only a publication ends well.
MadeOn(p) ==
  /\ DOMAIN made = Data /\ \A f \in Data : made[f] \in Contents(f) \cup {"none"}
  /\ \A f \in Data : made[f] # "none" <=> p.w[f] > 0
  /\ newMan \in {NoManifest, Legacy} \cup Seals
  /\ ends \in {"ok", "err"} /\ (ends = "ok" <=> p.u > 0)

\* A command at work: n operations of p are left and the marker is gone inside a publication.
WorkOn(p, n) ==
  /\ Covers(p, n, 0, todo) /\ n <= p.len
  /\ MadeOn(p) /\ FilesOn(p, n) /\ ManifestOn(p, n) /\ SealOn(p) /\ LegacyOn(p)
  /\ 0 < n /\ n < p.u => ~marker

WorkOK == \E p \in AllTimes : WorkOn(p, Len(todo))

\* The operations of a recovery, in the order of recover_publication.
Rank(op) ==
  IF op[1] = "remove" THEN 1 ELSE IF op[1] = "mark" THEN 8 ELSE PerFile(2, 3, 7, 4, 5, 6)[op[2]]

\* An operation still to do.
Pending(k, f) == \E i \in 1..Len(todo) : todo[i][1] = k /\ todo[i][2] = f
RecoverKinds(s) ==
  \A i \in 1..Len(s) :
    \/ s[i][1] = "remove" /\ s[i][2] = "hybrid"
    \/ s[i][1] = "mark" /\ s[i][2] = "COMPLETE"
    \/ s[i][1] = "rename" /\ s[i][2] \in Files
Ordered(s) == \A i, j \in 1..Len(s) : i < j => Rank(s[i]) < Rank(s[j])

\* A recovery of m: what is not yet in place is staged and its operation is pending.
RecoverOn(m) ==
  /\ m \in Seals
  /\ \A f \in Inventory(m) : Artifact(f) = m.digests[f]
  /\ IF todo = <<>> THEN marker ELSE ~marker
  /\ todo # <<>> =>
     /\ todo \in Seq(AllOps) /\ RecoverKinds(todo) /\ Ordered(todo)
     /\ Pending("mark", "COMPLETE")
     /\ ~m.filtered => pub["hybrid"] = "none" \/ Pending("remove", "hybrid")
     /\ m.filtered => ~Pending("remove", "hybrid")
     /\ \A f \in Files : StillStaged(m, f) <=> Pending("rename", f)
RecoverOK == RecoverOn(ManifestArtifact)

\* A publication that was cut short: m is its seal, its files are staged or in place.
CutOn(m) ==
  /\ ~marker /\ stage \in {"idle", "recover", "recovering"} /\ m \in Seals
  /\ \A f \in cut : f \in Inventory(m) /\ Artifact(f) = m.digests[f]
  /\ \A f \in Inventory(m) \ cut : part[f] = "none" => pub[f] = m.digests[f]
CutOK == cut # {} => CutOn(ManifestArtifact)

\* The inductive invariant of the dataset directory.
DirInv ==
  /\ DirOK /\ LegacyOK /\ MarkerOK /\ CutOK
  /\ stage = "work" => WorkOK
  /\ stage = "recovering" => RecoverOK

\* An operation is its kind and its file.
LEMMA IsOp ==
  \A k \in Kinds, f \in Files \cup {"COMPLETE"} :
    Op(k, f) \in AllOps /\ Op(k, f)[1] = k /\ Op(k, f)[2] = f
  BY DEF Op, AllOps

\* The names of the files.
LEMMA FilesFacts ==
  /\ Data \subseteq Files /\ "manifest" \in Files /\ "manifest" \notin Data
  /\ \A f \in Files : f = "manifest" \/ f \in Data
  /\ "hybrid" \in Data /\ "payloads" \in Data /\ "tests" \in Data /\ "filter" \in Data
  /\ "vectors" \in Data
  BY DEF Files, Data

\* A plan in two parts.
LEMMA CoversJoin ==
  ASSUME NEW p, NEW a, NEW b, NEW c, NEW s, NEW t, Covers(p, a, b, s), Covers(p, b, c, t)
  PROVE  Covers(p, a, c, s \o t)
<1>1. s \in Seq(AllOps) /\ t \in Seq(AllOps) /\ a \in Nat /\ b \in Nat /\ c \in Nat
      /\ b + Len(s) = a /\ c + Len(t) = b
  BY DEF Covers
<1>2. /\ s \o t \in Seq(AllOps) /\ Len(s \o t) = Len(s) + Len(t)
      /\ \A i \in 1..Len(s) : (s \o t)[i] = s[i]
      /\ \A i \in (Len(s) + 1)..(Len(s) + Len(t)) : (s \o t)[i] = t[i - Len(s)]
  BY <1>1
<1>3. ASSUME NEW i \in 1..Len(s \o t) PROVE Fine(p, a + 1 - i, (s \o t)[i])
  <2>1. CASE i \in 1..Len(s)
    BY <2>1, <1>2 DEF Covers
  <2>2. CASE i \in (Len(s) + 1)..(Len(s) + Len(t))
    <3> DEFINE j == i - Len(s)
    <3>1. j \in 1..Len(t) /\ b + 1 - j = a + 1 - i
      BY <1>1, <2>2
    <3>2. Fine(p, b + 1 - j, t[j])
      BY <3>1 DEF Covers
    <3> QED
      BY <1>2, <2>2, <3>1, <3>2
  <2> QED
    BY <1>1, <1>2, <1>3, <2>1, <2>2
<1>4. c + Len(s \o t) = a
  BY <1>1, <1>2
<1> DEFINE q == s \o t
<1> HIDE DEF q
<1>5. q \in Seq(AllOps) /\ a \in Nat /\ c \in Nat /\ c + Len(q) = a
      /\ \A i \in 1..Len(q) : Fine(p, a + 1 - i, q[i])
  BY <1>1, <1>2, <1>3, <1>4 DEF q
<1>6. Covers(p, a, c, q)
  BY <1>5 DEF Covers
<1> QED
  BY <1>6 DEF q

\* A plan of one operation.
LEMMA CoversOne ==
  ASSUME NEW p, NEW n \in Nat, NEW op \in AllOps, Fine(p, n + 1, op)
  PROVE  Covers(p, n + 1, n, <<op>>)
  BY DEF Covers

\* Staging a file: a partial write, then the whole one.
LEMMA CoversStage ==
  ASSUME NEW p, NEW hi \in Nat, NEW mid \in Nat, NEW lo \in Nat, NEW f \in Files, mid = lo + 1,
         hi = lo + 2,
         Fine(p, hi, Op("tear", f)), Fine(p, mid, Op("write", f))
  PROVE  Covers(p, hi, lo, Stage(f))
<1>1. Op("tear", f) \in AllOps /\ Op("write", f) \in AllOps
  BY IsOp DEF Kinds
<1>2. /\ Stage(f) \in Seq(AllOps) /\ Len(Stage(f)) = 2
      /\ Stage(f)[1] = Op("tear", f) /\ Stage(f)[2] = Op("write", f)
  BY <1>1 DEF Stage
<1> HIDE DEF Stage
<1>3. ASSUME NEW i \in 1..2 PROVE Fine(p, hi + 1 - i, Stage(f)[i])
  <2>1. CASE i = 1
    BY <1>2, <2>1
  <2>2. CASE i = 2
    BY <1>2, <2>2
  <2> QED
    BY <2>1, <2>2
<1> QED
  BY <1>2, <1>3 DEF Covers

\* publish_steps: the marker goes before the steps and comes back after them.
LEMMA CoversPublish ==
  ASSUME NEW p, NEW n \in Nat, NEW steps, Covers(p, n, 1, steps),
         Fine(p, n + 1, Op("unmark", "COMPLETE")), Fine(p, 1, Op("mark", "COMPLETE"))
  PROVE  Covers(p, n + 1, 0, PublishSteps(steps))
<1>1. Op("unmark", "COMPLETE") \in AllOps /\ Op("mark", "COMPLETE") \in AllOps
  BY IsOp DEF Kinds
<1>2. Covers(p, n + 1, n, <<Op("unmark", "COMPLETE")>>)
  BY <1>1, CoversOne
<1>3. Covers(p, 0 + 1, 0, <<Op("mark", "COMPLETE")>>)
  <2>1. Fine(p, 0 + 1, Op("mark", "COMPLETE"))
    OBVIOUS
  <2> QED
    BY <1>1, <2>1, CoversOne
<1>4. Covers(p, n + 1, 1, <<Op("unmark", "COMPLETE")>> \o steps)
  BY <1>2, CoversJoin
<1>5. Covers(p, n + 1, 0, (<<Op("unmark", "COMPLETE")>> \o steps) \o <<Op("mark", "COMPLETE")>>)
  BY <1>3, <1>4, CoversJoin
<1> QED
  BY <1>5 DEF PublishSteps

\* Every plan keeps the order of staging and publishing.
LEMMA Literals ==
  /\ Timely(FullTimes) /\ Timely(TextTimes) /\ Timely(DerivedTimes) /\ Timely(KnnTimes)
  /\ Timely(HybridTimes) /\ Timely(DerivedStub) /\ Timely(HybridStub)
  BY DEF Timely, FullTimes, TextTimes, DerivedTimes, KnnTimes, HybridTimes, DerivedStub,
     HybridStub, Times, PerFile, Files, Data

\* The operations the plans are made of.
LEMMA OpsAreOps ==
  /\ Op("drop", "filter") \in AllOps /\ Op("drop", "hybrid") \in AllOps
  /\ Op("drop", "manifest") \in AllOps /\ Op("drop", "payloads") \in AllOps
  /\ Op("drop", "tests") \in AllOps /\ Op("drop", "vectors") \in AllOps
  /\ Op("mark", "COMPLETE") \in AllOps /\ Op("remove", "hybrid") \in AllOps
  /\ Op("rename", "filter") \in AllOps /\ Op("rename", "hybrid") \in AllOps
  /\ Op("rename", "manifest") \in AllOps /\ Op("rename", "payloads") \in AllOps
  /\ Op("rename", "tests") \in AllOps /\ Op("rename", "vectors") \in AllOps
  /\ Op("tear", "filter") \in AllOps /\ Op("tear", "hybrid") \in AllOps
  /\ Op("tear", "manifest") \in AllOps /\ Op("tear", "payloads") \in AllOps
  /\ Op("tear", "tests") \in AllOps /\ Op("tear", "vectors") \in AllOps
  /\ Op("unmark", "COMPLETE") \in AllOps /\ Op("write", "filter") \in AllOps
  /\ Op("write", "hybrid") \in AllOps /\ Op("write", "manifest") \in AllOps
  /\ Op("write", "payloads") \in AllOps /\ Op("write", "tests") \in AllOps
  /\ Op("write", "vectors") \in AllOps
  BY IsOp DEF Kinds, Files, Data

\* add_knn_truth does what KnnTimes says.
LEMMA KnnCovers == Covers(KnnTimes, 11, 0,
  Stage("tests") \o Stage("hybrid") \o Stage("manifest")
  \o Publish(<<"tests", "hybrid", "manifest">>))
<1> DEFINE p == KnnTimes
           a == Stage("tests")
           b == a \o Stage("hybrid")
           c == b \o Stage("manifest")
           d == c \o Publish(<<"tests", "hybrid", "manifest">>)
<1>1. /\ Fine(p, 11, Op("tear", "tests")) /\ Fine(p, 10, Op("write", "tests"))
      /\ Fine(p, 9, Op("tear", "hybrid")) /\ Fine(p, 8, Op("write", "hybrid"))
      /\ Fine(p, 7, Op("tear", "manifest")) /\ Fine(p, 6, Op("write", "manifest"))
      /\ Fine(p, 5, Op("unmark", "COMPLETE")) /\ Fine(p, 4, Op("rename", "manifest"))
      /\ Fine(p, 3, Op("rename", "hybrid")) /\ Fine(p, 2, Op("rename", "tests"))
      /\ Fine(p, 1, Op("mark", "COMPLETE"))
  BY DEF Fine, Op, KnnTimes, Times, PerFile, Files, Data
<1> HIDE DEF p
<1>2. Covers(p, 11, 9, Stage("tests"))
  <2>1. Fine(p, 11, Op("tear", "tests")) /\ Fine(p, 10, Op("write", "tests"))
    BY <1>1
  <2> QED
    BY <2>1, CoversStage, FilesFacts
<1>3. Covers(p, 9, 7, Stage("hybrid"))
  <2>1. Fine(p, 9, Op("tear", "hybrid")) /\ Fine(p, 8, Op("write", "hybrid"))
    BY <1>1
  <2> QED
    BY <2>1, CoversStage, FilesFacts
<1>4. Covers(p, 7, 5, Stage("manifest"))
  <2>1. Fine(p, 7, Op("tear", "manifest")) /\ Fine(p, 6, Op("write", "manifest"))
    BY <1>1
  <2> QED
    BY <2>1, CoversStage, FilesFacts
<1>5. Covers(p, 5, 0, Publish(<<"tests", "hybrid", "manifest">>))
  <2> DEFINE steps == <<Op("rename", "manifest"), Op("rename", "hybrid"), Op("rename", "tests")>>
  <2>1. Covers(p, 4, 1, steps)
    BY <1>1, OpsAreOps DEF Covers
  <2>2. Covers(p, 4 + 1, 0, PublishSteps(steps))
    BY <1>1, <2>1, CoversPublish
  <2> QED
    BY <2>2 DEF Publish
<1>6. Covers(p, 11, 7, b)
  BY <1>2, <1>3, CoversJoin
<1>7. Covers(p, 11, 5, c)
  BY <1>6, <1>4, CoversJoin
<1>8. Covers(p, 11, 0, d)
  BY <1>7, <1>5, CoversJoin
<1> QED
  BY <1>8 DEF p

\* add_hybrid_queries does what HybridTimes says.
LEMMA HybridCovers == Covers(HybridTimes, 10, 0,
  Mapped("drop", <<"hybrid", "manifest">>) \o Stage("hybrid") \o Stage("manifest")
  \o Publish(<<"hybrid", "manifest">>))
<1> DEFINE p == HybridTimes
           a == Mapped("drop", <<"hybrid", "manifest">>)
           b == a \o Stage("hybrid")
           c == b \o Stage("manifest")
           d == c \o Publish(<<"hybrid", "manifest">>)
<1>1. /\ Fine(p, 10, Op("drop", "hybrid")) /\ Fine(p, 9, Op("drop", "manifest"))
      /\ Fine(p, 8, Op("tear", "hybrid")) /\ Fine(p, 7, Op("write", "hybrid"))
      /\ Fine(p, 6, Op("tear", "manifest")) /\ Fine(p, 5, Op("write", "manifest"))
      /\ Fine(p, 4, Op("unmark", "COMPLETE")) /\ Fine(p, 3, Op("rename", "manifest"))
      /\ Fine(p, 2, Op("rename", "hybrid")) /\ Fine(p, 1, Op("mark", "COMPLETE"))
  BY DEF Fine, Op, HybridTimes, Times, PerFile, Files, Data
<1> HIDE DEF p
<1>2. Covers(p, 10, 8, Mapped("drop", <<"hybrid", "manifest">>))
  <2> DEFINE drops == <<Op("drop", "hybrid"), Op("drop", "manifest")>>
  <2>1. Mapped("drop", <<"hybrid", "manifest">>) = drops
    BY DEF Mapped
  <2>2. Covers(p, 10, 8, drops)
    BY <1>1, OpsAreOps DEF Covers
  <2> QED
    BY <2>1, <2>2
<1>3. Covers(p, 8, 6, Stage("hybrid"))
  <2>1. Fine(p, 8, Op("tear", "hybrid")) /\ Fine(p, 7, Op("write", "hybrid"))
    BY <1>1
  <2> QED
    BY <2>1, CoversStage, FilesFacts
<1>4. Covers(p, 6, 4, Stage("manifest"))
  <2>1. Fine(p, 6, Op("tear", "manifest")) /\ Fine(p, 5, Op("write", "manifest"))
    BY <1>1
  <2> QED
    BY <2>1, CoversStage, FilesFacts
<1>5. Covers(p, 4, 0, Publish(<<"hybrid", "manifest">>))
  <2> DEFINE steps == <<Op("rename", "manifest"), Op("rename", "hybrid")>>
  <2>1. Covers(p, 3, 1, steps)
    BY <1>1, OpsAreOps DEF Covers
  <2>2. Covers(p, 3 + 1, 0, PublishSteps(steps))
    BY <1>1, <2>1, CoversPublish
  <2> QED
    BY <2>2 DEF Publish
<1>6. Covers(p, 10, 6, b)
  BY <1>2, <1>3, CoversJoin
<1>7. Covers(p, 10, 4, c)
  BY <1>6, <1>4, CoversJoin
<1>8. Covers(p, 10, 0, d)
  BY <1>7, <1>5, CoversJoin
<1> QED
  BY <1>8 DEF p

\* add_hybrid_queries where there is no manifest to copy.
LEMMA HybridStubCovers == Covers(HybridStub, 4, 0, Mapped("drop", <<"hybrid", "manifest">>)
      \o Stage("hybrid"))
<1> DEFINE p == HybridStub
           a == Mapped("drop", <<"hybrid", "manifest">>)
           b == a \o Stage("hybrid")
<1>1. /\ Fine(p, 4, Op("drop", "hybrid")) /\ Fine(p, 3, Op("drop", "manifest"))
      /\ Fine(p, 2, Op("tear", "hybrid")) /\ Fine(p, 1, Op("write", "hybrid"))
  BY DEF Fine, Op, HybridStub, Times, PerFile, Files, Data
<1> HIDE DEF p
<1>2. Covers(p, 4, 2, Mapped("drop", <<"hybrid", "manifest">>))
  <2> DEFINE drops == <<Op("drop", "hybrid"), Op("drop", "manifest")>>
  <2>1. Mapped("drop", <<"hybrid", "manifest">>) = drops
    BY DEF Mapped
  <2>2. Covers(p, 4, 2, drops)
    BY <1>1, OpsAreOps DEF Covers
  <2> QED
    BY <2>1, <2>2
<1>3. Covers(p, 2, 0, Stage("hybrid"))
  <2>1. Fine(p, 2, Op("tear", "hybrid")) /\ Fine(p, 1, Op("write", "hybrid"))
    BY <1>1
  <2> QED
    BY <2>1, CoversStage, FilesFacts
<1>4. Covers(p, 4, 0, b)
  BY <1>2, <1>3, CoversJoin
<1> QED
  BY <1>4 DEF p

\* add_derived_fields does what DerivedTimes says.
LEMMA DerivedCovers == Covers(DerivedTimes, 15, 0,
  Mapped("drop", <<"filter", "payloads", "manifest">>) \o Stage("payloads") \o Stage("filter")
  \o Stage("manifest") \o DerivedPublish)
<1> DEFINE p == DerivedTimes
           a == Mapped("drop", <<"filter", "payloads", "manifest">>)
           b == a \o Stage("payloads")
           c == b \o Stage("filter")
           d == c \o Stage("manifest")
           e == d \o DerivedPublish
<1>1. /\ Fine(p, 15, Op("drop", "filter")) /\ Fine(p, 14, Op("drop", "payloads"))
      /\ Fine(p, 13, Op("drop", "manifest")) /\ Fine(p, 12, Op("tear", "payloads"))
      /\ Fine(p, 11, Op("write", "payloads")) /\ Fine(p, 10, Op("tear", "filter"))
      /\ Fine(p, 9, Op("write", "filter")) /\ Fine(p, 8, Op("tear", "manifest"))
      /\ Fine(p, 7, Op("write", "manifest")) /\ Fine(p, 6, Op("unmark", "COMPLETE"))
      /\ Fine(p, 5, Op("rename", "manifest")) /\ Fine(p, 4, Op("remove", "hybrid"))
      /\ Fine(p, 3, Op("rename", "payloads")) /\ Fine(p, 2, Op("rename", "filter"))
      /\ Fine(p, 1, Op("mark", "COMPLETE"))
  BY DEF Fine, Op, DerivedTimes, Times, PerFile, Files, Data
<1> HIDE DEF p
<1>2. Covers(p, 15, 12, Mapped("drop", <<"filter", "payloads", "manifest">>))
  <2> DEFINE drops == <<Op("drop", "filter"), Op("drop", "payloads"), Op("drop", "manifest")>>
  <2>1. Mapped("drop", <<"filter", "payloads", "manifest">>) = drops
    BY DEF Mapped
  <2>2. Covers(p, 15, 12, drops)
    BY <1>1, OpsAreOps DEF Covers
  <2> QED
    BY <2>1, <2>2
<1>3. Covers(p, 12, 10, Stage("payloads"))
  <2>1. Fine(p, 12, Op("tear", "payloads")) /\ Fine(p, 11, Op("write", "payloads"))
    BY <1>1
  <2> QED
    BY <2>1, CoversStage, FilesFacts
<1>4. Covers(p, 10, 8, Stage("filter"))
  <2>1. Fine(p, 10, Op("tear", "filter")) /\ Fine(p, 9, Op("write", "filter"))
    BY <1>1
  <2> QED
    BY <2>1, CoversStage, FilesFacts
<1>5. Covers(p, 8, 6, Stage("manifest"))
  <2>1. Fine(p, 8, Op("tear", "manifest")) /\ Fine(p, 7, Op("write", "manifest"))
    BY <1>1
  <2> QED
    BY <2>1, CoversStage, FilesFacts
<1>6. Covers(p, 6, 0, DerivedPublish)
  <2> DEFINE steps == <<Op("rename", "manifest"), Op("remove", "hybrid"),
      Op("rename", "payloads"),
                        Op("rename", "filter")>>
  <2>1. Covers(p, 5, 1, steps)
    BY <1>1, OpsAreOps DEF Covers
  <2>2. Covers(p, 5 + 1, 0, PublishSteps(steps))
    BY <1>1, <2>1, CoversPublish
  <2> QED
    BY <2>2 DEF DerivedPublish
<1>7. Covers(p, 15, 10, b)
  BY <1>2, <1>3, CoversJoin
<1>8. Covers(p, 15, 8, c)
  BY <1>7, <1>4, CoversJoin
<1>9. Covers(p, 15, 6, d)
  BY <1>8, <1>5, CoversJoin
<1>10. Covers(p, 15, 0, e)
  BY <1>9, <1>6, CoversJoin
<1> QED
  BY <1>10 DEF p

\* add_derived_fields where there is no manifest to copy.
LEMMA DerivedStubCovers == Covers(DerivedStub, 7, 0,
  Mapped("drop", <<"filter", "payloads", "manifest">>) \o Stage("payloads") \o Stage("filter"))
<1> DEFINE p == DerivedStub
           a == Mapped("drop", <<"filter", "payloads", "manifest">>)
           b == a \o Stage("payloads")
           c == b \o Stage("filter")
<1>1. /\ Fine(p, 7, Op("drop", "filter")) /\ Fine(p, 6, Op("drop", "payloads"))
      /\ Fine(p, 5, Op("drop", "manifest")) /\ Fine(p, 4, Op("tear", "payloads"))
      /\ Fine(p, 3, Op("write", "payloads")) /\ Fine(p, 2, Op("tear", "filter"))
      /\ Fine(p, 1, Op("write", "filter"))
  BY DEF Fine, Op, DerivedStub, Times, PerFile, Files, Data
<1> HIDE DEF p
<1>2. Covers(p, 7, 4, Mapped("drop", <<"filter", "payloads", "manifest">>))
  <2> DEFINE drops == <<Op("drop", "filter"), Op("drop", "payloads"), Op("drop", "manifest")>>
  <2>1. Mapped("drop", <<"filter", "payloads", "manifest">>) = drops
    BY DEF Mapped
  <2>2. Covers(p, 7, 4, drops)
    BY <1>1, OpsAreOps DEF Covers
  <2> QED
    BY <2>1, <2>2
<1>3. Covers(p, 4, 2, Stage("payloads"))
  <2>1. Fine(p, 4, Op("tear", "payloads")) /\ Fine(p, 3, Op("write", "payloads"))
    BY <1>1
  <2> QED
    BY <2>1, CoversStage, FilesFacts
<1>4. Covers(p, 2, 0, Stage("filter"))
  <2>1. Fine(p, 2, Op("tear", "filter")) /\ Fine(p, 1, Op("write", "filter"))
    BY <1>1
  <2> QED
    BY <2>1, CoversStage, FilesFacts
<1>5. Covers(p, 7, 2, b)
  BY <1>2, <1>3, CoversJoin
<1>6. Covers(p, 7, 0, c)
  BY <1>5, <1>4, CoversJoin
<1> QED
  BY <1>6 DEF p

\* A full build does what FullTimes says.
LEMMA FullCovers == Covers(FullTimes, 27, 0, BuildOps(TRUE))
<1> DEFINE p == FullTimes
           a == Mapped("drop", <<"vectors", "payloads", "filter", "tests", "hybrid", "manifest">>)
           b == a \o <<Op("unmark", "COMPLETE")>>
           c == b \o <<Op("tear", "vectors"), Op("tear", "payloads"), Op("write", "vectors"),
           Op("write", "payloads")>>
           d == c \o Stage("filter")
           e == d \o Stage("tests")
           f == e \o Stage("hybrid")
           g == f \o Stage("manifest")
           h == g \o Publish(<<"vectors", "payloads", "filter", "tests", "hybrid", "manifest">>)
<1>1. /\ Fine(p, 27, Op("drop", "vectors")) /\ Fine(p, 26, Op("drop", "payloads"))
      /\ Fine(p, 25, Op("drop", "filter")) /\ Fine(p, 24, Op("drop", "tests"))
      /\ Fine(p, 23, Op("drop", "hybrid")) /\ Fine(p, 22, Op("drop", "manifest"))
      /\ Fine(p, 21, Op("unmark", "COMPLETE")) /\ Fine(p, 20, Op("tear", "vectors"))
      /\ Fine(p, 19, Op("tear", "payloads"))
  BY DEF Fine, Op, FullTimes, Times, PerFile, Files, Data
<1>2. /\ Fine(p, 18, Op("write", "vectors")) /\ Fine(p, 17, Op("write", "payloads"))
      /\ Fine(p, 16, Op("tear", "filter")) /\ Fine(p, 15, Op("write", "filter"))
      /\ Fine(p, 14, Op("tear", "tests")) /\ Fine(p, 13, Op("write", "tests"))
      /\ Fine(p, 12, Op("tear", "hybrid")) /\ Fine(p, 11, Op("write", "hybrid"))
      /\ Fine(p, 10, Op("tear", "manifest"))
  BY DEF Fine, Op, FullTimes, Times, PerFile, Files, Data
<1>3. /\ Fine(p, 9, Op("write", "manifest")) /\ Fine(p, 8, Op("unmark", "COMPLETE"))
      /\ Fine(p, 7, Op("rename", "manifest")) /\ Fine(p, 6, Op("rename", "hybrid"))
      /\ Fine(p, 5, Op("rename", "tests")) /\ Fine(p, 4, Op("rename", "filter"))
      /\ Fine(p, 3, Op("rename", "payloads")) /\ Fine(p, 2, Op("rename", "vectors"))
      /\ Fine(p, 1, Op("mark", "COMPLETE"))
  BY DEF Fine, Op, FullTimes, Times, PerFile, Files, Data
<1> HIDE DEF p
<1>4. Covers(p, 27, 21,
      Mapped("drop", <<"vectors", "payloads", "filter", "tests", "hybrid", "manifest">>))
  <2> DEFINE drops == <<Op("drop", "vectors"), Op("drop", "payloads"), Op("drop", "filter"),
                        Op("drop", "tests"), Op("drop", "hybrid"), Op("drop", "manifest")>>
  <2>1. Mapped("drop", <<"vectors", "payloads", "filter", "tests", "hybrid", "manifest">>) = drops
    BY DEF Mapped
  <2>2. Covers(p, 27, 21, drops)
    BY <1>1, <1>2, <1>3, OpsAreOps DEF Covers
  <2> QED
    BY <2>1, <2>2
<1>5. Covers(p, 21, 20, <<Op("unmark", "COMPLETE")>>)
  BY <1>1, <1>2, <1>3, OpsAreOps DEF Covers
<1>6. Covers(p, 20, 16,
      <<Op("tear", "vectors"), Op("tear", "payloads"), Op("write", "vectors"),
      Op("write", "payloads")>>)
  BY <1>1, <1>2, <1>3, OpsAreOps DEF Covers
<1>7. Covers(p, 16, 14, Stage("filter"))
  <2>1. Fine(p, 16, Op("tear", "filter")) /\ Fine(p, 15, Op("write", "filter"))
    BY <1>1, <1>2, <1>3
  <2> QED
    BY <2>1, CoversStage, FilesFacts
<1>8. Covers(p, 14, 12, Stage("tests"))
  <2>1. Fine(p, 14, Op("tear", "tests")) /\ Fine(p, 13, Op("write", "tests"))
    BY <1>1, <1>2, <1>3
  <2> QED
    BY <2>1, CoversStage, FilesFacts
<1>9. Covers(p, 12, 10, Stage("hybrid"))
  <2>1. Fine(p, 12, Op("tear", "hybrid")) /\ Fine(p, 11, Op("write", "hybrid"))
    BY <1>1, <1>2, <1>3
  <2> QED
    BY <2>1, CoversStage, FilesFacts
<1>10. Covers(p, 10, 8, Stage("manifest"))
  <2>1. Fine(p, 10, Op("tear", "manifest")) /\ Fine(p, 9, Op("write", "manifest"))
    BY <1>1, <1>2, <1>3
  <2> QED
    BY <2>1, CoversStage, FilesFacts
<1>11. Covers(p, 8, 0,
       Publish(<<"vectors", "payloads", "filter", "tests", "hybrid", "manifest">>))
  <2> DEFINE steps == <<Op("rename", "manifest"), Op("rename", "hybrid"), Op("rename", "tests"),
                        Op("rename", "filter"), Op("rename", "payloads"),
                        Op("rename", "vectors")>>
  <2>1. Covers(p, 7, 1, steps)
    BY <1>1, <1>2, <1>3, OpsAreOps DEF Covers
  <2>2. Covers(p, 7 + 1, 0, PublishSteps(steps))
    BY <1>1, <1>2, <1>3, <2>1, CoversPublish
  <2> QED
    BY <2>2 DEF Publish
<1>12. Covers(p, 27, 20, b)
  BY <1>4, <1>5, CoversJoin
<1>13. Covers(p, 27, 16, c)
  BY <1>12, <1>6, CoversJoin
<1>14. Covers(p, 27, 14, d)
  BY <1>13, <1>7, CoversJoin
<1>15. Covers(p, 27, 12, e)
  BY <1>14, <1>8, CoversJoin
<1>16. Covers(p, 27, 10, f)
  BY <1>15, <1>9, CoversJoin
<1>17. Covers(p, 27, 8, g)
  BY <1>16, <1>10, CoversJoin
<1>18. Covers(p, 27, 0, h)
  BY <1>17, <1>11, CoversJoin
<1> QED
  BY <1>18 DEF p, BuildOps, ClearStaged

\* A text-only build does what TextTimes says.
LEMMA TextCovers == Covers(TextTimes, 25, 0, BuildOps(FALSE))
<1> DEFINE p == TextTimes
           a == Mapped("drop", <<"vectors", "payloads", "filter", "tests", "hybrid", "manifest">>)
           b == a \o <<Op("unmark", "COMPLETE")>>
           c == b \o <<Op("tear", "vectors"), Op("tear", "payloads"), Op("write", "vectors"),
           Op("write", "payloads")>>
           d == c \o Stage("filter")
           e == d \o Stage("tests")
           f == e \o Stage("manifest")
           g == f \o PublishSteps(<<Op("remove", "hybrid"), Op("rename", "manifest"),
           Op("rename", "tests"), Op("rename", "filter"), Op("rename", "payloads"),
           Op("rename", "vectors")>>)
<1>1. /\ Fine(p, 25, Op("drop", "vectors")) /\ Fine(p, 24, Op("drop", "payloads"))
      /\ Fine(p, 23, Op("drop", "filter")) /\ Fine(p, 22, Op("drop", "tests"))
      /\ Fine(p, 21, Op("drop", "hybrid")) /\ Fine(p, 20, Op("drop", "manifest"))
      /\ Fine(p, 19, Op("unmark", "COMPLETE")) /\ Fine(p, 18, Op("tear", "vectors"))
      /\ Fine(p, 17, Op("tear", "payloads"))
  BY DEF Fine, Op, TextTimes, Times, PerFile, Files, Data
<1>2. /\ Fine(p, 16, Op("write", "vectors")) /\ Fine(p, 15, Op("write", "payloads"))
      /\ Fine(p, 14, Op("tear", "filter")) /\ Fine(p, 13, Op("write", "filter"))
      /\ Fine(p, 12, Op("tear", "tests")) /\ Fine(p, 11, Op("write", "tests"))
      /\ Fine(p, 10, Op("tear", "manifest")) /\ Fine(p, 9, Op("write", "manifest"))
      /\ Fine(p, 8, Op("unmark", "COMPLETE"))
  BY DEF Fine, Op, TextTimes, Times, PerFile, Files, Data
<1>3. /\ Fine(p, 7, Op("remove", "hybrid")) /\ Fine(p, 6, Op("rename", "manifest"))
      /\ Fine(p, 5, Op("rename", "tests")) /\ Fine(p, 4, Op("rename", "filter"))
      /\ Fine(p, 3, Op("rename", "payloads")) /\ Fine(p, 2, Op("rename", "vectors"))
      /\ Fine(p, 1, Op("mark", "COMPLETE"))
  BY DEF Fine, Op, TextTimes, Times, PerFile, Files, Data
<1> HIDE DEF p
<1>4. Covers(p, 25, 19,
      Mapped("drop", <<"vectors", "payloads", "filter", "tests", "hybrid", "manifest">>))
  <2> DEFINE drops == <<Op("drop", "vectors"), Op("drop", "payloads"), Op("drop", "filter"),
                        Op("drop", "tests"), Op("drop", "hybrid"), Op("drop", "manifest")>>
  <2>1. Mapped("drop", <<"vectors", "payloads", "filter", "tests", "hybrid", "manifest">>) = drops
    BY DEF Mapped
  <2>2. Covers(p, 25, 19, drops)
    BY <1>1, <1>2, <1>3, OpsAreOps DEF Covers
  <2> QED
    BY <2>1, <2>2
<1>5. Covers(p, 19, 18, <<Op("unmark", "COMPLETE")>>)
  BY <1>1, <1>2, <1>3, OpsAreOps DEF Covers
<1>6. Covers(p, 18, 14,
      <<Op("tear", "vectors"), Op("tear", "payloads"), Op("write", "vectors"),
      Op("write", "payloads")>>)
  BY <1>1, <1>2, <1>3, OpsAreOps DEF Covers
<1>7. Covers(p, 14, 12, Stage("filter"))
  <2>1. Fine(p, 14, Op("tear", "filter")) /\ Fine(p, 13, Op("write", "filter"))
    BY <1>1, <1>2, <1>3
  <2> QED
    BY <2>1, CoversStage, FilesFacts
<1>8. Covers(p, 12, 10, Stage("tests"))
  <2>1. Fine(p, 12, Op("tear", "tests")) /\ Fine(p, 11, Op("write", "tests"))
    BY <1>1, <1>2, <1>3
  <2> QED
    BY <2>1, CoversStage, FilesFacts
<1>9. Covers(p, 10, 8, Stage("manifest"))
  <2>1. Fine(p, 10, Op("tear", "manifest")) /\ Fine(p, 9, Op("write", "manifest"))
    BY <1>1, <1>2, <1>3
  <2> QED
    BY <2>1, CoversStage, FilesFacts
<1>10. Covers(p, 8, 0,
       PublishSteps(<<Op("remove", "hybrid"), Op("rename", "manifest"), Op("rename", "tests"),
       Op("rename", "filter"), Op("rename", "payloads"), Op("rename", "vectors")>>))
  <2> DEFINE steps == <<Op("remove", "hybrid"), Op("rename", "manifest"), Op("rename", "tests"),
                        Op("rename", "filter"), Op("rename", "payloads"),
                        Op("rename", "vectors")>>
  <2>1. Covers(p, 7, 1, steps)
    BY <1>1, <1>2, <1>3, OpsAreOps DEF Covers
  <2>2. Covers(p, 7 + 1, 0, PublishSteps(steps))
    BY <1>1, <1>2, <1>3, <2>1, CoversPublish
  <2> QED
    BY <2>2
<1>11. Covers(p, 25, 18, b)
  BY <1>4, <1>5, CoversJoin
<1>12. Covers(p, 25, 14, c)
  BY <1>11, <1>6, CoversJoin
<1>13. Covers(p, 25, 12, d)
  BY <1>12, <1>7, CoversJoin
<1>14. Covers(p, 25, 10, e)
  BY <1>13, <1>8, CoversJoin
<1>15. Covers(p, 25, 8, f)
  BY <1>14, <1>9, CoversJoin
<1>16. Covers(p, 25, 0, g)
  BY <1>15, <1>10, CoversJoin
<1> QED
  BY <1>16 DEF p, BuildOps, ClearStaged

\* The first operation of a plan and the others.
LEMMA HeadTail ==
  ASSUME NEW s \in Seq(AllOps), s # <<>>
  PROVE  /\ Head(s) = s[1] /\ Len(s) \in Nat /\ Len(s) >= 1
         /\ Tail(s) \in Seq(AllOps) /\ Len(Tail(s)) = Len(s) - 1
         /\ \A i \in 1..(Len(s) - 1) : Tail(s)[i] = s[i + 1]
  OBVIOUS

\* The rest of a plan is the plan with one operation less.
LEMMA CoversTail ==
  ASSUME NEW p, NEW n, NEW s, Covers(p, n, 0, s), s # <<>>
  PROVE  n \in Nat /\ n >= 1 /\ Len(s) = n /\ Fine(p, n, Head(s)) /\ Covers(p, n - 1, 0, Tail(s))
         /\ Len(Tail(s)) = n - 1
<1>1. s \in Seq(AllOps) /\ n \in Nat /\ Len(s) = n
  BY DEF Covers
<1>2. /\ Head(s) = s[1] /\ Len(s) >= 1 /\ Tail(s) \in Seq(AllOps) /\ Len(Tail(s)) = Len(s) - 1
      /\ \A i \in 1..(Len(s) - 1) : Tail(s)[i] = s[i + 1]
  BY <1>1, HeadTail
<1>3. Fine(p, n + 1 - 1, s[1])
  BY <1>1, <1>2 DEF Covers
<1> DEFINE t == Tail(s)
<1> HIDE DEF t
<1>4. ASSUME NEW i \in 1..Len(t) PROVE Fine(p, (n - 1) + 1 - i, t[i])
  <2>1. i + 1 \in 1..Len(s) /\ t[i] = s[i + 1]
    BY <1>1, <1>2 DEF t
  <2>2. Fine(p, n + 1 - (i + 1), s[i + 1])
    BY <2>1 DEF Covers
  <2>3. n + 1 - (i + 1) = (n - 1) + 1 - i
    BY <1>1, <2>1
  <2> QED
    BY <2>1, <2>2, <2>3
<1>5. t \in Seq(AllOps) /\ n - 1 \in Nat /\ 0 \in Nat /\ 0 + Len(t) = n - 1
  BY <1>1, <1>2 DEF t
<1>6. Covers(p, n - 1, 0, t)
  BY <1>4, <1>5 DEF Covers
<1> QED
  BY <1>1, <1>2, <1>3, <1>6 DEF t

\* What one file operation does, kind by kind.
LEMMA DoIs ==
  ASSUME NEW k, NEW f, Do(k, f)
  PROVE  /\ (k = "tear" /\ f = "manifest")
              => (manPart' = TornManifest /\ UNCHANGED <<pub, part, man, marker>>)
         /\ (k = "write" /\ f = "manifest")
              => (manPart' = newMan /\ UNCHANGED <<pub, part, man, marker>>)
         /\ (k = "drop" /\ f = "manifest")
              => (manPart' = NoManifest /\ UNCHANGED <<pub, part, man, marker>>)
         /\ (k = "rename" /\ f = "manifest")
              => (man' = manPart /\ manPart' = NoManifest /\ UNCHANGED <<pub, part, marker>>)
         /\ (k = "tear" /\ f \in Data)
              => (part' = [part EXCEPT ![f] = "torn"] /\ UNCHANGED <<pub, man, manPart, marker>>)
         /\ (k = "write" /\ f \in Data)
              => (part' = [part EXCEPT ![f] = made[f]] /\ UNCHANGED <<pub, man, manPart, marker>>)
         /\ (k = "drop" /\ f \in Data)
              => (part' = [part EXCEPT ![f] = "none"] /\ UNCHANGED <<pub, man, manPart, marker>>)
         /\ (k = "rename" /\ f \in Data)
              => (pub' = [pub EXCEPT ![f] = part[f]] /\ part' = [part EXCEPT ![f] = "none"]
                                            /\ UNCHANGED <<man, manPart, marker>>)
         /\ (k = "remove")
              => (pub' = [pub EXCEPT ![f] = "none"] /\ UNCHANGED <<part, man, manPart, marker>>)
         /\ (k = "unmark") => (marker' = FALSE /\ UNCHANGED <<pub, part, man, manPart>>)
         /\ (k = "mark") => (marker' = TRUE /\ UNCHANGED <<pub, part, man, manPart>>)
<1>1. "manifest" \notin Data
  BY DEF Data
<1> QED
  BY <1>1 DEF Do, SetData

\* A step of a command at work keeps the directory and follows the plan.
DirStep == DirOK' /\ LegacyOK' /\ MarkerOK'
FileStep(p, n) ==
  /\ FilesOn(p, n - 1)' /\ ManifestOn(p, n - 1)' /\ SealOn(p)' /\ LegacyOn(p)'
  /\ ((0 < n - 1 /\ n - 1 < p.u) => ~marker')

\* The state before the operation <<k, f>> that leaves n - 1 operations.
Before(p, n, k, f) ==
  /\ DirOK /\ LegacyOK /\ MarkerOK /\ Timely(p) /\ n \in Nat /\ n >= 1
  /\ Fine(p, n, <<k, f>>) /\ MadeOn(p) /\ FilesOn(p, n) /\ ManifestOn(p, n) /\ SealOn(p)
       /\ LegacyOn(p)
  /\ ((0 < n /\ n < p.u) => ~marker)
  /\ Do(k, f) /\ stage = "work"
  /\ UNCHANGED <<cmd, stage, made, newMan, ends, returned>> /\ cut' = {}

\* The kinds of manifests.
LEMMA ManifestFacts ==
  /\ NoManifest.kind = "none" /\ Legacy.kind = "legacy" /\ TornManifest.kind = "torn"
  /\ \A m \in Seals : m.kind = "sealed"
  /\ NoManifest \notin Seals /\ Legacy \notin Seals /\ TornManifest \notin Seals
  BY DEF NoManifest, Legacy, TornManifest, Manifest, Seals, Sealed

\* A data file is torn or dropped.
LEMMA StageData ==
  ASSUME NEW p, NEW n, NEW k, NEW f, Before(p, n, k, f), k \in {"tear", "drop"}, f \in Data
  PROVE  DirStep /\ FileStep(p, n)
<1> USE FilesFacts, ManifestFacts
<1>1. (part' = [part EXCEPT ![f] = "torn"] \/ part' = [part EXCEPT ![f] = "none"])
      /\ UNCHANGED <<pub, man, manPart, marker>>
  <2>1. CASE k = "tear"
    BY <2>1, DoIs DEF Before
  <2>2. CASE k = "drop"
    BY <2>2, DoIs DEF Before
  <2> QED
    BY <2>1, <2>2
<1>2. /\ p.u \in Nat /\ \A g \in Files : p.w[g] \in Nat /\ p.r[g] \in Nat
      /\ \A g \in Files : p.r[g] > 0 => p.r[g] > 1 /\ p.r[g] < p.u
      /\ \A g \in Files : p.u > 0 /\ p.w[g] > 0 => p.u < p.w[g] /\ p.r[g] > 0
      /\ n \in Nat /\ n >= 1
  BY DEF Before, Timely
<1>3. n > p.w[f] /\ n > p.u /\ (\A g \in Files : n # p.w[g] /\ n # p.r[g]) /\ n # p.u
  BY DEF Before, Fine
<1>4. UNCHANGED <<cmd, stage, made, newMan, ends, returned>> /\ cut' = {}
  BY DEF Before
<1>5. /\ DOMAIN part' = Data /\ part'[f] \in {"none", "torn"}
           /\ \A g \in Data \ {f} : part'[g] = part[g]
  BY <1>1 DEF Before, DirOK
<1>dir. DirOK'
  BY <1>1, <1>3, <1>4, <1>5 DEF Before, DirOK
<1>leg. LegacyOK'
  BY <1>1 DEF Before, LegacyOK
<1>mar. MarkerOK'
  BY <1>1 DEF Before, MarkerOK
<1>fil. FilesOn(p, n - 1)'
  BY <1>1, <1>2, <1>3, <1>4, <1>5 DEF Before, FilesOn
<1>man. ManifestOn(p, n - 1)'
  BY <1>1, <1>2, <1>3, <1>4 DEF Before, ManifestOn
<1>sea. SealOn(p)'
  BY <1>1, <1>4 DEF Before, SealOn
<1>lgo. LegacyOn(p)'
  BY <1>1, <1>4 DEF Before, LegacyOn
<1>mrk. (0 < n - 1 /\ n - 1 < p.u) => ~marker'
  BY <1>1, <1>2, <1>3 DEF Before
<1> QED
  BY <1>dir, <1>leg, <1>mar, <1>fil, <1>man, <1>sea, <1>lgo, <1>mrk DEF DirStep, FileStep

\* The staged manifest is torn or dropped.
LEMMA StageManifest ==
  ASSUME NEW p, NEW n, NEW k, NEW f, Before(p, n, k, f), k \in {"tear", "drop"}, f = "manifest"
  PROVE  DirStep /\ FileStep(p, n)
<1> USE FilesFacts, ManifestFacts
<1>1. (manPart' = TornManifest \/ manPart' = NoManifest) /\ UNCHANGED <<pub, part, man, marker>>
  BY DoIs DEF Before
<1>2. /\ p.u \in Nat /\ \A g \in Files : p.w[g] \in Nat /\ p.r[g] \in Nat
      /\ \A g \in Files : p.r[g] > 0 => p.r[g] > 1 /\ p.r[g] < p.u
      /\ \A g \in Files : p.u > 0 /\ p.w[g] > 0 => p.u < p.w[g] /\ p.r[g] > 0
      /\ n \in Nat /\ n >= 1
  BY DEF Before, Timely
<1>3. n > p.w["manifest"] /\ n > p.u /\ (\A g \in Files : n # p.w[g] /\ n # p.r[g]) /\ n # p.u
  BY DEF Before, Fine
<1>4. UNCHANGED <<cmd, stage, made, newMan, ends, returned>> /\ cut' = {}
  BY DEF Before
<1>dir. DirOK'
  BY <1>1, <1>3, <1>4 DEF Before, DirOK
<1>leg. LegacyOK'
  BY <1>1 DEF Before, LegacyOK
<1>mar. MarkerOK'
  BY <1>1 DEF Before, MarkerOK
<1>fil. FilesOn(p, n - 1)'
  BY <1>1, <1>2, <1>3, <1>4 DEF Before, FilesOn
<1>man. ManifestOn(p, n - 1)'
  BY <1>1, <1>2, <1>3, <1>4 DEF Before, ManifestOn
<1>sea. SealOn(p)'
  BY <1>1, <1>4 DEF Before, SealOn
<1>lgo. LegacyOn(p)'
  BY <1>1, <1>4 DEF Before, LegacyOn
<1>mrk. (0 < n - 1 /\ n - 1 < p.u) => ~marker'
  BY <1>1, <1>2, <1>3 DEF Before
<1> QED
  BY <1>dir, <1>leg, <1>mar, <1>fil, <1>man, <1>sea, <1>lgo, <1>mrk DEF DirStep, FileStep

\* A data file is staged whole.
LEMMA WriteData ==
  ASSUME NEW p, NEW n, NEW k, NEW f, Before(p, n, k, f), k = "write", f \in Data
  PROVE  DirStep /\ FileStep(p, n)
<1> USE FilesFacts, ManifestFacts
<1>1. part' = [part EXCEPT ![f] = made[f]] /\ UNCHANGED <<pub, man, manPart, marker>>
  BY DoIs DEF Before
<1>2. /\ p.u \in Nat /\ \A g \in Files : p.w[g] \in Nat /\ p.r[g] \in Nat
      /\ \A g \in Files : p.r[g] > 0 => p.r[g] > 1 /\ p.r[g] < p.u
      /\ \A g \in Files : p.u > 0 /\ p.w[g] > 0 => p.u < p.w[g] /\ p.r[g] > 0
      /\ n \in Nat /\ n >= 1
  BY DEF Before, Timely
<1>3. n = p.w[f] /\ (\A g \in Files : (n = p.w[g] => g = f) /\ n # p.r[g]) /\ n # p.u
  BY DEF Before, Fine
<1>4. UNCHANGED <<cmd, stage, made, newMan, ends, returned>> /\ cut' = {}
  BY DEF Before
<1>5. /\ DOMAIN part' = Data /\ part'[f] = made[f] /\ \A g \in Data \ {f} : part'[g] = part[g]
  BY <1>1 DEF Before, DirOK, MadeOn
<1>dir. DirOK'
  BY <1>1, <1>3, <1>4, <1>5 DEF Before, DirOK, MadeOn
<1>leg. LegacyOK'
  BY <1>1 DEF Before, LegacyOK
<1>mar. MarkerOK'
  BY <1>1 DEF Before, MarkerOK
<1>fil. FilesOn(p, n - 1)'
  BY <1>1, <1>2, <1>3, <1>4, <1>5 DEF Before, FilesOn
<1>man. ManifestOn(p, n - 1)'
  BY <1>1, <1>2, <1>3, <1>4 DEF Before, ManifestOn
<1>sea. SealOn(p)'
  BY <1>1, <1>4 DEF Before, SealOn
<1>lgo. LegacyOn(p)'
  BY <1>1, <1>4 DEF Before, LegacyOn
<1>mrk. (0 < n - 1 /\ n - 1 < p.u) => ~marker'
  BY <1>1, <1>2, <1>3 DEF Before
<1> QED
  BY <1>dir, <1>leg, <1>mar, <1>fil, <1>man, <1>sea, <1>lgo, <1>mrk DEF DirStep, FileStep

\* The manifest is staged whole.
LEMMA WriteManifest ==
  ASSUME NEW p, NEW n, NEW k, NEW f, Before(p, n, k, f), k = "write", f = "manifest"
  PROVE  DirStep /\ FileStep(p, n)
<1> USE FilesFacts, ManifestFacts
<1>1. manPart' = newMan /\ UNCHANGED <<pub, part, man, marker>>
  BY DoIs DEF Before
<1>2. /\ p.u \in Nat /\ \A g \in Files : p.w[g] \in Nat /\ p.r[g] \in Nat
      /\ \A g \in Files : p.r[g] > 0 => p.r[g] > 1 /\ p.r[g] < p.u
      /\ \A g \in Files : p.u > 0 /\ p.w[g] > 0 => p.u < p.w[g] /\ p.r[g] > 0
      /\ n \in Nat /\ n >= 1
  BY DEF Before, Timely
<1>3. n = p.w[f] /\ (\A g \in Files : (n = p.w[g] => g = f) /\ n # p.r[g]) /\ n # p.u
  BY DEF Before, Fine
<1>4. UNCHANGED <<cmd, stage, made, newMan, ends, returned>> /\ cut' = {}
  BY DEF Before
<1>dir. DirOK'
  BY <1>1, <1>3, <1>4 DEF Before, DirOK, MadeOn
<1>leg. LegacyOK'
  BY <1>1 DEF Before, LegacyOK
<1>mar. MarkerOK'
  BY <1>1 DEF Before, MarkerOK
<1>fil. FilesOn(p, n - 1)'
  BY <1>1, <1>2, <1>3, <1>4 DEF Before, FilesOn
<1>man. ManifestOn(p, n - 1)'
  BY <1>1, <1>2, <1>3, <1>4 DEF Before, ManifestOn
<1>sea. SealOn(p)'
  BY <1>1, <1>4 DEF Before, SealOn
<1>lgo. LegacyOn(p)'
  BY <1>1, <1>4 DEF Before, LegacyOn
<1>mrk. (0 < n - 1 /\ n - 1 < p.u) => ~marker'
  BY <1>1, <1>2, <1>3 DEF Before
<1> QED
  BY <1>dir, <1>leg, <1>mar, <1>fil, <1>man, <1>sea, <1>lgo, <1>mrk DEF DirStep, FileStep

\* A data file is published: the manifest went before it.
LEMMA RenameData ==
  ASSUME NEW p, NEW n, NEW k, NEW f, Before(p, n, k, f), k = "rename", f \in Data
  PROVE  DirStep /\ FileStep(p, n)
<1> USE FilesFacts, ManifestFacts
<1>1. pub' = [pub EXCEPT ![f] = part[f]] /\ part' = [part EXCEPT ![f] = "none"]
      /\ UNCHANGED <<man, manPart, marker>>
  BY DoIs DEF Before
<1>2. /\ p.u \in Nat /\ \A g \in Files : p.w[g] \in Nat /\ p.r[g] \in Nat
      /\ \A g \in Files : p.r[g] > 0 => p.r[g] > 1 /\ p.r[g] < p.u
      /\ \A g \in Files : p.u > 0 /\ p.w[g] > 0 => p.u < p.w[g] /\ p.r[g] > 0
      /\ n \in Nat /\ n >= 1
  BY DEF Before, Timely
<1>3. n = p.r[f] /\ p.w[f] > 0 /\ n < p.r["manifest"]
      /\ (\A g \in Files : (n = p.r[g] => g = f) /\ n # p.w[g]) /\ n # p.u
  BY DEF Before, Fine
<1>4. UNCHANGED <<cmd, stage, made, newMan, ends, returned>> /\ cut' = {}
  BY DEF Before
<1>5. part[f] = made[f] /\ made[f] # "none" /\ ~marker
  BY <1>2, <1>3 DEF Before, FilesOn, MadeOn
<1>6. man = newMan
  BY <1>2, <1>3 DEF Before, ManifestOn
<1>7. /\ DOMAIN part' = Data /\ part'[f] = "none" /\ (\A g \in Data \ {f} : part'[g] = part[g])
      /\ DOMAIN pub' = Data /\ pub'[f] = made[f] /\ (\A g \in Data \ {f} : pub'[g] = pub[g])
  BY <1>1, <1>5 DEF Before, DirOK
<1>dir. DirOK'
  BY <1>1, <1>4, <1>7 DEF Before, DirOK, MadeOn
<1>leg. LegacyOK'
  BY <1>1, <1>2, <1>3, <1>5, <1>6, <1>7 DEF Before, LegacyOK, LegacyOn, FilesOn
<1>mar. MarkerOK'
  BY <1>1, <1>5 DEF MarkerOK
<1>fil. FilesOn(p, n - 1)'
  BY <1>1, <1>2, <1>3, <1>4, <1>7 DEF Before, FilesOn
<1>man. ManifestOn(p, n - 1)'
  BY <1>1, <1>2, <1>3, <1>4 DEF Before, ManifestOn
<1>sea. SealOn(p)'
  BY <1>1, <1>2, <1>3, <1>4, <1>7 DEF Before, SealOn
<1>lgo. LegacyOn(p)'
  BY <1>1, <1>2, <1>3, <1>4, <1>6, <1>7 DEF Before, LegacyOn
<1>mrk. (0 < n - 1 /\ n - 1 < p.u) => ~marker'
  BY <1>1, <1>2, <1>3 DEF Before
<1> QED
  BY <1>dir, <1>leg, <1>mar, <1>fil, <1>man, <1>sea, <1>lgo, <1>mrk DEF DirStep, FileStep

\* The manifest is published.
LEMMA RenameManifest ==
  ASSUME NEW p, NEW n, NEW k, NEW f, Before(p, n, k, f), k = "rename", f = "manifest"
  PROVE  DirStep /\ FileStep(p, n)
<1> USE FilesFacts, ManifestFacts
<1>1. man' = manPart /\ manPart' = NoManifest /\ UNCHANGED <<pub, part, marker>>
  BY DoIs DEF Before
<1>2. /\ p.u \in Nat /\ \A g \in Files : p.w[g] \in Nat /\ p.r[g] \in Nat
      /\ \A g \in Files : p.r[g] > 0 => p.r[g] > 1 /\ p.r[g] < p.u
      /\ \A g \in Files : p.u > 0 /\ p.w[g] > 0 => p.u < p.w[g] /\ p.r[g] > 0
      /\ n \in Nat /\ n >= 1
  BY DEF Before, Timely
<1>3. n = p.r[f] /\ p.w[f] > 0 /\ (\A g \in Files : (n = p.r[g] => g = f) /\ n # p.w[g])
      /\ n # p.u
  BY DEF Before, Fine
<1>4. UNCHANGED <<cmd, stage, made, newMan, ends, returned>> /\ cut' = {}
  BY DEF Before
<1>5. manPart = newMan /\ ~marker
  BY <1>2, <1>3 DEF Before, ManifestOn
<1>dir. DirOK'
  BY <1>1, <1>4, <1>5 DEF Before, DirOK, MadeOn
<1>leg. LegacyOK'
  BY <1>1, <1>2, <1>3, <1>5 DEF Before, LegacyOK, LegacyOn
<1>mar. MarkerOK'
  BY <1>1, <1>5 DEF MarkerOK
<1>fil. FilesOn(p, n - 1)'
  BY <1>1, <1>2, <1>3, <1>4 DEF Before, FilesOn
<1>man. ManifestOn(p, n - 1)'
  BY <1>1, <1>2, <1>3, <1>4 DEF Before, ManifestOn
<1>sea. SealOn(p)'
  BY <1>1, <1>4 DEF Before, SealOn
<1>lgo. LegacyOn(p)'
  BY <1>1, <1>4, <1>5 DEF Before, LegacyOn
<1>mrk. (0 < n - 1 /\ n - 1 < p.u) => ~marker'
  BY <1>1, <1>2, <1>3 DEF Before
<1> QED
  BY <1>dir, <1>leg, <1>mar, <1>fil, <1>man, <1>sea, <1>lgo, <1>mrk DEF DirStep, FileStep

\* Hybrid queries that no longer fit are removed.
LEMMA RemoveData ==
  ASSUME NEW p, NEW n, NEW k, NEW f, Before(p, n, k, f), k = "remove", f = "hybrid"
  PROVE  DirStep /\ FileStep(p, n)
<1> USE FilesFacts, ManifestFacts
<1>1. pub' = [pub EXCEPT ![f] = "none"] /\ UNCHANGED <<part, man, manPart, marker>>
  BY DoIs DEF Before
<1>2. /\ p.u \in Nat /\ \A g \in Files : p.w[g] \in Nat /\ p.r[g] \in Nat
      /\ \A g \in Files : p.r[g] > 0 => p.r[g] > 1 /\ p.r[g] < p.u
      /\ \A g \in Files : p.u > 0 /\ p.w[g] > 0 => p.u < p.w[g] /\ p.r[g] > 0
      /\ n \in Nat /\ n >= 1
  BY DEF Before, Timely
<1>3. n = p.r[f] /\ p.w[f] = 0 /\ (\A g \in Files : (n = p.r[g] => g = f) /\ n # p.w[g])
      /\ n # p.u
  BY DEF Before, Fine
<1>4. UNCHANGED <<cmd, stage, made, newMan, ends, returned>> /\ cut' = {}
  BY DEF Before
<1>5. made["hybrid"] = "none" /\ ~marker
  BY <1>2, <1>3 DEF Before, MadeOn
<1>7. /\ DOMAIN pub' = Data /\ pub'["hybrid"] = "none"
           /\ (\A g \in Data \ {"hybrid"} : pub'[g] = pub[g])
  BY <1>1 DEF Before, DirOK
<1>dir. DirOK'
  BY <1>1, <1>4, <1>7 DEF Before, DirOK
<1>leg. LegacyOK'
  BY <1>1, <1>7 DEF Before, LegacyOK
<1>mar. MarkerOK'
  BY <1>1, <1>5 DEF MarkerOK
<1>fil. FilesOn(p, n - 1)'
  BY <1>1, <1>2, <1>3, <1>4, <1>5, <1>7 DEF Before, FilesOn
<1>man. ManifestOn(p, n - 1)'
  BY <1>1, <1>2, <1>3, <1>4 DEF Before, ManifestOn
<1>sea. SealOn(p)'
  BY <1>1, <1>2, <1>3, <1>4, <1>5, <1>7 DEF Before, SealOn
<1>lgo. LegacyOn(p)'
  BY <1>1, <1>4, <1>7 DEF Before, LegacyOn
<1>mrk. (0 < n - 1 /\ n - 1 < p.u) => ~marker'
  BY <1>1, <1>2, <1>3 DEF Before
<1> QED
  BY <1>dir, <1>leg, <1>mar, <1>fil, <1>man, <1>sea, <1>lgo, <1>mrk DEF DirStep, FileStep

\* COMPLETE is removed.
LEMMA Unmark ==
  ASSUME NEW p, NEW n, NEW k, NEW f, Before(p, n, k, f), k = "unmark"
  PROVE  DirStep /\ FileStep(p, n)
<1> USE FilesFacts, ManifestFacts
<1>1. marker' = FALSE /\ UNCHANGED <<pub, part, man, manPart>>
  BY DoIs DEF Before
<1>2. /\ p.u \in Nat /\ \A g \in Files : p.w[g] \in Nat /\ p.r[g] \in Nat
      /\ \A g \in Files : p.r[g] > 0 => p.r[g] > 1 /\ p.r[g] < p.u
      /\ \A g \in Files : p.u > 0 /\ p.w[g] > 0 => p.u < p.w[g] /\ p.r[g] > 0
      /\ n \in Nat /\ n >= 1
  BY DEF Before, Timely
<1>3. n >= p.u /\ (\A g \in Files : n # p.w[g] /\ n # p.r[g])
  BY DEF Before, Fine
<1>4. UNCHANGED <<cmd, stage, made, newMan, ends, returned>> /\ cut' = {}
  BY DEF Before
<1>dir. DirOK'
  BY <1>1, <1>3, <1>4 DEF Before, DirOK
<1>leg. LegacyOK'
  BY <1>1 DEF Before, LegacyOK
<1>mar. MarkerOK'
  BY <1>1 DEF Before, MarkerOK
<1>fil. FilesOn(p, n - 1)'
  BY <1>1, <1>2, <1>3, <1>4 DEF Before, FilesOn
<1>man. ManifestOn(p, n - 1)'
  BY <1>1, <1>2, <1>3, <1>4 DEF Before, ManifestOn
<1>sea. SealOn(p)'
  BY <1>1, <1>4 DEF Before, SealOn
<1>lgo. LegacyOn(p)'
  BY <1>1, <1>4 DEF Before, LegacyOn
<1>mrk. (0 < n - 1 /\ n - 1 < p.u) => ~marker'
  BY <1>1, <1>2, <1>3 DEF Before
<1> QED
  BY <1>dir, <1>leg, <1>mar, <1>fil, <1>man, <1>sea, <1>lgo, <1>mrk DEF DirStep, FileStep

\* COMPLETE is written: every file of the plan is in place.
LEMMA Mark ==
  ASSUME NEW p, NEW n, NEW k, NEW f, Before(p, n, k, f), k = "mark"
  PROVE  DirStep /\ FileStep(p, n)
<1> USE FilesFacts, ManifestFacts
<1>1. marker' = TRUE /\ UNCHANGED <<pub, part, man, manPart>>
  BY DoIs DEF Before
<1>2. /\ p.u \in Nat /\ \A g \in Files : p.w[g] \in Nat /\ p.r[g] \in Nat
      /\ \A g \in Files : p.r[g] > 0 => p.r[g] > 1 /\ p.r[g] < p.u
      /\ \A g \in Files : p.u > 0 /\ p.w[g] > 0 => p.u < p.w[g] /\ p.r[g] > 0
      /\ n \in Nat /\ n >= 1
  BY DEF Before, Timely
<1>3. n = 1 /\ p.u > 0 /\ (\A g \in Files : n # p.w[g] /\ n # p.r[g])
  BY DEF Before, Fine
<1>4. UNCHANGED <<cmd, stage, made, newMan, ends, returned>> /\ cut' = {}
  BY DEF Before
<1>5. man = newMan
  BY <1>2, <1>3 DEF Before, ManifestOn, Timely
<1>6. \A g \in Data : p.r[g] > 0 => pub[g] = made[g]
  BY <1>2, <1>3 DEF Before, FilesOn
<1>dir. DirOK'
  BY <1>1, <1>3, <1>4 DEF Before, DirOK
<1>leg. LegacyOK'
  BY <1>1 DEF Before, LegacyOK
<1>mar. MarkerOK'
  BY <1>1, <1>2, <1>3, <1>5, <1>6 DEF Before, MarkerOK, SealOn
<1>fil. FilesOn(p, n - 1)'
  BY <1>1, <1>2, <1>3, <1>4 DEF Before, FilesOn
<1>man. ManifestOn(p, n - 1)'
  BY <1>1, <1>2, <1>3, <1>4 DEF Before, ManifestOn
<1>sea. SealOn(p)'
  BY <1>1, <1>4 DEF Before, SealOn
<1>lgo. LegacyOn(p)'
  BY <1>1, <1>4 DEF Before, LegacyOn
<1>mrk. (0 < n - 1 /\ n - 1 < p.u) => ~marker'
  BY <1>1, <1>2, <1>3 DEF Before
<1> QED
  BY <1>dir, <1>leg, <1>mar, <1>fil, <1>man, <1>sea, <1>lgo, <1>mrk DEF DirStep, FileStep

\* All plans are timely.
LEMMA TimesAreTimely == \A p \in AllTimes : Timely(p)
  BY Literals DEF AllTimes

\* A file operation of a command at work.
LEMMA WorkStep ==
  ASSUME DirInv, stage = "work", Step
  PROVE  DirOK' /\ LegacyOK' /\ MarkerOK' /\ cut' = {} /\ stage' = "work" /\ WorkOK'
<1>1. PICK p \in AllTimes : WorkOn(p, Len(todo))
  BY DEF DirInv, WorkOK
<1>2. PICK n : n = Len(todo)
  OBVIOUS
<1>3. todo # <<>> /\ Covers(p, n, 0, todo)
  BY <1>1, <1>2 DEF Step, WorkOn
<1>4. /\ n \in Nat /\ n >= 1 /\ Fine(p, n, Head(todo)) /\ Covers(p, n - 1, 0, Tail(todo))
           /\ Len(Tail(todo)) = n - 1
  BY <1>3, CoversTail
<1>5. PICK k, f : Head(todo) = <<k, f>>
  <2>1. todo \in Seq(AllOps)
    BY <1>3 DEF Covers
  <2>2. Head(todo) \in AllOps
    BY <1>3, <2>1
  <2> QED
    BY <2>2 DEF AllOps
<1>6. /\ UNCHANGED <<cmd, stage, made, newMan, ends, returned>> /\ todo' = Tail(todo) /\ Do(k, f)
  BY <1>5 DEF Step
<1>7. cut' = {}
  <2>1. cut = {}
    BY DEF DirInv, CutOK, CutOn
  <2> QED
    BY <2>1 DEF Step
<1>8. Before(p, n, k, f)
  <2>1. Timely(p)
    BY TimesAreTimely
  <2>2. Fine(p, n, <<k, f>>)
    BY <1>4, <1>5
  <2> QED
    BY <1>1, <1>2, <1>4, <1>6, <1>7, <2>1, <2>2 DEF Before, DirInv, WorkOn
<1>9. DirStep /\ FileStep(p, n)
  <2>1. \/ k \in {"tear", "drop", "write", "rename"} /\ f \in Files
        \/ k = "remove" /\ f = "hybrid"
        \/ k \in {"unmark", "mark"}
    BY <1>8 DEF Before, Fine
  <2>2. f \in Files => f = "manifest" \/ f \in Data
    BY FilesFacts
  <2> QED
    BY <1>8, <2>1, <2>2, StageData, StageManifest, WriteData, WriteManifest, RenameData,
       RenameManifest,
       RemoveData, Unmark, Mark
<1>10. WorkOn(p, n - 1)'
  <2>1. MadeOn(p)'
    BY <1>6, <1>8 DEF Before, MadeOn
  <2>2. Covers(p, n - 1, 0, todo)' /\ n - 1 <= p.len
    <3>1. Covers(p, n - 1, 0, todo')
      BY <1>4, <1>6
    <3>2. n <= p.len /\ p.len \in Nat
      BY <1>1, <1>2, <1>8 DEF WorkOn, Before, Timely
    <3> QED
      BY <1>4, <3>1, <3>2 DEF Covers, Fine
  <2> QED
    BY <1>9, <2>1, <2>2 DEF FileStep, WorkOn
<1>11. WorkOK'
  BY <1>4, <1>6, <1>10 DEF WorkOK
<1> QED
  BY <1>6, <1>7, <1>9, <1>11 DEF DirStep

\* The operations of a recovery are ranked.
LEMMA RankFacts ==
  ASSUME NEW s, RecoverKinds(s), NEW i \in 1..Len(s)
  PROVE  /\ Rank(s[i]) \in 1..8
         /\ \/ s[i][1] = "remove" /\ s[i][2] = "hybrid"
            \/ s[i][1] = "mark" /\ s[i][2] = "COMPLETE"
            \/ s[i][1] = "rename" /\ s[i][2] \in Files
<1>1. \/ s[i][1] = "remove" /\ s[i][2] = "hybrid"
      \/ s[i][1] = "mark" /\ s[i][2] = "COMPLETE"
      \/ s[i][1] = "rename" /\ s[i][2] \in Files
  BY DEF RecoverKinds
<1>2. Rank(s[i]) \in 1..8
  BY <1>1 DEF Rank, PerFile, Files, Data
<1> QED
  BY <1>1, <1>2

\* What is left when the first operation is done.
LEMMA RecoverTail ==
  ASSUME NEW k, NEW f, todo \in Seq(AllOps), todo # <<>>, RecoverKinds(todo), Ordered(todo),
         todo' = Tail(todo),
         Head(todo) = <<k, f>>
  PROVE  /\ todo' \in Seq(AllOps) /\ RecoverKinds(todo') /\ Ordered(todo')
         /\ \A j, g : Pending(j, g)' <=> (Pending(j, g) /\ ~(j = k /\ g = f))
         /\ k = "mark" => todo' = <<>>
         /\ (k = "rename" /\ f = "filter") => ~Pending("rename", "manifest")
         /\ \/ k = "remove" /\ f = "hybrid"
            \/ k = "mark" /\ f = "COMPLETE"
            \/ k = "rename" /\ f \in Files
         /\ Pending(k, f)
<1> DEFINE n == Len(todo)
<1>1. /\ Head(todo) = todo[1] /\ n \in Nat /\ n >= 1 /\ todo' \in Seq(AllOps)
           /\ Len(todo') = n - 1
      /\ \A i \in 1..(n - 1) : todo'[i] = todo[i + 1]
  BY HeadTail
<1>2. todo[1][1] = k /\ todo[1][2] = f
  BY <1>1
<1>3. \A i \in 1..n : Rank(todo[i]) \in 1..8
  BY RankFacts
<1>4. ASSUME NEW i \in 2..n PROVE Rank(todo[1]) < Rank(todo[i])
             /\ ~(todo[i][1] = k /\ todo[i][2] = f)
  <2>1. Rank(todo[1]) < Rank(todo[i])
    BY <1>1 DEF Ordered
  <2>2. (todo[i][1] = k /\ todo[i][2] = f) => Rank(todo[i]) = Rank(todo[1])
    BY <1>2 DEF Rank
  <2> QED
    BY <1>1, <1>3, <2>1, <2>2
<1>5. RecoverKinds(todo')
  <2>1. \A i \in 1..(n - 1) : i + 1 \in 1..n
    BY <1>1
  <2> QED
    BY <1>1, <2>1 DEF RecoverKinds
<1>6. Ordered(todo')
  <2> SUFFICES ASSUME NEW i \in 1..Len(todo'), NEW j \in 1..Len(todo'), i < j
               PROVE  Rank(todo'[i]) < Rank(todo'[j])
    BY DEF Ordered
  <2>1. i + 1 \in 1..n /\ j + 1 \in 1..n /\ i + 1 < j + 1
    BY <1>1
  <2>2. Rank(todo[i + 1]) < Rank(todo[j + 1])
    BY <2>1 DEF Ordered
  <2> QED
    BY <1>1, <2>2
<1>7. ASSUME NEW j, NEW g
      PROVE  Pending(j, g)' <=> (Pending(j, g) /\ ~(j = k /\ g = f))
  <2>1. ASSUME NEW i \in 1..Len(todo'), todo'[i][1] = j, todo'[i][2] = g PROVE Pending(j, g)
               /\ ~(j = k /\ g = f)
    <3>1. i + 1 \in 2..n /\ i + 1 \in 1..n /\ todo[i + 1] = todo'[i]
      BY <1>1
    <3> QED
      BY <1>4, <2>1, <3>1 DEF Pending
  <2>2. ASSUME Pending(j, g), ~(j = k /\ g = f) PROVE \E i \in 1..Len(todo') : todo'[i][1] = j
               /\ todo'[i][2] = g
    <3>1. PICK i \in 1..n : todo[i][1] = j /\ todo[i][2] = g
      BY <2>2 DEF Pending
    <3>2. i # 1
      BY <1>2, <2>2, <3>1
    <3>3. i - 1 \in 1..Len(todo') /\ todo'[i - 1] = todo[i]
      BY <1>1, <3>1, <3>2
    <3> QED
      BY <3>1, <3>3
  <2> QED
    BY <2>1, <2>2 DEF Pending
<1>8. k = "mark" => todo' = <<>>
  <2>1. ASSUME k = "mark", n >= 2 PROVE FALSE
    <3>1. Rank(todo[1]) = 8
      BY <1>2, <2>1 DEF Rank
    <3>2. Rank(todo[1]) < Rank(todo[2]) /\ Rank(todo[2]) \in 1..8
      BY <1>1, <1>3, <1>4, <2>1
    <3> QED
      BY <3>1, <3>2
  <2>2. k = "mark" => Len(todo') = 0
    BY <1>1, <2>1
  <2> QED
    BY <1>1, <2>2
<1>9. (k = "rename" /\ f = "filter") => ~Pending("rename", "manifest")
  <2> SUFFICES ASSUME k = "rename", f = "filter", NEW i \in 1..n, todo[i][1] = "rename",
               todo[i][2] = "manifest"
               PROVE  FALSE
    BY DEF Pending
  <2>1. Rank(todo[1]) = 7 /\ Rank(todo[i]) = 6
    BY <1>2 DEF Rank, PerFile
  <2>2. i \in 2..n
    BY <1>1, <1>2
  <2> QED
    BY <1>4, <2>1, <2>2
<1>10. \/ k = "remove" /\ f = "hybrid"
       \/ k = "mark" /\ f = "COMPLETE"
       \/ k = "rename" /\ f \in Files
  <2>1. 1 \in 1..Len(todo)
    BY <1>1
  <2>2. \/ todo[1][1] = "remove" /\ todo[1][2] = "hybrid"
        \/ todo[1][1] = "mark" /\ todo[1][2] = "COMPLETE"
        \/ todo[1][1] = "rename" /\ todo[1][2] \in Files
    BY <2>1, RankFacts
  <2> QED
    BY <1>2, <2>2
<1>11. Pending(k, f)
  BY <1>1, <1>2 DEF Pending
<1> QED
  BY <1>1, <1>5, <1>6, <1>7, <1>8, <1>9, <1>10, <1>11

\* What a seal holds.
LEMMA SealFacts ==
  \A m \in Seals :
    /\ m.kind = "sealed" /\ (m.filtered => m.truth) /\ m.filtered \in BOOLEAN
         /\ m.truth \in BOOLEAN
    /\ m.digests["vectors"] = "v" /\ m.digests["payloads"] = "p1" /\ m.digests["filter"] = "f1"
    /\ m.digests["tests"] = (IF m.truth THEN "t1" ELSE "t0")
    /\ m.digests["hybrid"] = (IF m.filtered THEN "h1" ELSE "none")
<1>1. ASSUME NEW t, NEW f
      PROVE  /\ Image(t, f)["vectors"] = "v" /\ Image(t, f)["payloads"] = "p1"
                  /\ Image(t, f)["filter"] = "f1"
             /\ Image(t, f)["tests"] = (IF t THEN "t1" ELSE "t0")
                  /\ Image(t, f)["hybrid"] = (IF f THEN "h1" ELSE "none")
  BY DEF Image, Data
<1>2. ASSUME NEW t, NEW f
      PROVE  LET m == Sealed(t, f) IN m.kind = "sealed" /\ m.truth = t /\ m.filtered = f
             /\ m.digests = Image(t, f)
  BY DEF Sealed, Manifest
<1>3. ASSUME NEW m \in Seals PROVE \E t, f \in BOOLEAN : (f => t) /\ m = Sealed(t, f)
  BY DEF Seals
<1> QED
  BY <1>1, <1>2, <1>3

\* What a seal inventories.
LEMMA InventoryFacts ==
  \A m \in Seals :
    /\ Inventory(m) \subseteq Data
    /\ \A f \in Inventory(m) : m.digests[f] # "none"
    /\ \A f \in Data : f \in Inventory(m) <=> (f # "hybrid" \/ m.filtered)
  BY SealFacts DEF Inventory, Data

\* A step of the recovery, k its kind and f its file.
Recovering(m, k, f) ==
  /\ DirOK /\ LegacyOK /\ MarkerOK /\ m = ManifestArtifact /\ RecoverOn(m) /\ todo # <<>>
  /\ Head(todo) = <<k, f>> /\ todo' = Tail(todo) /\ Do(k, f) /\ stage = "recovering"
  /\ UNCHANGED <<cmd, stage, ends, returned>>
  /\ cut' \subseteq Data

\* What a step of the recovery keeps.
RecoverGoal(m) == DirOK' /\ LegacyOK' /\ MarkerOK' /\ m = ManifestArtifact' /\ RecoverOn(m)'

\* The recovery publishes a data file.
LEMMA RecoverRenameData ==
  ASSUME NEW m, NEW k, NEW f, Recovering(m, k, f), k = "rename", f \in Data
  PROVE  RecoverGoal(m)
<1> USE FilesFacts, ManifestFacts
<1>1. /\ todo' \in Seq(AllOps) /\ RecoverKinds(todo') /\ Ordered(todo')
      /\ \A j, g : Pending(j, g)' <=> (Pending(j, g) /\ ~(j = k /\ g = f))
      /\ f = "filter" => ~Pending("rename", "manifest")
      /\ Pending(k, f)
  BY RecoverTail DEF Recovering, RecoverOn
<1>2. pub' = [pub EXCEPT ![f] = part[f]] /\ part' = [part EXCEPT ![f] = "none"]
      /\ UNCHANGED <<man, manPart, marker>>
  BY DoIs DEF Recovering
<1>3. m \in Seals /\ ~marker /\ \A g \in Files : StillStaged(m, g) <=> Pending("rename", g)
  BY DEF Recovering, RecoverOn
<1>4. f \in Inventory(m) /\ part[f] # "none" /\ part[f] = m.digests[f]
  <2>1. StillStaged(m, f)
    BY <1>1, <1>3
  <2> QED
    BY <1>3, <2>1 DEF StillStaged, Recovering, RecoverOn, Artifact
<1>5. /\ DOMAIN part' = Data /\ part'[f] = "none" /\ (\A g \in Data \ {f} : part'[g] = part[g])
      /\ DOMAIN pub' = Data /\ pub'[f] = m.digests[f] /\ (\A g \in Data \ {f} : pub'[g] = pub[g])
  BY <1>2, <1>4 DEF Recovering, DirOK
<1>6. DirOK'
  <2>1. m.digests[f] \in Contents(f)
    BY <1>3, <1>4, SealFacts, InventoryFacts DEF Contents, Data
  <2> QED
    BY <1>2, <1>5, <2>1 DEF Recovering, DirOK
<1>7. m = ManifestArtifact'
  BY <1>2 DEF Recovering, ManifestArtifact
<1>8. LegacyOK'
  <2>1. f = "filter" => man \in Seals
    BY <1>1, <1>3 DEF StillStaged, Recovering, ManifestArtifact
  <2>2. f = "payloads" => pub'[f] = "p1"
    BY <1>3, <1>5, SealFacts
  <2>3. f = "tests" => pub'[f] # "none"
    BY <1>3, <1>5, SealFacts
  <2> QED
    BY <1>2, <1>5, <2>1, <2>2, <2>3 DEF Recovering, LegacyOK
<1>9. MarkerOK'
  BY <1>2, <1>3 DEF MarkerOK
<1>10. RecoverOn(m)'
  <2>1. \A g \in Inventory(m) : Artifact(g)' = m.digests[g]
    BY <1>3, <1>5, InventoryFacts DEF Recovering, RecoverOn, Artifact
  <2>2. Pending("mark", "COMPLETE")' /\ todo' # <<>>
    <3>1. Pending("mark", "COMPLETE")'
      BY <1>1 DEF Recovering, RecoverOn
    <3> QED
      BY <1>1, <3>1 DEF Pending
  <2>3. /\ ~m.filtered => pub'["hybrid"] = "none" \/ Pending("remove", "hybrid")'
        /\ m.filtered => ~Pending("remove", "hybrid")'
    <3>1. f = "hybrid" => m.filtered
      BY <1>3, <1>4, InventoryFacts
    <3>2. Pending("remove", "hybrid")' <=> Pending("remove", "hybrid")
      BY <1>1
    <3> QED
      BY <1>3, <1>5, <3>1, <3>2, SealFacts DEF Recovering, RecoverOn
  <2>4. ASSUME NEW g \in Files PROVE StillStaged(m, g)' <=> Pending("rename", g)'
    <3>1. Pending("rename", g)' <=> (Pending("rename", g) /\ g # f)
      BY <1>1
    <3>2. StillStaged(m, g)' <=> (StillStaged(m, g) /\ g # f)
      BY <1>2, <1>3, <1>5, InventoryFacts DEF StillStaged, Inventory
    <3> QED
      BY <1>3, <3>1, <3>2
  <2> QED
    BY <1>1, <1>2, <1>3, <2>1, <2>2, <2>3, <2>4 DEF RecoverOn, Inventory
<1> QED
  BY <1>6, <1>7, <1>8, <1>9, <1>10 DEF RecoverGoal

\* The recovery publishes the manifest.
LEMMA RecoverRenameManifest ==
  ASSUME NEW m, NEW k, NEW f, Recovering(m, k, f), k = "rename", f = "manifest"
  PROVE  RecoverGoal(m)
<1> USE FilesFacts, ManifestFacts
<1>1. /\ todo' \in Seq(AllOps) /\ RecoverKinds(todo') /\ Ordered(todo')
      /\ \A j, g : Pending(j, g)' <=> (Pending(j, g) /\ ~(j = k /\ g = f))
      /\ Pending(k, f)
  BY RecoverTail DEF Recovering, RecoverOn
<1>2. man' = manPart /\ manPart' = NoManifest /\ UNCHANGED <<pub, part, marker>>
  BY DoIs DEF Recovering
<1>3. m \in Seals /\ ~marker /\ \A g \in Files : StillStaged(m, g) <=> Pending("rename", g)
  BY DEF Recovering, RecoverOn
<1>4. manPart = m
  BY <1>1, <1>3 DEF StillStaged, Recovering, ManifestArtifact
<1>5. DirOK'
  BY <1>2, <1>3, <1>4 DEF Recovering, DirOK
<1>6. m = ManifestArtifact'
  BY <1>2, <1>4 DEF ManifestArtifact
<1>7. LegacyOK' /\ MarkerOK'
  BY <1>2, <1>3, <1>4, SealFacts DEF LegacyOK, MarkerOK
<1>8. RecoverOn(m)'
  <2>1. \A g \in Inventory(m) : Artifact(g)' = m.digests[g]
    BY <1>2, <1>3 DEF Recovering, RecoverOn, Artifact
  <2>2. Pending("mark", "COMPLETE")' /\ todo' # <<>>
    <3>1. Pending("mark", "COMPLETE")'
      BY <1>1 DEF Recovering, RecoverOn
    <3> QED
      BY <1>1, <3>1 DEF Pending
  <2>3. Pending("remove", "hybrid")' <=> Pending("remove", "hybrid")
    BY <1>1
  <2>4. ASSUME NEW g \in Files PROVE StillStaged(m, g)' <=> Pending("rename", g)'
    <3>1. Pending("rename", g)' <=> (Pending("rename", g) /\ g # f)
      BY <1>1
    <3>2. StillStaged(m, g)' <=> (StillStaged(m, g) /\ g # f)
      BY <1>2 DEF StillStaged, Inventory
    <3> QED
      BY <1>3, <3>1, <3>2
  <2> QED
    BY <1>1, <1>2, <1>3, <2>1, <2>2, <2>3, <2>4 DEF Recovering, RecoverOn, Inventory
<1> QED
  BY <1>5, <1>6, <1>7, <1>8 DEF RecoverGoal

\* The recovery removes hybrid queries that the seal does not have.
LEMMA RecoverRemove ==
  ASSUME NEW m, NEW k, NEW f, Recovering(m, k, f), k = "remove", f = "hybrid"
  PROVE  RecoverGoal(m)
<1> USE FilesFacts, ManifestFacts
<1>1. /\ todo' \in Seq(AllOps) /\ RecoverKinds(todo') /\ Ordered(todo')
      /\ \A j, g : Pending(j, g)' <=> (Pending(j, g) /\ ~(j = k /\ g = f))
      /\ Pending(k, f)
  BY RecoverTail DEF Recovering, RecoverOn
<1>2. pub' = [pub EXCEPT !["hybrid"] = "none"] /\ UNCHANGED <<part, man, manPart, marker>>
  BY DoIs DEF Recovering
<1>3. m \in Seals /\ ~marker /\ ~m.filtered /\ \A g \in Files : StillStaged(m, g)
      <=> Pending("rename", g)
  BY <1>1 DEF Recovering, RecoverOn
<1>4. DOMAIN pub' = Data /\ pub'["hybrid"] = "none"
      /\ (\A g \in Data \ {"hybrid"} : pub'[g] = pub[g])
  BY <1>2 DEF Recovering, DirOK
<1>5. DirOK'
  BY <1>2, <1>4 DEF Recovering, DirOK
<1>6. m = ManifestArtifact'
  BY <1>2 DEF Recovering, ManifestArtifact
<1>7. LegacyOK' /\ MarkerOK'
  BY <1>2, <1>3, <1>4 DEF Recovering, LegacyOK, MarkerOK
<1>8. RecoverOn(m)'
  <2>1. \A g \in Inventory(m) : Artifact(g)' = m.digests[g]
    BY <1>2, <1>3, <1>4, InventoryFacts DEF Recovering, RecoverOn, Artifact
  <2>2. Pending("mark", "COMPLETE")' /\ todo' # <<>>
    <3>1. Pending("mark", "COMPLETE")'
      BY <1>1 DEF Recovering, RecoverOn
    <3> QED
      BY <1>1, <3>1 DEF Pending
  <2>3. ASSUME NEW g \in Files PROVE StillStaged(m, g)' <=> Pending("rename", g)'
    <3>1. Pending("rename", g)' <=> Pending("rename", g)
      BY <1>1
    <3>2. StillStaged(m, g)' <=> StillStaged(m, g)
      BY <1>2 DEF StillStaged, Inventory
    <3> QED
      BY <1>3, <3>1, <3>2
  <2> QED
    BY <1>1, <1>2, <1>3, <1>4, <2>1, <2>2, <2>3 DEF RecoverOn, Inventory
<1> QED
  BY <1>5, <1>6, <1>7, <1>8 DEF RecoverGoal

\* The recovery writes COMPLETE: nothing is staged any more.
LEMMA RecoverMark ==
  ASSUME NEW m, NEW k, NEW f, Recovering(m, k, f), k = "mark", f = "COMPLETE"
  PROVE  RecoverGoal(m) /\ marker'
<1> USE FilesFacts, ManifestFacts
<1>1. /\ todo' = <<>>
      /\ \A j, g : Pending(j, g)' <=> (Pending(j, g) /\ ~(j = k /\ g = f))
  BY RecoverTail DEF Recovering, RecoverOn
<1>2. marker' = TRUE /\ UNCHANGED <<pub, part, man, manPart>>
  BY DoIs DEF Recovering
<1>3. m \in Seals /\ \A g \in Files : StillStaged(m, g) <=> Pending("rename", g)
  BY DEF Recovering, RecoverOn
<1>4. \A j, g : ~Pending(j, g)'
  <2>1. Len(todo') = 0
    BY <1>1
  <2> QED
    BY <2>1 DEF Pending
<1>5. (\A g \in Files : ~StillStaged(m, g)) /\ ~Pending("remove", "hybrid")
  BY <1>1, <1>3, <1>4
<1>6. man = m /\ \A g \in Inventory(m) : pub[g] = m.digests[g]
  <2>1. manPart.kind = "none" /\ \A g \in Inventory(m) : part[g] = "none"
    BY <1>3, <1>5, InventoryFacts DEF StillStaged
  <2> QED
    BY <2>1 DEF Recovering, RecoverOn, ManifestArtifact, Artifact
<1>7. ~m.filtered => pub["hybrid"] = "none"
  BY <1>5 DEF Recovering, RecoverOn
<1>8. DirOK' /\ LegacyOK' /\ m = ManifestArtifact'
  BY <1>2 DEF Recovering, DirOK, LegacyOK, ManifestArtifact
<1>9. MarkerOK'
  BY <1>2, <1>3, <1>6, <1>7, SealFacts, InventoryFacts DEF MarkerOK
<1>10. RecoverOn(m)'
  BY <1>1, <1>2, <1>3 DEF Recovering, RecoverOn, Inventory, Artifact
<1> QED
  BY <1>2, <1>8, <1>9, <1>10 DEF RecoverGoal

\* A file operation of a recovery.
LEMMA RecoverStep ==
  ASSUME DirInv, stage = "recovering", Step
  PROVE  DirOK' /\ LegacyOK' /\ MarkerOK' /\ CutOK' /\ stage' = "recovering" /\ RecoverOK'
<1>1. PICK m : m = ManifestArtifact
  OBVIOUS
<1>2. todo # <<>> /\ todo \in Seq(AllOps) /\ todo' = Tail(todo) /\ RecoverOn(m)
  BY <1>1 DEF Step, DirInv, RecoverOK, RecoverOn
<1>3. PICK k, f : Head(todo) = <<k, f>>
  <2>1. Head(todo) \in AllOps
    BY <1>2
  <2> QED
    BY <2>1 DEF AllOps
<1>4. UNCHANGED <<cmd, stage, ends, returned>> /\ Do(k, f) /\ cut' \subseteq Data
      /\ cut' = (IF marker' THEN {} ELSE cut)
  BY <1>3 DEF Step, DirInv, DirOK
<1>5. Recovering(m, k, f)
  BY <1>1, <1>2, <1>3, <1>4 DEF Recovering, DirInv
<1>6. RecoverGoal(m)
  <2>1. \/ k = "remove" /\ f = "hybrid"
        \/ k = "mark" /\ f = "COMPLETE"
        \/ k = "rename" /\ f \in Files
    BY <1>5, RecoverTail DEF Recovering, RecoverOn
  <2>2. f \in Files => f = "manifest" \/ f \in Data
    BY FilesFacts
  <2> QED
    BY <1>5, <2>1, <2>2, RecoverRenameData, RecoverRenameManifest, RecoverRemove, RecoverMark
<1>7. CutOK'
  <2> SUFFICES ASSUME cut' # {} PROVE CutOn(ManifestArtifact)'
    BY DEF CutOK
  <2>1. ~marker' /\ cut' = cut /\ cut # {}
    BY <1>4
  <2>2. CutOn(m)
    BY <1>1, <2>1 DEF DirInv, CutOK
  <2>3. CutOn(m)'
    <3>1. \A g \in Inventory(m) : Artifact(g)' = m.digests[g]
      BY <1>6 DEF RecoverGoal, RecoverOn, Inventory
    <3>2. \A g \in Inventory(m) : part'[g] = "none" => pub'[g] = m.digests[g]
      BY <3>1 DEF Artifact
    <3> QED
      BY <1>4, <2>1, <2>2, <3>1, <3>2 DEF CutOn, Inventory
  <2> QED
    BY <1>6, <2>3 DEF RecoverGoal
<1>8. RecoverOK'
  BY <1>6 DEF RecoverGoal, RecoverOK
<1> QED
  BY <1>4, <1>6, <1>7, <1>8 DEF RecoverGoal

\* A plan of a recovery up to the rank r.
Queue(s, r) ==
  /\ s \in Seq(AllOps) /\ RecoverKinds(s) /\ Ordered(s)
  /\ \A i \in 1..Len(s) : Rank(s[i]) <= r

\* The plan s has the operation <<k, f>>.
Includes(s, k, f) == \E i \in 1..Len(s) : s[i][1] = k /\ s[i][2] = f

\* One more operation, or none, at the back of a plan.
Grows(s, r, k, f, x, q) ==
  /\ r \in Nat /\ Queue(s, r) /\ Op(k, f) \in AllOps /\ Rank(Op(k, f)) = r + 1
  /\ \/ k = "remove" /\ f = "hybrid"
     \/ k = "mark" /\ f = "COMPLETE"
     \/ k = "rename" /\ f \in Files
  /\ x = <<>> \/ x = <<Op(k, f)>>
  /\ q = s \o x

\* The longer plan is in order and has the operation where it was added.
LEMMA AddBack ==
  ASSUME NEW s, NEW r, NEW k, NEW f, NEW x, NEW q, Grows(s, r, k, f, x, q)
  PROVE  /\ Queue(q, r + 1)
         /\ \A j, g : Includes(q, j, g) <=> (Includes(s, j, g) \/ (x # <<>> /\ j = k /\ g = f))
<1>0. /\ r \in Nat /\ Queue(s, r) /\ Op(k, f) \in AllOps /\ Rank(Op(k, f)) = r + 1
      /\ \/ k = "remove" /\ f = "hybrid"
         \/ k = "mark" /\ f = "COMPLETE"
         \/ k = "rename" /\ f \in Files
      /\ x = <<>> \/ x = <<Op(k, f)>>
      /\ q = s \o x
  BY DEF Grows
<1> USE <1>0
<1>1. s \in Seq(AllOps) /\ Len(s) \in Nat
  BY DEF Queue
<1>2. \A i \in 1..Len(s) : Rank(s[i]) \in 1..8 /\ Rank(s[i]) <= r
  BY RankFacts DEF Queue
<1>3. CASE x = <<>>
  <2>1. q = s
    <3>1. s \o <<>> = s
      BY <1>1
    <3> QED
      BY <1>3, <3>1
  <2>2. \A i \in 1..Len(s) : Rank(s[i]) <= r + 1
    BY <1>2
  <2> QED
    BY <1>3, <2>1, <2>2 DEF Queue
<1>4. CASE x = <<Op(k, f)>>
  <2> DEFINE n == Len(s)
  <2>1. q = s \o <<Op(k, f)>> /\ x # <<>>
    BY <1>4
  <2>2. /\ q \in Seq(AllOps) /\ Len(q) = n + 1 /\ q[n + 1] = Op(k, f)
        /\ \A i \in 1..n : q[i] = s[i]
    BY <1>1, <2>1
  <2>3. q[n + 1][1] = k /\ q[n + 1][2] = f
    <3>1. Op(k, f)[1] = k /\ Op(k, f)[2] = f
      BY DEF Op
    <3> QED
      BY <2>2, <3>1
  <2>4. \A i \in 1..Len(q) : i = n + 1 \/ i \in 1..n
    BY <1>1, <2>2
  <2>5. RecoverKinds(q)
    <3> SUFFICES ASSUME NEW i \in 1..Len(q)
                 PROVE  \/ q[i][1] = "remove" /\ q[i][2] = "hybrid"
                        \/ q[i][1] = "mark" /\ q[i][2] = "COMPLETE"
                        \/ q[i][1] = "rename" /\ q[i][2] \in Files
      BY DEF RecoverKinds
    <3>1. CASE i = n + 1
      BY <2>3, <3>1
    <3>2. CASE i \in 1..n
      BY <2>2, <3>2, RankFacts DEF Queue
    <3> QED
      BY <2>4, <3>1, <3>2
  <2>6. ASSUME NEW i \in 1..Len(q) PROVE Rank(q[i]) <= r + 1
    <3>1. CASE i = n + 1
      <4>1. Rank(q[i]) = r + 1
        BY <2>2, <3>1
      <4> QED
        BY <4>1
    <3>2. CASE i \in 1..n
      <4>1. q[i] = s[i]
        BY <2>2, <3>2
      <4>2. Rank(q[i]) \in 1..8 /\ Rank(q[i]) <= r
        BY <1>2, <3>2, <4>1
      <4> QED
        BY <4>2
    <3> QED
      BY <2>4, <3>1, <3>2
  <2>7. Ordered(q)
    <3> SUFFICES ASSUME NEW i \in 1..Len(q), NEW j \in 1..Len(q), i < j
          PROVE Rank(q[i]) < Rank(q[j])
      BY DEF Ordered
    <3>1. i \in 1..n
      BY <1>1, <2>2
    <3>2. CASE j \in 1..n
      BY <2>2, <3>1, <3>2 DEF Queue, Ordered
    <3>3. CASE j = n + 1
      <4>1. q[i] = s[i]
        BY <2>2, <3>1
      <4>2. Rank(q[i]) <= r /\ Rank(q[i]) \in 1..8
        BY <1>2, <3>1, <4>1
      <4>3. Rank(q[j]) = r + 1
        BY <2>2, <3>3
      <4> QED
        BY <4>2, <4>3
    <3> QED
      BY <2>4, <3>2, <3>3
  <2>8. ASSUME NEW j, NEW g PROVE Includes(q, j, g) <=> (Includes(s, j, g) \/ (j = k /\ g = f))
    <3>1. ASSUME Includes(q, j, g) PROVE Includes(s, j, g) \/ (j = k /\ g = f)
      BY <2>2, <2>3, <2>4, <3>1 DEF Includes
    <3>2. ASSUME Includes(s, j, g) PROVE Includes(q, j, g)
      <4>1. PICK i \in 1..n : s[i][1] = j /\ s[i][2] = g
        BY <3>2 DEF Includes
      <4>2. i \in 1..Len(q)
        BY <1>1, <2>2
      <4> QED
        BY <2>2, <4>1, <4>2 DEF Includes
    <3>3. ASSUME j = k, g = f PROVE Includes(q, j, g)
      <4>1. n + 1 \in 1..Len(q)
        BY <1>1, <2>2
      <4> QED
        BY <2>3, <3>3, <4>1 DEF Includes
    <3> QED
      BY <3>1, <3>2, <3>3
  <2> QED
    BY <2>1, <2>2, <2>5, <2>6, <2>7, <2>8 DEF Queue
<1> QED
  BY <1>3, <1>4

\* The plan of a recovery: in order, exactly what is missing, the marker last.
LEMMA RecoverPlan ==
  ASSUME NEW m, NEW q, q = RecoverOps(m)
  PROVE  /\ Queue(q, 8) /\ q # <<>>
         /\ Includes(q, "mark", "COMPLETE") /\ (Includes(q, "remove", "hybrid") <=> ~m.filtered)
         /\ \A f \in Files : Includes(q, "rename", f) <=> StillStaged(m, f)
<1> DEFINE x1 == If(~m.filtered, Op("remove", "hybrid"))
           x8 == <<Op("mark", "COMPLETE")>>
           s1 == x1
           s2 == s1 \o Rest(m, "vectors")
           s3 == s2 \o Rest(m, "payloads")
           s4 == s3 \o Rest(m, "tests")
           s5 == s4 \o Rest(m, "hybrid")
           s6 == s5 \o Rest(m, "manifest")
           s7 == s6 \o Rest(m, "filter")
           s8 == s7 \o x8
<1>1. q = s8
  BY DEF RecoverOps
<1>2. /\ Rank(Op("remove", "hybrid")) = 0 + 1 /\ Rank(Op("rename", "vectors")) = 1 + 1
      /\ Rank(Op("rename", "payloads")) = 2 + 1 /\ Rank(Op("rename", "tests")) = 3 + 1
      /\ Rank(Op("rename", "hybrid")) = 4 + 1 /\ Rank(Op("rename", "manifest")) = 5 + 1
      /\ Rank(Op("rename", "filter")) = 6 + 1 /\ Rank(Op("mark", "COMPLETE")) = 7 + 1
  BY DEF Rank, PerFile, Op
<1>3. ASSUME NEW f PROVE /\ Rest(m, f) = <<>> \/ Rest(m, f) = <<Op("rename", f)>>
                         /\ Rest(m, f) # <<>> <=> StillStaged(m, f)
  BY DEF Rest, If
<1>4. /\ x1 = <<>> \/ x1 = <<Op("remove", "hybrid")>>
      /\ x1 # <<>> <=> ~m.filtered
      /\ x8 # <<>>
  BY DEF If
<1>10. Queue(<<>>, 0) /\ \A j, g : ~Includes(<<>>, j, g)
  BY DEF Queue, Includes, RecoverKinds, Ordered
<1> HIDE DEF x1, x8
<1>11. Queue(s1, 1) /\ \A j, g : Includes(s1, j, g)
       <=> (x1 # <<>> /\ j = "remove" /\ g = "hybrid")
  <2>1. s1 = <<>> \o x1
    <3>1. CASE x1 = <<>>
      BY <3>1
    <3>2. CASE x1 = <<Op("remove", "hybrid")>>
      BY <3>2
    <3> QED
      BY <1>4, <3>1, <3>2
  <2>2. /\ Queue(s1, 0 + 1)
        /\ \A j, g : Includes(s1, j, g)
             <=> (Includes(<<>>, j, g) \/ (x1 # <<>> /\ j = "remove" /\ g = "hybrid"))
    <3> HIDE DEF s1
    <3>1. Grows(<<>>, 0, "remove", "hybrid", x1, s1)
      BY <1>2, <1>4, <1>10, <2>1, OpsAreOps DEF Grows
    <3> QED
      BY <3>1, AddBack
  <2> HIDE DEF s1
  <2> QED
    BY <1>10, <2>2
<1> HIDE DEF s1
<1>12. /\ Queue(s2, 2)
       /\ \A j, g : Includes(s2, j, g)
            <=> (Includes(s1, j, g)
            \/ (StillStaged(m, "vectors") /\ j = "rename" /\ g = "vectors"))
  <2>1. PICK x : x = Rest(m, "vectors")
    OBVIOUS
  <2>2. s2 = s1 \o x /\ (x = <<>> \/ x = <<Op("rename", "vectors")>>)
        /\ (x # <<>> <=> StillStaged(m, "vectors"))
    BY <1>3, <2>1
  <2> HIDE DEF s2
  <2>3. /\ Queue(s2, 1 + 1)
        /\ \A j, g : Includes(s2, j, g)
             <=> (Includes(s1, j, g) \/ (x # <<>> /\ j = "rename" /\ g = "vectors"))
    <3>1. Grows(s1, 1, "rename", "vectors", x, s2)
      BY <1>2, <1>11, <2>2, OpsAreOps DEF Grows, Files, Data
    <3> QED
      BY <3>1, AddBack
  <2> QED
    BY <2>2, <2>3
<1> HIDE DEF s2
<1>13. /\ Queue(s3, 3)
       /\ \A j, g : Includes(s3, j, g)
            <=> (Includes(s2, j, g)
            \/ (StillStaged(m, "payloads") /\ j = "rename" /\ g = "payloads"))
  <2>1. PICK x : x = Rest(m, "payloads")
    OBVIOUS
  <2>2. s3 = s2 \o x /\ (x = <<>> \/ x = <<Op("rename", "payloads")>>)
        /\ (x # <<>> <=> StillStaged(m, "payloads"))
    BY <1>3, <2>1
  <2> HIDE DEF s3
  <2>3. /\ Queue(s3, 2 + 1)
        /\ \A j, g : Includes(s3, j, g)
             <=> (Includes(s2, j, g) \/ (x # <<>> /\ j = "rename" /\ g = "payloads"))
    <3>1. Grows(s2, 2, "rename", "payloads", x, s3)
      BY <1>2, <1>12, <2>2, OpsAreOps DEF Grows, Files, Data
    <3> QED
      BY <3>1, AddBack
  <2> QED
    BY <2>2, <2>3
<1> HIDE DEF s3
<1>14. /\ Queue(s4, 4)
       /\ \A j, g : Includes(s4, j, g)
            <=> (Includes(s3, j, g) \/ (StillStaged(m, "tests") /\ j = "rename" /\ g = "tests"))
  <2>1. PICK x : x = Rest(m, "tests")
    OBVIOUS
  <2>2. s4 = s3 \o x /\ (x = <<>> \/ x = <<Op("rename", "tests")>>)
        /\ (x # <<>> <=> StillStaged(m, "tests"))
    BY <1>3, <2>1
  <2> HIDE DEF s4
  <2>3. /\ Queue(s4, 3 + 1)
        /\ \A j, g : Includes(s4, j, g)
             <=> (Includes(s3, j, g) \/ (x # <<>> /\ j = "rename" /\ g = "tests"))
    <3>1. Grows(s3, 3, "rename", "tests", x, s4)
      BY <1>2, <1>13, <2>2, OpsAreOps DEF Grows, Files, Data
    <3> QED
      BY <3>1, AddBack
  <2> QED
    BY <2>2, <2>3
<1> HIDE DEF s4
<1>15. /\ Queue(s5, 5)
       /\ \A j, g : Includes(s5, j, g)
            <=> (Includes(s4, j, g) \/ (StillStaged(m, "hybrid") /\ j = "rename" /\ g = "hybrid"))
  <2>1. PICK x : x = Rest(m, "hybrid")
    OBVIOUS
  <2>2. s5 = s4 \o x /\ (x = <<>> \/ x = <<Op("rename", "hybrid")>>)
        /\ (x # <<>> <=> StillStaged(m, "hybrid"))
    BY <1>3, <2>1
  <2> HIDE DEF s5
  <2>3. /\ Queue(s5, 4 + 1)
        /\ \A j, g : Includes(s5, j, g)
             <=> (Includes(s4, j, g) \/ (x # <<>> /\ j = "rename" /\ g = "hybrid"))
    <3>1. Grows(s4, 4, "rename", "hybrid", x, s5)
      BY <1>2, <1>14, <2>2, OpsAreOps DEF Grows, Files, Data
    <3> QED
      BY <3>1, AddBack
  <2> QED
    BY <2>2, <2>3
<1> HIDE DEF s5
<1>16. /\ Queue(s6, 6)
       /\ \A j, g : Includes(s6, j, g)
            <=> (Includes(s5, j, g)
            \/ (StillStaged(m, "manifest") /\ j = "rename" /\ g = "manifest"))
  <2>1. PICK x : x = Rest(m, "manifest")
    OBVIOUS
  <2>2. s6 = s5 \o x /\ (x = <<>> \/ x = <<Op("rename", "manifest")>>)
        /\ (x # <<>> <=> StillStaged(m, "manifest"))
    BY <1>3, <2>1
  <2> HIDE DEF s6
  <2>3. /\ Queue(s6, 5 + 1)
        /\ \A j, g : Includes(s6, j, g)
             <=> (Includes(s5, j, g) \/ (x # <<>> /\ j = "rename" /\ g = "manifest"))
    <3>1. Grows(s5, 5, "rename", "manifest", x, s6)
      BY <1>2, <1>15, <2>2, OpsAreOps DEF Grows, Files, Data
    <3> QED
      BY <3>1, AddBack
  <2> QED
    BY <2>2, <2>3
<1> HIDE DEF s6
<1>17. /\ Queue(s7, 7)
       /\ \A j, g : Includes(s7, j, g)
            <=> (Includes(s6, j, g) \/ (StillStaged(m, "filter") /\ j = "rename" /\ g = "filter"))
  <2>1. PICK x : x = Rest(m, "filter")
    OBVIOUS
  <2>2. s7 = s6 \o x /\ (x = <<>> \/ x = <<Op("rename", "filter")>>)
        /\ (x # <<>> <=> StillStaged(m, "filter"))
    BY <1>3, <2>1
  <2> HIDE DEF s7
  <2>3. /\ Queue(s7, 6 + 1)
        /\ \A j, g : Includes(s7, j, g)
             <=> (Includes(s6, j, g) \/ (x # <<>> /\ j = "rename" /\ g = "filter"))
    <3>1. Grows(s6, 6, "rename", "filter", x, s7)
      BY <1>2, <1>16, <2>2, OpsAreOps DEF Grows, Files, Data
    <3> QED
      BY <3>1, AddBack
  <2> QED
    BY <2>2, <2>3
<1> HIDE DEF s7
<1>19. Queue(q, 7 + 1) /\ \A j, g : Includes(q, j, g)
       <=> (Includes(s7, j, g) \/ (j = "mark" /\ g = "COMPLETE"))
  <2>1. q = s7 \o x8 /\ x8 = <<Op("mark", "COMPLETE")>>
    BY <1>1 DEF x8
  <2>2. Grows(s7, 7, "mark", "COMPLETE", x8, q)
    BY <1>2, <1>17, <2>1, OpsAreOps DEF Grows
  <2> QED
    BY <1>4, <2>2, AddBack
<1>20. Includes(q, "mark", "COMPLETE") /\ (Includes(q, "remove", "hybrid") <=> ~m.filtered)
  BY <1>4, <1>11, <1>12, <1>13, <1>14, <1>15, <1>16, <1>17, <1>19
<1>21. ASSUME NEW f \in Files PROVE Includes(q, "rename", f) <=> StillStaged(m, f)
  <2>1. f \in {"vectors", "payloads", "tests", "hybrid", "manifest", "filter"}
    BY DEF Files, Data
  <2> QED
    BY <2>1, <1>11, <1>12, <1>13, <1>14, <1>15, <1>16, <1>17, <1>19
<1>22. q # <<>>
  BY <1>10, <1>20
<1> QED
  BY <1>19, <1>20, <1>21, <1>22

\* A step that leaves the directory alone and does not go to work.
LEMMA Quiet ==
  ASSUME DirInv, UNCHANGED disk, cmd' \in Commands \cup {"idle"},
         stage' \in {"idle", "recover", "decide"},
         returned' \in {"none", "ok", "err", "died"}, ends' \in {"none", "ok", "err"},
         cut' \subseteq Data, CutOK'
  PROVE  DirInv'
<1>1. DirOK' /\ LegacyOK' /\ MarkerOK'
  BY DEF DirInv, DirOK, LegacyOK, MarkerOK, disk
<1> QED
  BY <1>1 DEF DirInv

\* A step that leaves the directory and the history alone.
LEMMA CutKept ==
  ASSUME CutOK, UNCHANGED disk, cut' = cut, stage' \in {"idle", "recover", "recovering"}
  PROVE  CutOK'
<1>1. ManifestArtifact' = ManifestArtifact
  BY DEF ManifestArtifact, disk
<1>2. PICK m : m = ManifestArtifact
  OBVIOUS
<1>3. CutOn(m) => CutOn(m)'
  BY DEF CutOn, Artifact, Inventory, disk
<1> QED
  BY <1>1, <1>2, <1>3 DEF CutOK

\* A command returns.
LEMMA Returns ==
  ASSUME DirInv, NEW how \in {"ok", "err", "died"}, Return(how), UNCHANGED <<disk, cut>>
  PROVE  DirInv'
<1>1. CutOK'
  BY CutKept DEF DirInv, Return
<1> QED
  BY <1>1, Quiet DEF DirInv, DirOK, Return

\* A command starts.
LEMMA StartKeeps == ASSUME DirInv, NEW c \in Commands, Start(c) PROVE DirInv'
<1>1. CASE Forced(c)
  BY <1>1, Quiet DEF DirInv, DirOK, Start, CutOK
<1>2. CASE ~Forced(c)
  <2>1. CutOK'
    BY <1>2, CutKept DEF DirInv, Start
  <2> QED
    BY <1>2, <2>1, Quiet DEF DirInv, DirOK, Start
<1> QED
  BY <1>1, <1>2

\* What an inspection of the staged view tells.
LEMMA StagedFacts ==
  ASSUME DirOK
  PROVE  /\ InspectStaged = "sealed" =>
              /\ ManifestArtifact \in Seals
              /\ \A f \in Inventory(ManifestArtifact) : Artifact(f) = ManifestArtifact.digests[f]
         /\ ManifestArtifact \in Seals => InspectStaged # "legacy"
<1>1. ManifestArtifact \in {NoManifest, TornManifest, Legacy} \cup Seals
  BY DEF DirOK, ManifestArtifact
<1>2. PICK m : m = ManifestArtifact
  OBVIOUS
<1>3. CASE m \notin Seals
  <2>1. m.kind \in {"none", "legacy", "torn"}
    BY <1>1, <1>2, <1>3, ManifestFacts
  <2>2. InspectStaged # "sealed"
    BY <1>2, <2>1 DEF InspectStaged
  <2> QED
    BY <1>2, <1>3, <2>2
<1>4. CASE m \in Seals
  <2>1. m.kind = "sealed" /\ Inventory(m) \subseteq Data
    BY <1>4, ManifestFacts, InventoryFacts
  <2>2. InspectStaged = IF Matches(m, [f \in Data |-> Artifact(f)]) THEN "sealed" ELSE "err"
    BY <1>2, <2>1 DEF InspectStaged
  <2>3. Matches(m, [f \in Data |-> Artifact(f)])
        => \A f \in Inventory(m) : Artifact(f) = m.digests[f]
    BY <2>1 DEF Matches
  <2> QED
    BY <1>2, <1>4, <2>2, <2>3
<1> QED
  BY <1>3, <1>4

\* The recovery is skipped, refused or planned.
LEMMA RecoverKeeps == ASSUME DirInv, Recover PROVE DirInv'
<1>0. UNCHANGED disk /\ cut' = cut
  BY DEF Recover
<1>1. PICK m : m = ManifestArtifact
  OBVIOUS
<1>2. CASE /\ marker \/ m.kind = "none" \/ InspectStaged = "legacy"
           /\ stage' = "decide"
           /\ UNCHANGED <<cmd, todo, returned, made, newMan, ends>>
  <2>1. cut' = {}
    <3>1. CutOn(m) => FALSE
      BY <1>1, <1>2, StagedFacts, ManifestFacts DEF CutOn, DirInv
    <3> QED
      BY <1>0, <1>1, <3>1 DEF DirInv, CutOK
  <2> QED
    BY <1>0, <1>2, <2>1, Quiet DEF DirInv, DirOK, CutOK
<1>3. CASE Return("err")
  BY <1>0, <1>3, Returns
<1>4. CASE /\ ~marker /\ m.kind # "none" /\ InspectStaged = "sealed"
           /\ todo' = RecoverOps(m)
           /\ stage' = "recovering"
           /\ UNCHANGED <<cmd, returned, made, newMan, ends>>
  <2>1. m \in Seals /\ \A f \in Inventory(m) : Artifact(f) = m.digests[f]
    BY <1>1, <1>4, StagedFacts DEF DirInv
  <2>2. /\ Queue(todo', 8) /\ todo' # <<>>
        /\ Includes(todo', "mark", "COMPLETE")
             /\ (Includes(todo', "remove", "hybrid") <=> ~m.filtered)
        /\ \A f \in Files : Includes(todo', "rename", f) <=> StillStaged(m, f)
    BY <1>4, RecoverPlan
  <2>3. \A k, f : Includes(todo', k, f) <=> Pending(k, f)'
    BY DEF Includes, Pending
  <2>4. m = ManifestArtifact' /\ m.filtered \in BOOLEAN
    BY <1>0, <1>1, <2>1, SealFacts DEF ManifestArtifact, disk
  <2>5. \A f \in Files : StillStaged(m, f)' <=> StillStaged(m, f)
    BY <1>0 DEF StillStaged, Inventory, disk
  <2>6. RecoverOn(m)'
    BY <1>0, <1>4, <2>1, <2>2, <2>3, <2>4, <2>5 DEF RecoverOn, Queue, Artifact, Inventory, disk
  <2>7. RecoverOK'
    BY <2>4, <2>6 DEF RecoverOK
  <2>8. CutOK'
    BY <1>0, <1>4, CutKept DEF DirInv
  <2>9. DirOK' /\ LegacyOK' /\ MarkerOK'
    BY <1>0, <1>4 DEF DirInv, DirOK, LegacyOK, MarkerOK, disk
  <2> QED
    BY <1>4, <2>7, <2>8, <2>9 DEF DirInv
<1> QED
  BY <1>1, <1>2, <1>3, <1>4 DEF Recover

\* The recovery is complete.
LEMMA RecoveredKeeps == ASSUME DirInv, Recovered PROVE DirInv'
<1>1. marker
  BY DEF Recovered, DirInv, RecoverOK, RecoverOn
<1>2. cut' = {} /\ UNCHANGED <<disk, cut>>
  BY <1>1 DEF Recovered, DirInv, CutOK, CutOn
<1>3. CASE Return("ok")
  BY <1>2, <1>3, Returns
<1>4. CASE stage' = "decide" /\ UNCHANGED <<cmd, todo, returned, made, newMan, ends>>
  BY <1>2, <1>4, Quiet DEF DirInv, DirOK, CutOK
<1> QED
  BY <1>3, <1>4 DEF Recovered

\* A command completes.
LEMMA CompleteKeeps == ASSUME DirInv, Complete PROVE DirInv'
<1>1. ends \in {"ok", "err"}
  BY DEF DirInv, Complete, WorkOK, WorkOn, MadeOn
<1> QED
  BY <1>1, Returns DEF Complete

\* What a command promises when it goes to work along the plan p.
Promise(p, contents, m, ops, how) ==
  /\ p \in AllTimes /\ Covers(p, p.len, 0, ops)
  /\ DOMAIN contents = Data
  /\ \A f \in Data : contents[f] \in Contents(f) \cup {"none"}
       /\ (contents[f] # "none" <=> p.w[f] > 0)
  /\ m \in {NoManifest, Legacy} \cup Seals
  /\ how \in {"ok", "err"} /\ (how = "ok" <=> p.u > 0)
  /\ p.u > 0 /\ m.kind = "sealed" =>
       \A f \in Data : IF p.r[f] > 0 THEN contents[f] = m.digests[f] ELSE pub[f] = m.digests[f]
  /\ p.u > 0 /\ m.kind # "sealed" =>
       /\ man.kind # "sealed"
       /\ p.r["tests"] = 0 /\ pub["tests"] # "none"
       /\ p.r["payloads"] > 0 => contents["payloads"] = "p1"
       /\ p.r["filter"] > 0 => p.r["filter"] < p.r["payloads"]

\* A command that keeps its promise may go to work.
LEMMA Works ==
  ASSUME NEW p, NEW contents, NEW m, NEW ops, NEW how, Promise(p, contents, m, ops, how),
         DirInv, stage = "decide", Work(contents, m, ops, how)
  PROVE  DirInv'
<1>1. /\ made' = contents /\ newMan' = m /\ todo' = ops /\ ends' = how /\ stage' = "work"
      /\ UNCHANGED <<disk, cmd, returned, cut>> /\ UNCHANGED <<pub, part, man, manPart, marker>>
  BY DEF Work, disk
<1>2. cut' = {}
  BY <1>1 DEF DirInv, CutOK, CutOn
<1>3. DirOK' /\ LegacyOK' /\ MarkerOK' /\ CutOK'
  BY <1>1, <1>2 DEF DirInv, DirOK, LegacyOK, MarkerOK, CutOK, Promise
<1>4. p \in AllTimes /\ Timely(p) /\ Covers(p, p.len, 0, ops) /\ Len(ops) = p.len
  <2>1. p \in AllTimes /\ Timely(p) /\ Covers(p, p.len, 0, ops)
    BY TimesAreTimely DEF Promise
  <2> QED
    BY <2>1 DEF Covers
<1>5. p.len \in Nat /\ p.u <= p.len /\ \A f \in Files : p.w[f] <= p.len /\ p.r[f] <= p.len
  BY <1>4 DEF Timely
<1>6. MadeOn(p)' /\ SealOn(p)' /\ LegacyOn(p)'
  BY <1>1 DEF Promise, MadeOn, SealOn, LegacyOn
<1>7. FilesOn(p, p.len)' /\ ManifestOn(p, p.len)'
  <2>1. p.u \in Nat /\ (\A f \in Files : p.w[f] \in Nat /\ p.r[f] \in Nat)
    BY <1>4 DEF Timely
  <2> QED
    BY <1>5, <2>1, FilesFacts DEF FilesOn, ManifestOn
<1>8. Covers(p, p.len, 0, todo)' /\ ~(p.len < p.u)
  <2>1. p.u \in Nat
    BY <1>4 DEF Timely
  <2> QED
    BY <1>1, <1>4, <1>5, <2>1 DEF Covers, Fine
<1>9. WorkOn(p, p.len)'
  BY <1>5, <1>6, <1>7, <1>8 DEF WorkOn
<1>10. WorkOK'
  BY <1>1, <1>4, <1>9 DEF WorkOK
<1> QED
  BY <1>1, <1>3, <1>10 DEF DirInv

\* A command refuses.
LEMMA Refuses ==
  ASSUME DirInv, NEW how \in {"ok", "err"}, Refuse(how) PROVE DirInv'
  BY Returns DEF Refuse

\* seal makes one of the known manifests when the view is the image it declares.
LEMMA SealIs ==
  ASSUME NEW contents, NEW t \in BOOLEAN, NEW h \in BOOLEAN, h => t,
         \A f \in Data : (IF contents[f] # "none" THEN contents[f] ELSE pub[f]) = Image(t, h)[f]
         \/ (f = "hybrid" /\ ~h)
  PROVE  Seal(contents, t, h) = Sealed(t, h) /\ Sealed(t, h) \in Seals
<1> DEFINE m == Manifest("sealed", t, h, NoDigests)
           d == [f \in Data |-> IF f \notin Inventory(m) THEN "none"
                                ELSE IF contents[f] # "none" THEN contents[f] ELSE pub[f]]
<1>1. m.filtered = h
  BY DEF Manifest
<1>2. ASSUME NEW f \in Data PROVE d[f] = Image(t, h)[f]
  <2>1. f \in Inventory(m) <=> (h \/ f # "hybrid")
    BY <1>1 DEF Inventory
  <2>2. ~h => Image(t, h)["hybrid"] = "none"
    BY DEF Image, Data
  <2>3. d[f] = IF f \notin Inventory(m) THEN "none"
               ELSE IF contents[f] # "none" THEN contents[f] ELSE pub[f]
    OBVIOUS
  <2> HIDE DEF d, m
  <2> QED
    BY <2>1, <2>2, <2>3
<1>3. d = Image(t, h)
  <2>1. d = [f \in Data |-> d[f]] /\ Image(t, h) = [f \in Data |-> Image(t, h)[f]]
    BY DEF Image
  <2> HIDE DEF d
  <2> QED
    BY <1>2, <2>1
<1>4. Seal(contents, t, h) = [m EXCEPT !.digests = d]
  BY DEF Seal
<1>5. [m EXCEPT !.digests = d] = Manifest("sealed", t, h, d)
  BY DEF Manifest
<1> HIDE DEF d, m
<1>6. Seal(contents, t, h) = Sealed(t, h)
  BY <1>3, <1>4, <1>5 DEF Sealed
<1>7. Sealed(t, h) \in Seals
  BY DEF Seals
<1> QED
  BY <1>6, <1>7

\* The published directory behind a manifest that passes inspection.
LEMMA SealedFacts ==
  ASSUME DirInv
  PROVE  /\ Inspect = "sealed"
              => (man \in Seals /\ marker /\ \A f \in Data : pub[f] = man.digests[f])
         /\ man.kind = "sealed" => man \in Seals
         /\ man \notin Seals => man \in {NoManifest, Legacy}
<1>1. man \in {NoManifest, Legacy} \cup Seals
  BY DEF DirInv, DirOK
<1>2. man.kind = "sealed" => man \in Seals
  BY <1>1, ManifestFacts
<1>3. Inspect = "sealed" => (man.kind = "sealed" /\ marker)
  <2>1. man.kind \in {"none", "legacy", "sealed"}
    BY <1>1, ManifestFacts
  <2> QED
    BY <2>1 DEF Inspect
<1> QED
  BY <1>1, <1>2, <1>3 DEF DirInv, MarkerOK

\* The data files.
LEMMA DataIs == Data = {"vectors", "payloads", "filter", "tests", "hybrid"}
  BY DEF Data

\* What a build stages.
BuildContents(full) ==
  [vectors |-> "v", payloads |-> "p1", filter |-> "f1",
   tests |-> IF full THEN "t1" ELSE "t0", hybrid |-> IF full THEN "h1" ELSE "none"]

\* A build keeps its promise.
LEMMA BuildPromise ==
  ASSUME NEW full \in BOOLEAN
  PROVE  Promise(IF full THEN FullTimes ELSE TextTimes, BuildContents(full),
                 Seal(BuildContents(full), full, full), BuildOps(full), "ok")
<1> DEFINE c == BuildContents(full)
           p == IF full THEN FullTimes ELSE TextTimes
<1>1. /\ DOMAIN c = Data /\ c["vectors"] = "v" /\ c["payloads"] = "p1" /\ c["filter"] = "f1"
      /\ c["tests"] = (IF full THEN "t1" ELSE "t0")
           /\ c["hybrid"] = (IF full THEN "h1" ELSE "none")
  BY DEF BuildContents, Data
<1> HIDE DEF c
<1>2. \A f \in Data : c[f] \in Contents(f) \cup {"none"}
  BY <1>1, DataIs DEF Contents
<1>3. /\ Image(full, full)["vectors"] = "v" /\ Image(full, full)["payloads"] = "p1"
           /\ Image(full, full)["filter"] = "f1"
      /\ Image(full, full)["tests"] = (IF full THEN "t1" ELSE "t0")
           /\ Image(full, full)["hybrid"] = (IF full THEN "h1" ELSE "none")
  BY DEF Image, Data
<1>4. \A f \in Data : (IF c[f] # "none" THEN c[f] ELSE pub[f]) = Image(full, full)[f]
      \/ (f = "hybrid" /\ ~full)
  BY <1>1, <1>3, DataIs
<1>5. Seal(c, full, full) = Sealed(full, full) /\ Sealed(full, full) \in Seals
  BY <1>4, SealIs
<1>6. Sealed(full, full).kind = "sealed" /\ Sealed(full, full).digests = Image(full, full)
  BY DEF Sealed, Manifest
<1>7. /\ p \in AllTimes /\ Covers(p, p.len, 0, BuildOps(full)) /\ p.u = 8
      /\ \A f \in Data : p.r[f] > 0 /\ (p.w[f] > 0 <=> c[f] # "none")
  <2>1. CASE full
    <3>1. full = TRUE /\ p = FullTimes
      BY <2>1
    <3>2. FullTimes.len = 27 /\ FullTimes.u = 8 /\ \A f \in Data : FullTimes.r[f] > 0
          /\ FullTimes.w[f] > 0
      BY DataIs DEF FullTimes, Times, PerFile
    <3>3. \A f \in Data : c[f] # "none"
      BY <1>1, <2>1, DataIs
    <3>4. Covers(FullTimes, FullTimes.len, 0, BuildOps(TRUE))
      BY <3>2, FullCovers
    <3> HIDE DEF p
    <3> QED
      BY <3>1, <3>2, <3>3, <3>4 DEF AllTimes
  <2>2. CASE ~full
    <3>1. full = FALSE /\ p = TextTimes
      BY <2>2
    <3>2. /\ TextTimes.len = 25 /\ TextTimes.u = 8 
          /\ \A f \in Data : TextTimes.r[f] > 0 /\ (TextTimes.w[f] > 0 <=> f # "hybrid")
      BY DataIs DEF TextTimes, Times, PerFile
    <3>3. \A f \in Data : c[f] # "none" <=> f # "hybrid"
      BY <1>1, <2>2, DataIs
    <3>4. Covers(TextTimes, TextTimes.len, 0, BuildOps(FALSE))
      BY <3>2, TextCovers
    <3> HIDE DEF p
    <3> QED
      BY <3>1, <3>2, <3>3, <3>4 DEF AllTimes
  <2> QED
    BY <2>1, <2>2
<1>8. \A f \in Data : c[f] = Image(full, full)[f]
  BY <1>1, <1>3, DataIs
<1> HIDE DEF p
<1>9. Promise(p, c, Seal(c, full, full), BuildOps(full), "ok")
  BY <1>1, <1>2, <1>5, <1>6, <1>7, <1>8 DEF Promise
<1> QED
  BY <1>9 DEF c, p

\* The decision of a build.
LEMMA DecideBuildKeeps == ASSUME DirInv, DecideBuild PROVE DirInv'
<1>1. CASE \E how \in {"ok", "err"} : Refuse(how)
  BY <1>1, Refuses
<1>2. PICK full \in BOOLEAN : full = Full(cmd)
  <2>1. Full(cmd) \in BOOLEAN
    BY DEF Full
  <2> QED
    BY <2>1
<1>3. CASE Work(BuildContents(full), Seal(BuildContents(full), full, full), BuildOps(full), "ok")
  BY <1>3, BuildPromise, Works DEF DecideBuild
<1>4. BuildContents(full) =
         [vectors |-> "v", payloads |-> "p1", filter |-> "f1",
          tests |-> IF Full(cmd) THEN "t1" ELSE "t0",
          hybrid |-> IF Full(cmd) THEN "h1" ELSE "none"]
  BY <1>2 DEF BuildContents
<1> QED
  BY <1>1, <1>2, <1>3, <1>4 DEF DecideBuild

\* The decision of add_knn_truth.
LEMMA DecideKnnKeeps == ASSUME DirInv, DecideKnn PROVE DirInv'
<1> DEFINE c == [NoDigests EXCEPT !["tests"] = "t1", !["hybrid"] = HybridOf(pub)]
           ops == Stage("tests") \o Stage("hybrid") \o Stage("manifest")
           \o Publish(<<"tests", "hybrid", "manifest">>)
           p == KnnTimes
<1>1. CASE \E how \in {"ok", "err"} : Refuse(how)
  BY <1>1, Refuses
<1>2. CASE Inspect = "sealed" /\ Work(c, Seal(c, TRUE, TRUE), ops, "ok")
  <2>1. man \in Seals /\ \A f \in Data : pub[f] = man.digests[f]
    BY <1>2, SealedFacts
  <2>2. pub["vectors"] = "v" /\ pub["payloads"] = "p1" /\ pub["filter"] = "f1"
    BY <2>1, SealFacts, DataIs
  <2>3. HybridOf(pub) = "h1"
    BY <2>2 DEF HybridOf
  <2>4. /\ DOMAIN c = Data /\ c["vectors"] = "none" /\ c["payloads"] = "none"
             /\ c["filter"] = "none"
        /\ c["tests"] = "t1" /\ c["hybrid"] = "h1"
    BY <2>3 DEF NoDigests, Data
  <2>5. p \in AllTimes /\ Covers(p, p.len, 0, ops) /\ p.u = 5
    <3>1. KnnTimes.len = 11 /\ KnnTimes.u = 5
      BY DEF KnnTimes, Times
    <3> QED
      BY <3>1, KnnCovers DEF AllTimes
  <2>6. \A f \in Data : (p.w[f] > 0 <=> f \in {"tests", "hybrid"})
        /\ (p.r[f] > 0 <=> f \in {"tests", "hybrid"})
    BY DataIs DEF KnnTimes, Times, PerFile
  <2> HIDE DEF c, ops, p
  <2>7. \A f \in Data : c[f] \in Contents(f) \cup {"none"}
    BY <2>4, DataIs DEF Contents
  <2>8. /\ Image(TRUE, TRUE)["vectors"] = "v" /\ Image(TRUE, TRUE)["payloads"] = "p1"
             /\ Image(TRUE, TRUE)["filter"] = "f1"
        /\ Image(TRUE, TRUE)["tests"] = "t1" /\ Image(TRUE, TRUE)["hybrid"] = "h1"
    BY DEF Image, Data
  <2>9. \A f \in Data : (IF c[f] # "none" THEN c[f] ELSE pub[f]) = Image(TRUE, TRUE)[f]
    BY <2>2, <2>4, <2>8, DataIs
  <2>10. Seal(c, TRUE, TRUE) = Sealed(TRUE, TRUE) /\ Sealed(TRUE, TRUE) \in Seals
    BY <2>9, SealIs
  <2>11. Sealed(TRUE, TRUE).kind = "sealed" /\ Sealed(TRUE, TRUE).digests = Image(TRUE, TRUE)
    BY DEF Sealed, Manifest
  <2>12. \A f \in Data : c[f] # "none" <=> f \in {"tests", "hybrid"}
    BY <2>4, DataIs
  <2>13. PICK m : m = Seal(c, TRUE, TRUE)
    OBVIOUS
  <2>14. /\ m \in Seals /\ m.kind = "sealed"
         /\ \A f \in Data : IF f \in {"tests",
              "hybrid"} THEN c[f] = m.digests[f] ELSE pub[f] = m.digests[f]
    <3>1. m \in Seals /\ m.kind = "sealed" /\ m.digests = Image(TRUE, TRUE)
      BY <2>10, <2>11, <2>13
    <3>2. \A f \in Data : IF f \in {"tests", "hybrid"} THEN c[f] = Image(TRUE, TRUE)[f]
                          ELSE pub[f] = Image(TRUE, TRUE)[f]
      BY <2>2, <2>4, <2>8, DataIs
    <3> QED
      BY <3>1, <3>2
  <2>15. Promise(p, c, m, ops, "ok")
    BY <2>4, <2>5, <2>6, <2>7, <2>12, <2>14 DEF Promise
  <2> QED
    BY <1>2, <2>13, <2>15, Works DEF DecideKnn
<1> QED
  BY <1>1, <1>2 DEF DecideKnn

\* The decision of add_hybrid_queries.
LEMMA DecideHybridKeeps == ASSUME DirInv, DecideHybrid PROVE DirInv'
<1> DEFINE c == [NoDigests EXCEPT !["hybrid"] = HybridOf(pub)]
           m == IF SealedDir THEN Seal(c, TRUE, TRUE) ELSE man
           head == Mapped("drop", <<"hybrid", "manifest">>) \o Stage("hybrid")
           ops == head \o Stage("manifest") \o Publish(<<"hybrid", "manifest">>)
           go == /\ SealedDir => Inspect = "sealed" /\ man.truth
                 /\ HasCorpusFiles /\ pub["filter"] # "none"
<1>1. CASE \E how \in {"ok", "err"} : Refuse(how)
  BY <1>1, Refuses
<1>2. ASSUME go
      PROVE  /\ m \in {NoManifest, Legacy} \cup Seals
             /\ DOMAIN c = Data /\ c["vectors"] = "none" /\ c["payloads"] = "none"
                  /\ c["filter"] = "none"
             /\ c["tests"] = "none" /\ c["hybrid"] = "h1"
             /\ m.kind = "sealed"
                  => \A f \in Data : (IF c[f] # "none" THEN c[f] ELSE pub[f]) = m.digests[f]
             /\ m.kind = "sealed" <=> man.kind = "sealed"
             /\ m.kind = "none" <=> man.kind = "none"
  <2>1. pub["payloads"] = "p1"
    <3>1. CASE SealedDir
      <4>1. man \in Seals /\ \A f \in Data : pub[f] = man.digests[f]
        BY <1>2, <3>1, SealedFacts
      <4> QED
        BY <4>1, SealFacts, DataIs
    <3>2. CASE ~SealedDir
      BY <1>2, <3>2 DEF DirInv, LegacyOK, SealedDir
    <3> QED
      BY <3>1, <3>2
  <2>2. HybridOf(pub) = "h1"
    BY <2>1 DEF HybridOf
  <2>3. /\ DOMAIN c = Data /\ c["vectors"] = "none" /\ c["payloads"] = "none"
             /\ c["filter"] = "none"
        /\ c["tests"] = "none" /\ c["hybrid"] = "h1"
    BY <2>2 DEF NoDigests, Data
  <2> HIDE DEF c
  <2>4. CASE SealedDir
    <3>1. man \in Seals /\ (\A f \in Data : pub[f] = man.digests[f]) /\ man.truth
      BY <1>2, <2>4, SealedFacts
    <3>2. pub["vectors"] = "v" /\ pub["payloads"] = "p1" /\ pub["filter"] = "f1"
          /\ pub["tests"] = "t1"
      BY <3>1, SealFacts, DataIs
    <3>3. /\ Image(TRUE, TRUE)["vectors"] = "v" /\ Image(TRUE, TRUE)["payloads"] = "p1"
               /\ Image(TRUE, TRUE)["filter"] = "f1"
          /\ Image(TRUE, TRUE)["tests"] = "t1" /\ Image(TRUE, TRUE)["hybrid"] = "h1"
      BY DEF Image, Data
    <3>4. \A f \in Data : (IF c[f] # "none" THEN c[f] ELSE pub[f]) = Image(TRUE, TRUE)[f]
      BY <2>3, <3>2, <3>3, DataIs
    <3>5. Seal(c, TRUE, TRUE) = Sealed(TRUE, TRUE) /\ Sealed(TRUE, TRUE) \in Seals
      BY <3>4, SealIs
    <3>6. Sealed(TRUE, TRUE).kind = "sealed" /\ Sealed(TRUE, TRUE).digests = Image(TRUE, TRUE)
      BY DEF Sealed, Manifest
    <3>7. m = Sealed(TRUE, TRUE)
      BY <2>4, <3>5
    <3>8. man.kind = "sealed"
      BY <2>4 DEF SealedDir
    <3> HIDE DEF m
    <3> QED
      BY <2>3, <3>4, <3>5, <3>6, <3>7, <3>8
  <2>5. CASE ~SealedDir
    <3>1. m = man /\ man.kind # "sealed"
      BY <2>5 DEF SealedDir
    <3> HIDE DEF m
    <3> QED
      BY <2>3, <3>1 DEF DirInv, DirOK
  <2> QED
    BY <2>4, <2>5
<1> HIDE DEF c, m, head, go
<1>3. CASE go /\ man.kind # "none" /\ Work(c, m, ops, "ok")
  <2> DEFINE p == HybridTimes
  <2>1. p \in AllTimes /\ Covers(p, p.len, 0, ops) /\ p.u = 4
    <3>1. HybridTimes.len = 10 /\ HybridTimes.u = 4
      BY DEF HybridTimes, Times
    <3> QED
      BY <3>1, HybridCovers DEF AllTimes, head
  <2>2. \A f \in Data : (p.w[f] > 0 <=> f = "hybrid") /\ (p.r[f] > 0 <=> f = "hybrid")
    BY DataIs DEF HybridTimes, Times, PerFile
  <2> HIDE DEF p, ops
  <2>3. /\ m \in {NoManifest, Legacy} \cup Seals
        /\ DOMAIN c = Data /\ c["vectors"] = "none" /\ c["payloads"] = "none"
             /\ c["filter"] = "none"
        /\ c["tests"] = "none" /\ c["hybrid"] = "h1"
        /\ m.kind = "sealed"
             => \A f \in Data : (IF c[f] # "none" THEN c[f] ELSE pub[f]) = m.digests[f]
        /\ m.kind = "sealed" <=> man.kind = "sealed"
    BY <1>2, <1>3
  <2>4. \A f \in Data : c[f] \in Contents(f) \cup {"none"} /\ (c[f] # "none" <=> f = "hybrid")
    BY <2>3, DataIs DEF Contents
  <2>5. p.r["tests"] = 0 /\ p.r["payloads"] = 0 /\ p.r["filter"] = 0 /\ pub["tests"] # "none"
    BY <1>3 DEF p, HybridTimes, Times, PerFile, go, HasCorpusFiles
  <2>6. Promise(p, c, m, ops, "ok")
    BY <2>1, <2>2, <2>3, <2>4, <2>5 DEF Promise
  <2> QED
    BY <1>3, <2>6, Works DEF DecideHybrid
<1>4. CASE go /\ man.kind = "none" /\ Work(c, m, head, "err")
  <2> DEFINE p == HybridStub
  <2>1. p \in AllTimes /\ Covers(p, p.len, 0, head) /\ p.u = 0
    <3>1. HybridStub.len = 4 /\ HybridStub.u = 0
      BY DEF HybridStub, Times
    <3> QED
      BY <3>1, HybridStubCovers DEF AllTimes, head
  <2>2. \A f \in Data : p.w[f] > 0 <=> f = "hybrid"
    BY DataIs DEF HybridStub, Times, PerFile
  <2> HIDE DEF p, ops
  <2>3. /\ m \in {NoManifest, Legacy} \cup Seals
        /\ DOMAIN c = Data /\ c["vectors"] = "none" /\ c["payloads"] = "none"
             /\ c["filter"] = "none"
        /\ c["tests"] = "none" /\ c["hybrid"] = "h1"
    BY <1>2, <1>4
  <2>4. \A f \in Data : c[f] \in Contents(f) \cup {"none"} /\ (c[f] # "none" <=> f = "hybrid")
    BY <2>3, DataIs DEF Contents
  <2>5. Promise(p, c, m, head, "err")
    BY <2>1, <2>2, <2>3, <2>4 DEF Promise
  <2> QED
    BY <1>4, <2>5, Works DEF DecideHybrid
<1> QED
  BY <1>1, <1>3, <1>4 DEF DecideHybrid, c, m, head, go

\* The decision of add_derived_fields.
LEMMA DecideDerivedKeeps == ASSUME DirInv, DecideDerived PROVE DirInv'
<1> DEFINE c == [NoDigests EXCEPT !["payloads"] = "p1", !["filter"] = "f1"]
           m == IF SealedDir THEN Seal(c, man.truth, FALSE) ELSE man
           head == Mapped("drop", <<"filter", "payloads", "manifest">>) \o Stage("payloads")
           \o Stage("filter")
           ops == head \o Stage("manifest") \o DerivedPublish
           go == ~(SealedDir /\ Inspect = "err") /\ HasCorpusFiles
<1>1. CASE \E how \in {"ok", "err"} : Refuse(how)
  BY <1>1, Refuses
<1>2. /\ DOMAIN c = Data /\ c["vectors"] = "none" /\ c["payloads"] = "p1" /\ c["filter"] = "f1"
      /\ c["tests"] = "none" /\ c["hybrid"] = "none"
  BY DEF NoDigests, Data
<1> HIDE DEF c
<1>3. \A f \in Data : c[f] \in Contents(f) \cup {"none"}
      /\ (c[f] # "none" <=> f \in {"payloads", "filter"})
  BY <1>2, DataIs DEF Contents
<1>4. ASSUME go
      PROVE  /\ m \in {NoManifest, Legacy} \cup Seals
             /\ m.kind = "sealed"
                  => \A f \in Data : IF f \in {"payloads", "filter",
                  "hybrid"} THEN c[f] = m.digests[f]
                                                      ELSE pub[f] = m.digests[f]
             /\ m.kind = "sealed" <=> man.kind = "sealed"
  <2>1. CASE SealedDir
    <3>1. man.kind = "sealed" /\ Inspect = "sealed"
      BY <1>4, <2>1 DEF SealedDir, Inspect
    <3>2. man \in Seals /\ (\A f \in Data : pub[f] = man.digests[f])
      BY <3>1, SealedFacts
    <3>3. PICK t \in BOOLEAN : t = man.truth
      BY <3>2, SealFacts
    <3>4. pub["vectors"] = "v" /\ pub["tests"] = (IF t THEN "t1" ELSE "t0")
      BY <3>2, <3>3, SealFacts, DataIs
    <3>5. /\ Image(t, FALSE)["vectors"] = "v" /\ Image(t, FALSE)["payloads"] = "p1"
               /\ Image(t, FALSE)["filter"] = "f1"
          /\ Image(t, FALSE)["tests"] = (IF t THEN "t1" ELSE "t0")
               /\ Image(t, FALSE)["hybrid"] = "none"
      BY DEF Image, Data
    <3>6. \A f \in Data : (IF c[f] # "none" THEN c[f] ELSE pub[f]) = Image(t, FALSE)[f]
          \/ f = "hybrid"
      BY <1>2, <3>4, <3>5, DataIs
    <3>7. Seal(c, t, FALSE) = Sealed(t, FALSE) /\ Sealed(t, FALSE) \in Seals
      BY <3>6, SealIs
    <3>8. Sealed(t, FALSE).kind = "sealed" /\ Sealed(t, FALSE).digests = Image(t, FALSE)
      BY DEF Sealed, Manifest
    <3>9. m = Sealed(t, FALSE)
      BY <2>1, <3>3, <3>7
    <3> HIDE DEF m
    <3>10. \A f \in Data : IF f \in {"payloads", "filter", "hybrid"} THEN c[f] = Image(t,
           FALSE)[f] ELSE pub[f] = Image(t, FALSE)[f]
      BY <1>2, <3>4, <3>5, DataIs
    <3> QED
      BY <3>1, <3>7, <3>8, <3>9, <3>10
  <2>2. CASE ~SealedDir
    <3>1. m = man /\ man.kind # "sealed"
      BY <2>2 DEF SealedDir
    <3> HIDE DEF m
    <3> QED
      BY <3>1 DEF DirInv, DirOK
  <2> QED
    BY <2>1, <2>2
<1> HIDE DEF m, head, go
<1>5. CASE go /\ man.kind # "none" /\ Work(c, m, ops, "ok")
  <2> DEFINE p == DerivedTimes
  <2>1. p \in AllTimes /\ Covers(p, p.len, 0, ops) /\ p.u = 6
    <3>1. DerivedTimes.len = 15 /\ DerivedTimes.u = 6
      BY DEF DerivedTimes, Times
    <3> QED
      BY <3>1, DerivedCovers DEF AllTimes, head
  <2>2. \A f \in Data : (p.w[f] > 0 <=> f \in {"payloads", "filter"})
        /\ (p.r[f] > 0 <=> f \in {"payloads", "filter", "hybrid"})
    BY DataIs DEF DerivedTimes, Times, PerFile
  <2>3. p.r["tests"] = 0 /\ p.r["payloads"] = 3 /\ p.r["filter"] = 2 /\ pub["tests"] # "none"
    BY <1>5 DEF DerivedTimes, Times, PerFile, go, HasCorpusFiles
  <2> HIDE DEF p, ops
  <2>4. Promise(p, c, m, ops, "ok")
    BY <1>2, <1>3, <1>4, <1>5, <2>1, <2>2, <2>3 DEF Promise
  <2> QED
    BY <1>5, <2>4, Works DEF DecideDerived
<1>6. CASE go /\ man.kind = "none" /\ Work(c, m, head, "err")
  <2> DEFINE p == DerivedStub
  <2>1. p \in AllTimes /\ Covers(p, p.len, 0, head) /\ p.u = 0
    <3>1. DerivedStub.len = 7 /\ DerivedStub.u = 0
      BY DEF DerivedStub, Times
    <3> QED
      BY <3>1, DerivedStubCovers DEF AllTimes, head
  <2>2. \A f \in Data : p.w[f] > 0 <=> f \in {"payloads", "filter"}
    BY DataIs DEF DerivedStub, Times, PerFile
  <2> HIDE DEF p, ops
  <2>3. Promise(p, c, m, head, "err")
    BY <1>2, <1>3, <1>4, <1>6, <2>1, <2>2 DEF Promise
  <2> QED
    BY <1>6, <2>3, Works DEF DecideDerived
<1> QED
  BY <1>1, <1>5, <1>6 DEF DecideDerived, c, m, head, go

\* A death in the middle of a sealed publication leaves what its recovery needs.
LEMMA CrashCuts ==
  ASSUME DirInv, Publishing, NEW m, m = ManifestArtifact, NEW cutNow,
         cutNow = {f \in Data : made[f] # "none"}
  PROVE  /\ ~marker /\ m \in Seals
         /\ \A f \in cutNow : f \in Inventory(m) /\ Artifact(f) = m.digests[f]
         /\ \A f \in Inventory(m) \ cutNow : part[f] = "none" => pub[f] = m.digests[f]
<1>1. PICK p \in AllTimes : WorkOn(p, Len(todo))
  BY DEF DirInv, WorkOK, Publishing
<1>2. PICK n : n = Len(todo)
  OBVIOUS
<1>3. Timely(p)
  BY TimesAreTimely
<1>4. /\ p.u \in Nat /\ \A f \in Files : p.w[f] \in Nat /\ p.r[f] \in Nat
      /\ \A f \in Files : p.r[f] > 0 => p.r[f] < p.u
      /\ \A f \in Files : p.u > 0 /\ p.w[f] > 0 => p.u < p.w[f] /\ p.r[f] > 0
      /\ p.u > 0 => p.r["manifest"] > 0 /\ p.w["manifest"] > 0
  BY <1>3 DEF Timely
<1>5. MadeOn(p) /\ FilesOn(p, n) /\ ManifestOn(p, n) /\ SealOn(p) /\ Covers(p, n, 0, todo)
  BY <1>1, <1>2 DEF WorkOn
<1>6. p.u > 0 /\ newMan.kind = "sealed" /\ newMan \in Seals /\ ~marker
  BY <1>4, <1>5, ManifestFacts DEF Publishing, MadeOn
<1>7. n \in Nat /\ n < p.u
  <2>1. n \in Nat /\ Len(todo) = n
    BY <1>5 DEF Covers
  <2>2. ASSUME n >= p.u PROVE FALSE
    <3> DEFINE i == n + 1 - p.u
    <3>1. i \in 1..Len(todo) /\ n + 1 - i = p.u
      BY <1>4, <1>6, <2>1, <2>2
    <3>2. Fine(p, n + 1 - i, todo[i])
      BY <1>5, <3>1 DEF Covers
    <3>3. todo[i][1] = "unmark"
      BY <3>1, <3>2 DEF Fine
    <3>4. todo[i][1] \in {"rename", "remove", "mark"}
      BY <3>1 DEF Publishing
    <3> QED
      BY <3>3, <3>4
  <2> QED
    BY <1>4, <2>1, <2>2
<1>8. m = newMan
  <2>1. n < p.w["manifest"]
    BY <1>4, <1>6, <1>7, FilesFacts
  <2>2. CASE p.r["manifest"] <= n
    BY <1>5, <1>6, <2>1, <2>2 DEF ManifestOn, ManifestArtifact
  <2>3. CASE n < p.r["manifest"]
    BY <1>5, <2>3, ManifestFacts DEF ManifestOn, ManifestArtifact
  <2> QED
    BY <1>4, <1>7, <2>2, <2>3, FilesFacts
<1>9. ASSUME NEW f \in cutNow PROVE f \in Inventory(m) /\ Artifact(f) = m.digests[f]
  <2>1. f \in Data /\ f \in Files /\ made[f] # "none" /\ p.w[f] > 0 /\ p.r[f] > 0 /\ n < p.w[f]
    BY <1>4, <1>5, <1>6, <1>7, FilesFacts DEF MadeOn
  <2>2. made[f] = m.digests[f]
    BY <1>5, <1>6, <1>8, <2>1 DEF SealOn
  <2>3. Artifact(f) = made[f]
    <3>1. CASE p.r[f] <= n
      BY <1>5, <2>1, <3>1 DEF FilesOn, Artifact
    <3>2. CASE n < p.r[f]
      BY <1>5, <2>1, <3>2 DEF FilesOn, Artifact
    <3> QED
      BY <1>4, <1>7, <2>1, <3>1, <3>2
  <2>4. f \in Inventory(m)
    <3>1. f = "hybrid" => m.filtered
      BY <1>6, <1>8, <2>1, <2>2, SealFacts
    <3> QED
      BY <1>6, <1>8, <2>1, <3>1, InventoryFacts
  <2> QED
    BY <2>2, <2>3, <2>4
<1>10. ASSUME NEW f \in Inventory(m) \ cutNow PROVE pub[f] = m.digests[f]
  <2>1. f \in Data /\ f \in Files /\ made[f] = "none" /\ m.digests[f] # "none"
    BY <1>6, <1>8, FilesFacts, InventoryFacts
  <2>2. ~(p.r[f] > 0)
    BY <1>5, <1>6, <1>8, <2>1 DEF SealOn
  <2> QED
    BY <1>5, <1>6, <1>8, <2>1, <2>2 DEF SealOn
<1> QED
  BY <1>6, <1>8, <1>9, <1>10

\* A command dies.
LEMMA CrashKeeps == ASSUME DirInv, Crash PROVE DirInv'
<1>1. CASE ~Publishing
  BY <1>1, Returns DEF Crash
<1>2. CASE Publishing
  <2>1. PICK m : m = ManifestArtifact
    OBVIOUS
  <2>2. UNCHANGED <<pub, part, man, manPart, marker>> /\ Return("died")
    BY DEF Crash, disk
  <2>3. cut' = {f \in Data : made[f] # "none"}
    BY <1>2 DEF Crash
  <2>4. /\ ~marker /\ m \in Seals
        /\ \A f \in cut' : f \in Inventory(m) /\ Artifact(f) = m.digests[f]
        /\ \A f \in Inventory(m) \ cut' : part[f] = "none" => pub[f] = m.digests[f]
    BY <1>2, <2>1, <2>3, CrashCuts
  <2>5. stage' = "idle"
    BY <2>2 DEF Return
  <2>6. CutOn(m)' /\ m = ManifestArtifact'
    BY <2>1, <2>2, <2>4, <2>5 DEF CutOn, Artifact, Inventory, ManifestArtifact
  <2>7. CutOK'
    BY <2>6 DEF CutOK
  <2> QED
    BY <2>2, <2>3, <2>7, Quiet DEF DirInv, DirOK, Return, disk
<1> QED
  BY <1>1, <1>2

\* Every initial directory satisfies the invariant.
LEMMA InitHolds == PrepareInit => DirInv
<1> SUFFICES ASSUME PrepareInit PROVE DirInv
  OBVIOUS
<1>1. DOMAIN NoDigests = Data /\ \A f \in Data : NoDigests[f] = "none"
  BY DEF NoDigests
<1>2. /\ part = NoDigests /\ manPart = NoManifest /\ cmd = "idle" /\ stage = "idle" 
      /\ ends = "none" /\ returned = "none" /\ cut = {}
  BY DEF PrepareInit
<1>3. /\ DOMAIN pub = Data /\ \A f \in Data : pub[f] \in Contents(f) \cup {"none"}
      /\ pub["filter"] # "none" => (pub["payloads"] = "p1" /\ pub["tests"] # "none")
  <2>1. CASE pub = NoDigests
    BY <1>1, <2>1, DataIs
  <2>2. ASSUME NEW p \in {"p0", "p1"}, NEW f \in {"none", "f1"}, NEW h \in {"none", "h1"},
               pub = Tarball(p, f, h),
               f = "none" \/ p = "p1"
        PROVE  /\ DOMAIN pub = Data /\ \A g \in Data : pub[g] \in Contents(g) \cup {"none"}
               /\ pub["filter"] # "none" => (pub["payloads"] = "p1" /\ pub["tests"] # "none")
    <3>1. /\ DOMAIN pub = Data /\ pub["vectors"] = "v" /\ pub["payloads"] = p /\ pub["filter"] = f
          /\ pub["tests"] = "t1" /\ pub["hybrid"] = h
      BY <2>2 DEF Tarball, Data
    <3> QED
      BY <2>2, <3>1, DataIs DEF Contents
  <2>3. CASE pub \in {Tarball("p0", "none", "none"), Tarball("p1", "f1", "none"),
             Tarball("p1", "f1", "h1")}
    BY <2>2, <2>3
  <2> QED
    BY <2>1, <2>3 DEF PrepareInit
<1>4. man \in {NoManifest, Legacy} /\ marker \in BOOLEAN
  BY DEF PrepareInit
<1>5. DirOK
  BY <1>1, <1>2, <1>3, <1>4 DEF DirOK
<1>6. LegacyOK /\ MarkerOK /\ CutOK
  BY <1>2, <1>3, <1>4, ManifestFacts DEF LegacyOK, MarkerOK, CutOK
<1> QED
  BY <1>2, <1>5, <1>6 DEF DirInv

\* Every step keeps the invariant.
LEMMA NextKeeps == DirInv /\ [PrepareNext]_dirVars => DirInv'
<1> SUFFICES ASSUME DirInv, [PrepareNext]_dirVars PROVE DirInv'
  OBVIOUS
<1>1. CASE \E c \in Commands : Start(c)
  BY <1>1, StartKeeps
<1>2. CASE Recover
  BY <1>2, RecoverKeeps
<1>3. CASE Recovered
  BY <1>3, RecoveredKeeps
<1>4. CASE DecideBuild
  BY <1>4, DecideBuildKeeps
<1>5. CASE DecideDerived
  BY <1>5, DecideDerivedKeeps
<1>6. CASE DecideKnn
  BY <1>6, DecideKnnKeeps
<1>7. CASE DecideHybrid
  BY <1>7, DecideHybridKeeps
<1>8. CASE Step
  <2>1. CASE stage = "work"
    <3>1. DirOK' /\ LegacyOK' /\ MarkerOK' /\ cut' = {} /\ stage' = "work" /\ WorkOK'
      BY <1>8, <2>1, WorkStep
    <3> QED
      BY <3>1 DEF DirInv, CutOK
  <2>2. CASE stage = "recovering"
    <3>1. DirOK' /\ LegacyOK' /\ MarkerOK' /\ CutOK' /\ stage' = "recovering" /\ RecoverOK'
      BY <1>8, <2>2, RecoverStep
    <3> QED
      BY <3>1 DEF DirInv
  <2> QED
    BY <1>8, <2>1, <2>2 DEF Step
<1>9. CASE Complete
  BY <1>9, CompleteKeeps
<1>10. CASE Crash
  BY <1>10, CrashKeeps
<1>11. CASE UNCHANGED dirVars
  <2>1. /\ UNCHANGED disk /\ UNCHANGED <<pub, part, man, manPart, marker>>
        /\ UNCHANGED <<cmd, stage, todo, made, newMan, ends, returned, cut>>
    BY <1>11 DEF dirVars, disk
  <2>2. DirOK' /\ LegacyOK' /\ MarkerOK'
    BY <2>1 DEF DirInv, DirOK, LegacyOK, MarkerOK
  <2>3. ManifestArtifact' = ManifestArtifact
    BY <2>1 DEF ManifestArtifact
  <2>4. PICK m : m = ManifestArtifact
    OBVIOUS
  <2>5. CutOK'
    <3>1. CutOn(m) => CutOn(m)'
      BY <2>1 DEF CutOn, Artifact, Inventory
    <3> QED
      BY <2>1, <2>3, <2>4, <3>1 DEF DirInv, CutOK
  <2>6. RecoverOK => RecoverOK'
    <3>1. RecoverOn(m) => RecoverOn(m)'
      BY <2>1 DEF RecoverOn, Artifact, Inventory, StillStaged, Pending, RecoverKinds, Ordered,
         Rank
    <3> QED
      BY <2>3, <2>4, <3>1 DEF RecoverOK
  <2>7. WorkOK => WorkOK'
    <3>1. ASSUME NEW p \in AllTimes, NEW n, WorkOn(p, n) PROVE WorkOn(p, n)'
      <4>1. Covers(p, n, 0, todo)'
        BY <2>1, <3>1 DEF WorkOn, Covers, Fine
      <4> QED
        BY <2>1, <3>1, <4>1 DEF WorkOn, MadeOn, FilesOn, ManifestOn, SealOn, LegacyOn
    <3>2. Len(todo') = Len(todo)
      BY <2>1
    <3> QED
      BY <3>1, <3>2 DEF WorkOK
  <2> QED
    BY <2>1, <2>2, <2>5, <2>6, <2>7 DEF DirInv
<1> QED
  BY <1>1, <1>2, <1>3, <1>4, <1>5, <1>6, <1>7, <1>8, <1>9, <1>10, <1>11 DEF PrepareNext

\* The invariant implies that the directory can be trusted.
LEMMA DirInvWhole == DirInv => PublishedWhole
<1> SUFFICES ASSUME DirInv PROVE PublishedWhole
  OBVIOUS
<1>1. /\ pub["filter"] \in {"f1", "none"} /\ pub["hybrid"] \in {"h1", "none"}
      /\ pub["tests"] \in {"t0", "t1", "none"} /\ pub["payloads"] \in {"p0", "p1", "none"}
  BY DataIs DEF DirInv, DirOK, Contents
<1>2. man.kind = "sealed" => man \in Seals
  BY SealedFacts
<1>3. MarkerMeansWhole
  <2> SUFFICES ASSUME marker, man.kind = "sealed"
               PROVE  Matches(man, pub) /\ (~man.filtered => pub["hybrid"] = "none")
    BY DEF MarkerMeansWhole
  <2>1. man \in Seals /\ \A f \in Data : pub[f] = man.digests[f]
    BY <1>2 DEF DirInv, MarkerOK
  <2> QED
    BY <2>1, SealFacts, InventoryFacts, DataIs DEF Matches
<1>4. LoaderSeesOneCorpus
  <2> SUFFICES ASSUME LoaderAccepts
               PROVE  /\ pub["filter"] = "f1" /\ pub["payloads"] = "p1"
                      /\ pub["hybrid"] \in {"none", "h1"}
                      /\ man.kind = "sealed" => (pub["tests"] = "t1" <=> man.truth)
                           /\ (pub["hybrid"] = "h1" <=> man.filtered)
                      /\ man.kind # "sealed" => pub["tests"] = "t1"
    BY DEF LoaderSeesOneCorpus
  <2>1. pub["filter"] # "none" /\ pub["payloads"] = "p1" /\ Inspect # "err"
    BY DEF LoaderAccepts
  <2>2. CASE man.kind = "sealed"
    <3>1. Inspect = "sealed"
      BY <2>1, <2>2 DEF Inspect
    <3>2. man \in Seals /\ \A f \in Data : pub[f] = man.digests[f]
      BY <3>1, SealedFacts
    <3> QED
      BY <1>1, <2>1, <2>2, <3>2, SealFacts, DataIs
  <2>3. CASE man.kind # "sealed"
    <3>1. man.kind \in {"none", "legacy"}
      BY <2>3, SealedFacts, ManifestFacts
    <3>2. LegacyTruth
      BY <2>1, <3>1 DEF Inspect
    <3>3. pub["tests"] # "none"
      BY <2>1, <2>3 DEF DirInv, LegacyOK
    <3> QED
      BY <1>1, <2>1, <2>3, <3>2, <3>3 DEF LegacyTruth
  <2> QED
    BY <2>2, <2>3
<1> QED
  BY <1>3, <1>4 DEF PublishedWhole

\* The invariant implies that a cut publication can be finished.
LEMMA DirInvRecovers == DirInv => RecoversUnlessStale
<1> SUFFICES ASSUME DirInv, cut # {}, \A f \in Data \ cut : part[f] = "none"
             PROVE  InspectStaged = "sealed"
  BY DEF RecoversUnlessStale
<1>1. PICK m : m = ManifestArtifact
  OBVIOUS
<1>2. CutOn(m)
  BY <1>1 DEF DirInv, CutOK
<1>3. m \in Seals /\ m.kind = "sealed" /\ Inventory(m) \subseteq Data
  BY <1>2, SealFacts, InventoryFacts DEF CutOn
<1>4. \A f \in Inventory(m) : m.digests[f] # "none" /\ Artifact(f) = m.digests[f]
  BY <1>2, <1>3, InventoryFacts DEF CutOn, Artifact
<1>5. Artifact("tests") = IF m.truth THEN "t1" ELSE "t0"
  BY <1>3, <1>4, SealFacts, InventoryFacts, DataIs
<1>6. Matches(m, [f \in Data |-> Artifact(f)])
  <2> DEFINE view == [f \in Data |-> Artifact(f)]
  <2>1. \A f \in Data : view[f] = Artifact(f)
    OBVIOUS
  <2>2. "tests" \in Data
    BY DataIs
  <2>3. view["tests"] = IF m.truth THEN "t1" ELSE "t0"
    BY <1>5, <2>1, <2>2
  <2>4. \A f \in Inventory(m) : m.digests[f] # "none" /\ view[f] = m.digests[f]
    BY <1>3, <1>4, <2>1
  <2>5. m.filtered => m.truth
    BY <1>3, SealFacts
  <2> QED
    BY <2>3, <2>4, <2>5 DEF Matches
<1> QED
  BY <1>1, <1>3, <1>6 DEF InspectStaged

\* The invariant implies the type invariant.
LEMMA DirInvTyped == DirInv => DirTypeOK
<1>1. /\ Tokens["vectors"] = {"v"} /\ Tokens["payloads"] = {"p0", "p1"}
           /\ Tokens["filter"] = {"f1"}
      /\ Tokens["tests"] = {"t0", "t1"} /\ Tokens["hybrid"] = {"h0", "h1"}
  BY DEF Tokens
<1>2. \A f \in Data : Contents(f) \subseteq Tokens[f]
  BY <1>1, DataIs DEF Contents
<1> QED
  BY <1>2, ManifestFacts DEF DirInv, DirOK, DirTypeOK

\* The invariant holds throughout.
LEMMA PrepareInvariant == PrepareSpec => []DirInv
  BY InitHolds, NextKeeps, PTL DEF PrepareSpec

\* Published files are whole, whatever was interrupted: a partial write never gets its
\* final name, for any set of subcommands run, cut short and repeated in any order.
THEOREM DirTyped == PrepareSpec => []DirTypeOK
  BY PrepareInvariant, DirInvTyped, PTL

\* Whenever the loader opens the directory, between any two file operations of a build,
\* an upgrade or a recovery and after any sequence of deaths, it takes one corpus or none,
\* and COMPLETE never vouches for less than the sealed manifest next to it.
THEOREM PublicationWhole == PrepareSpec => []PublishedWhole
  BY PrepareInvariant, DirInvWhole, PTL

\* A sealed publication that was cut short passes the staged inspection of the next command
\* (recover_publication), and so does a recovery cut short itself, unless an earlier command
\* left a .part of a file that the publication does not stage.
THEOREM CutPublicationRecovers == PrepareSpec => []RecoversUnlessStale
  BY PrepareInvariant, DirInvRecovers, PTL

-----------------------------------------------------------------------------
(***************************************************************************)
(* Where a run's corpus comes from: what the files under the path are,     *)
(* which of them anybody may still write, and what an invocation has made  *)
(* of them.                                                                *)
(***************************************************************************)
Memories == {"little", "enough", "unknown"}
Places ==
  {"off", "gate", "resolve", "fetch", "create", "unpack", "write", "validate", "load", "queries", "searched",
   "failed", "done"}
Fields ==
  {"at", "flag", "snapshot", "tmp", "tries", "pos", "configs", "warned", "rewritten", "readers", "via", "rows",
   "meta", "twin", "asked", "queries", "truth"}

\* Files were on disk before any run; then nothing is ever fetched.
Provided == \E f \in Reads(ds.layout) : ds.local[f] # Absent

\* The order the vectors of a compound dataset are in, from wherever they are.
SourceKind == IF Provided THEN ds.local["vectors.npy"].at ELSE ds.archive["vectors.npy"].at

\* Whatever was cut, killed, rewritten or deleted: each file could be part of the dataset.
FilesBelong ==
  /\ ds \in Datasets
  /\ DOMAIN files = Reads(ds.layout) /\ \A f \in Reads(ds.layout) : Belongs(ds, f, files[f])
  /\ onDisk \in BOOLEAN /\ (~onDisk => \A f \in Reads(ds.layout) : files[f].at = "absent")
  /\ Provided => onDisk
  /\ ds.layout = "tar" => files["vectors.npy"].at \in {"absent", "stub", "torn", SourceKind}
  /\ memory \in Memories
  /\ keys \in Nat /\ (ds.layout = "h5-multi" => keys = 0)

\* An invocation: its fields, and where it is in a download.
Placed(x) ==
  /\ DOMAIN x = Fields /\ x.at \in Places /\ x.flag \in Flags /\ x.snapshot \in Memories \cup {"none"}
  /\ x.warned \in BOOLEAN /\ x.rewritten \in BOOLEAN
  /\ x.at \in {"fetch", "create", "unpack", "write"} => ds.link # "none" /\ ~Provided
  /\ x.at \in {"unpack", "write"} => x.pos \in 1..Len(ds.members)
  /\ x.at \in {"write", "validate", "load"} => onDisk

\* A count check still stands for the files, or somebody has rewritten them since.
Checked(x) ==
  x.at = "load" /\ ~x.rewritten /\ ds.layout # "sparse" =>
    ValidateVectorCount # "err" /\ (ValidateVectorCount = "short" => x.warned)

\* What was read is as CorpusAsDeclared has it.
Loaded(x) ==
  x.via # "none" =>
    /\ x.at \in {"queries", "searched"} /\ x.via \in {"read", "skip"} /\ Len(x.rows) \in Nat
    /\ ds.layout # "jsonl" => Len(x.rows) >= ds.size
    /\ ds.layout = "jsonl" /\ Len(x.rows) < ds.declared => x.warned \/ x.rewritten
    /\ x.via = "read" /\ ds.declared > 0 /\ ds.layout # "sparse" => Len(x.rows) <= ds.declared \/ x.rewritten
    /\ \A beside \in {x.meta, x.twin} \ {<<>>} :
         /\ DOMAIN beside = DOMAIN x.rows
         /\ \A i \in DOMAIN beside : beside[i] \in {x.rows[i], Blank}

Scored(x) == x.asked /\ ds.layout # "jsonl" => x.truth = x.queries

\* Which readers a run may use: the flag says it, or the first reading of the memory
\* together with the order of the vectors.
OneWay(x) ==
  /\ x.readers \subseteq {"stream", "memory"}
  /\ "stream" \in x.readers =>
       \/ x.flag = "stream"
       \/ x.flag = "auto" /\ ds.layout = "tar" /\ SourceKind = "whole" /\ x.snapshot # "none" /\ AutoStreams(x.snapshot)
  /\ "memory" \in x.readers =>
       \/ x.flag = "memory"
       \/ x.flag = "auto" /\ ds.layout # "tar"
       \/ x.flag = "auto" /\ SourceKind = "fortran"
       \/ x.flag = "auto" /\ x.snapshot # "none" /\ ~AutoStreams(x.snapshot)

InvocationOK(x) == Placed(x) /\ Checked(x) /\ Loaded(x) /\ Scored(x) /\ OneWay(x)

SourceIInv == FilesBelong /\ DOMAIN inv = Runs /\ \A r \in Runs : InvocationOK(inv[r])

LEMMA DatasetFacts == ASSUME FilesBelong PROVE IsDataset(ds)
  BY SourceAssumption DEF FilesBelong

\* Blank lines leave a sequence when they are dropped.
LEMMA FilledLength == ASSUME NEW s \in Seq(Int) PROVE Len(Filled(s)) \in Nat
<1> DEFINE kept == {i \in DOMAIN s : s[i] # Blank}
<1>1. IsFiniteSet(1..Len(s))
  BY FS_Interval
<1>2. IsFiniteSet(kept)
  BY <1>1, FS_Subset
<1>3. Cardinality(kept) \in Nat
  BY <1>2, FS_CardinalityType
<1> HIDE DEF kept
<1>4. ASSUME NEW n \in Nat, NEW e(_) PROVE Len([k \in 1..n |-> e(k)]) = n
  OBVIOUS
<1>5. Filled(s) = [k \in 1..Cardinality(kept) |-> s[CHOOSE i \in kept : Cardinality({j \in kept : j <= i}) = k]]
  BY DEF Filled, kept
<1> QED
  BY <1>3, <1>5

\* What a file holds.
LEMMA FileFacts ==
  ASSUME FilesBelong, NEW f \in Reads(ds.layout)
  PROVE  /\ files[f].at \in {"absent", "whole", "torn", "stub", "fortran"}
         /\ files[f].rows \in Seq(Int) /\ files[f].top \in Nat
         /\ (f = Vectors(ds.layout) /\ ~IsLines(f) /\ files[f].at # "absent") => ds.size <= Len(files[f].rows)
         /\ \/ \A i \in DOMAIN files[f].rows :
                 files[f].rows[i] = i \/ (IsLines(f) /\ files[f].rows[i] \in {Blank, Broken})
            \/ ds.layout = "sparse" /\ f \in {"neighbours.jsonl", "results.gt"} /\ ds.declared \in 1..files[f].top
<1>1. Belongs(ds, f, files[f])
  BY DEF FilesBelong
<1> QED
  BY <1>1 DEF Belongs

\* What may be loaded: LoadAll's result, for a corpus that the count check has passed.
GoodLoad(data) ==
  /\ Len(data.rows) \in Nat
  /\ ds.layout # "h5-multi"
  /\ ds.layout # "jsonl" => Len(data.rows) >= ds.size
  /\ ds.layout = "jsonl" /\ Len(data.rows) < ds.declared => ValidateVectorCount \in {"short", "err"}
  /\ ds.declared > 0 /\ Len(data.rows) > ds.declared => ValidateVectorCount = "err"
  /\ \A beside \in {data.meta, data.twin} \ {<<>>} :
       /\ DOMAIN beside = DOMAIN data.rows
       /\ \A i \in DOMAIN beside : beside[i] \in {data.rows[i], Blank}

\* The verdict of the count check for a corpus of n rows.
LEMMA CountVerdict ==
  ASSUME NEW n \in Nat, IsDataset(ds), MeasuredVectorCount = [kind |-> "count", n |-> n]
  PROVE  /\ n < ds.declared => ValidateVectorCount = "short"
         /\ ds.declared > 0 /\ n > ds.declared => ValidateVectorCount = "err"
  BY DEF ValidateVectorCount, CompareCounts, IsDataset

LEMMA CorpusFacts ==
  ASSUME NEW v, NEW m, NEW t, Corpus(v, m, t).ok
  PROVE  /\ v.ok /\ m.ok /\ t.ok
         /\ Corpus(v, m, t).rows = v.rows /\ Corpus(v, m, t).meta = m.rows /\ Corpus(v, m, t).twin = t.rows
  BY DEF Corpus

LEMMA NoCorpusFact == ~NoCorpus.ok
  BY DEF NoCorpus, Corpus, Failed

LEMMA AloneFacts ==
  ASSUME NEW v, Alone(v).ok
  PROVE  v.ok /\ Alone(v).rows = v.rows /\ Alone(v).meta = <<>> /\ Alone(v).twin = <<>>
  BY DEF Alone, Corpus, Got

\* A matrix that can be read has the rows of its header.
LEMMA WholeFacts ==
  ASSUME FilesBelong, NEW f \in Reads(ds.layout), Whole(f).ok
  PROVE  /\ Whole(f).rows = files[f].rows /\ HeaderRows(f) = Got(files[f].rows)
         /\ files[f].at \in {"whole", "fortran"} /\ Opens(f)
  BY DEF Whole, HeaderRows, Got, Failed, Opens

LEMMA MatrixMeasured ==
  ASSUME FilesBelong, onDisk, NEW f \in Reads(ds.layout), f = Vectors(ds.layout), ~IsLines(f),
         NEW data, Len(data.rows) = Len(files[f].rows), files[f].at \in {"whole", "fortran"},
         MeasuredVectorCount = [kind |-> "count", n |-> Len(files[f].rows)],
         ds.layout \notin {"jsonl", "h5-multi"},
         \A beside \in {data.meta, data.twin} \ {<<>>} :
           /\ DOMAIN beside = DOMAIN data.rows
           /\ \A i \in DOMAIN beside : beside[i] \in {data.rows[i], Blank}
  PROVE  GoodLoad(data)
<1>1. Len(files[f].rows) \in Nat /\ ds.size <= Len(files[f].rows)
  BY FileFacts
<1> QED
  BY <1>1, DatasetFacts, CountVerdict DEF GoodLoad

\* The layouts that are one matrix.
LEMMA PlainLoad ==
  ASSUME FilesBelong, onDisk, NEW reader, LoadAll(reader).ok,
         ds.layout \in {"npy", "hdf5", "sparse", "multivector"}
  PROVE  GoodLoad(LoadAll(reader))
<1> DEFINE f == Vectors(ds.layout)
<1>1. f \in Reads(ds.layout) /\ ~IsLines(f)
  BY DEF Vectors, Reads, IsLines
<1>2. CASE ds.layout = "hdf5"
  <2>1. f = "file.hdf5" /\ LoadAll(reader) = Alone(Hdf5("file.hdf5"))
    BY <1>2 DEF Vectors, LoadAll
  <2>2. Hdf5("file.hdf5").ok /\ LoadAll(reader).rows = Hdf5("file.hdf5").rows
        /\ LoadAll(reader).meta = <<>> /\ LoadAll(reader).twin = <<>>
    BY <2>1, AloneFacts
  <2>3. Hdf5("file.hdf5") = Got(files["file.hdf5"].rows) /\ files["file.hdf5"].at = "whole"
    BY <2>2 DEF Hdf5, Got, Failed
  <2>4. MeasuredVectorCount = [kind |-> "count", n |-> Len(files["file.hdf5"].rows)]
    BY <1>2, <2>3 DEF MeasuredVectorCount, Count, Got
  <2>5. LoadAll(reader).rows = files["file.hdf5"].rows
    BY <2>2, <2>3 DEF Got
  <2> QED
    BY <1>1, <1>2, <2>1, <2>2, <2>3, <2>4, <2>5, MatrixMeasured
<1>3. CASE ds.layout \in {"npy", "sparse", "multivector"}
  <2>1. LoadAll(reader) = Alone(Whole(f))
    BY <1>3 DEF Vectors, LoadAll, SparseData, MultivectorData, SparseMatrix, MultivectorMatrix, NpyVectors
  <2>2. Whole(f).ok /\ LoadAll(reader).rows = Whole(f).rows
        /\ LoadAll(reader).meta = <<>> /\ LoadAll(reader).twin = <<>>
    BY <2>1, AloneFacts
  <2>3. /\ Whole(f).rows = files[f].rows /\ HeaderRows(f) = Got(files[f].rows)
        /\ files[f].at \in {"whole", "fortran"} /\ Opens(f)
    BY <1>1, <2>2, WholeFacts
  <2>4. MeasuredVectorCount = IfThere(f, HeaderRows(f))
    BY <1>3 DEF Vectors, MeasuredVectorCount, NpyRowCount, CsrRowCount, MvecRowCount
  <2>5. MeasuredVectorCount = [kind |-> "count", n |-> Len(files[f].rows)]
    BY <2>3, <2>4 DEF IfThere, Count, Got
  <2> QED
    BY <1>1, <1>3, <2>2, <2>3, <2>5, MatrixMeasured
<1> QED
  BY <1>2, <1>3

LEMMA JsonlLoad ==
  ASSUME FilesBelong, onDisk, NEW reader, LoadAll(reader).ok, ds.layout = "jsonl"
  PROVE  GoodLoad(LoadAll(reader))
<1> DEFINE rows == files["vectors.jsonl"].rows
<1>1. "vectors.jsonl" \in Reads(ds.layout)
  BY DEF Reads
<1>2. LoadAll(reader) = Alone(Lines("vectors.jsonl"))
  BY DEF LoadAll
<1>3. Lines("vectors.jsonl").ok /\ LoadAll(reader).rows = Lines("vectors.jsonl").rows
      /\ LoadAll(reader).meta = <<>> /\ LoadAll(reader).twin = <<>>
  BY <1>2, AloneFacts
<1>4. Lines("vectors.jsonl").rows = Filled(rows) /\ Opens("vectors.jsonl")
  BY <1>3 DEF Lines, Got, Failed
<1>5. Len(Filled(rows)) \in Nat
  BY <1>1, FileFacts, FilledLength
<1>6. MeasuredVectorCount = [kind |-> "count", n |-> Len(Filled(rows))]
  BY <1>4 DEF MeasuredVectorCount, IfThere, Count, CountedLines, Got
<1> QED
  BY <1>3, <1>4, <1>5, <1>6, CountVerdict, DatasetFacts DEF GoodLoad

\* Rows in their places stand beside the vectors row by row.
LEMMA RowsInPlace ==
  ASSUME FilesBelong, NEW f \in Reads(ds.layout), NEW g \in Reads(ds.layout), ~IsLines(f), ds.layout # "sparse",
         Len(files[f].rows) = Len(files[g].rows), \A i \in DOMAIN files[g].rows : files[g].rows[i] # Broken
  PROVE  /\ DOMAIN files[g].rows = DOMAIN files[f].rows
         /\ \A i \in DOMAIN files[g].rows : files[g].rows[i] \in {files[f].rows[i], Blank}
<1>1. files[f].rows \in Seq(Int) /\ \A i \in DOMAIN files[f].rows : files[f].rows[i] = i
  BY FileFacts
<1>2. files[g].rows \in Seq(Int) /\ \A i \in DOMAIN files[g].rows : files[g].rows[i] = i \/ files[g].rows[i] \in {Blank, Broken}
  BY FileFacts
<1> QED
  BY <1>1, <1>2

LEMMA PairLoad ==
  ASSUME FilesBelong, onDisk, NEW reader, LoadAll(reader).ok, ds.layout \in {"tar", "hybrid"}
  PROVE  GoodLoad(LoadAll(reader))
<1> DEFINE f == "vectors.npy"
           data == LoadAll(reader)
<1> SUFFICES GoodLoad(data)
  OBVIOUS
<1>1. f \in Reads(ds.layout) /\ ~IsLines(f) /\ f = Vectors(ds.layout)
  BY DEF Vectors, Reads, IsLines
<1>2. ASSUME Whole(f).ok, data.rows = Whole(f).rows, NEW g \in Reads(ds.layout),
             \A beside \in {data.meta, data.twin} \ {<<>>} :
                 /\ beside = files[g].rows /\ Len(files[g].rows) = Len(files[f].rows)
                 /\ \A i \in DOMAIN files[g].rows : files[g].rows[i] # Broken
      PROVE  GoodLoad(data)
  <2>1. /\ Whole(f).rows = files[f].rows /\ HeaderRows(f) = Got(files[f].rows)
        /\ files[f].at \in {"whole", "fortran"} /\ Opens(f)
    BY <1>1, <1>2, WholeFacts
  <2>2. MeasuredVectorCount = [kind |-> "count", n |-> Len(files[f].rows)]
    BY <2>1 DEF MeasuredVectorCount, NpyRowCount, IfThere, Count, Got
  <2>3. ASSUME NEW beside \in {data.meta, data.twin} \ {<<>>}
        PROVE  /\ DOMAIN beside = DOMAIN data.rows
               /\ \A i \in DOMAIN beside : beside[i] \in {data.rows[i], Blank}
    <3>1. /\ beside = files[g].rows /\ Len(files[g].rows) = Len(files[f].rows)
          /\ \A i \in DOMAIN files[g].rows : files[g].rows[i] # Broken
      BY <1>2
    <3> QED
      BY <1>1, <1>2, <2>1, <3>1, RowsInPlace
  <2> HIDE DEF data
  <2> QED
    BY <1>1, <1>2, <2>1, <2>2, <2>3, MatrixMeasured
<1>3. CASE ds.layout = "tar"
  <2>1. CompoundData.ok /\ data = CompoundData
    BY <1>3 DEF LoadAll, CompoundStream, NoCorpus, Corpus, Failed
  <2>2. "payloads.jsonl" \in Reads(ds.layout)
    BY <1>3 DEF Reads
  <2>3. CASE ~Opens("payloads.jsonl")
    <3>1. data = Alone(Whole(f))
      BY <2>1, <2>3 DEF CompoundData, NpyVectors
    <3> QED
      BY <1>1, <1>2, <2>1, <3>1, AloneFacts
  <2>4. CASE Opens("payloads.jsonl")
    <3> DEFINE meta == VisitPayloads("payloads.jsonl")
    <3>1. data = Corpus(Whole(f), meta, Got(<<>>)) /\ Len(meta.rows) = Len(Whole(f).rows)
      BY <2>1, <2>4 DEF CompoundData, NpyVectors, NoCorpus, Corpus, Failed
    <3>2. /\ Whole(f).ok /\ meta.ok /\ data.rows = Whole(f).rows /\ data.meta = meta.rows /\ data.twin = <<>>
      BY <2>1, <3>1, CorpusFacts DEF Got
    <3>3. meta.rows = files["payloads.jsonl"].rows /\ Parses("payloads.jsonl")
      BY <3>2 DEF VisitPayloads, Got, Failed
    <3>4. Whole(f).rows = files[f].rows
      BY <1>1, <3>2, WholeFacts
    <3> HIDE DEF data, meta
    <3>5. /\ Len(files["payloads.jsonl"].rows) = Len(files[f].rows)
          /\ \A i \in DOMAIN files["payloads.jsonl"].rows : files["payloads.jsonl"].rows[i] # Broken
      BY <3>1, <3>3, <3>4 DEF Parses
    <3>6. \A beside \in {data.meta, data.twin} \ {<<>>} : beside = files["payloads.jsonl"].rows
      BY <3>2, <3>3
    <3> QED
      BY <1>2, <2>2, <3>2, <3>5, <3>6
  <2> QED
    BY <2>3, <2>4
<1>4. CASE ds.layout = "hybrid"
  <2>1. "data.csr" \in Reads(ds.layout)
    BY <1>4 DEF Reads
  <2>2. data = HybridData
    BY <1>4 DEF LoadAll
  <2>3. data = Corpus(Whole(f), Got(<<>>), Whole("data.csr")) /\ Len(Whole(f).rows) = Len(Whole("data.csr").rows)
    BY <2>2, NoCorpusFact DEF HybridData, NpyVectors, SparseMatrix
  <2>4. /\ Whole(f).ok /\ Whole("data.csr").ok /\ data.rows = Whole(f).rows /\ data.meta = <<>>
        /\ data.twin = Whole("data.csr").rows
    BY <2>3, CorpusFacts DEF Got
  <2>5. Whole(f).rows = files[f].rows /\ Whole("data.csr").rows = files["data.csr"].rows
    BY <1>1, <2>1, <2>4, WholeFacts
  <2>6. \A i \in DOMAIN files["data.csr"].rows : files["data.csr"].rows[i] # Broken
    <3>1. files["data.csr"].rows \in Seq(Int) /\ \A i \in DOMAIN files["data.csr"].rows : files["data.csr"].rows[i] = i
      BY <1>4, <2>1, FileFacts DEF IsLines
    <3> QED
      BY <3>1 DEF Broken
  <2> HIDE DEF data
  <2>7. \A beside \in {data.meta, data.twin} \ {<<>>} : beside = files["data.csr"].rows
    BY <2>4, <2>5
  <2> QED
    BY <1>2, <2>1, <2>3, <2>4, <2>5, <2>6, <2>7
<1> QED
  BY <1>3, <1>4

LEMMA LoadFacts ==
  ASSUME FilesBelong, onDisk, NEW reader, LoadAll(reader).ok PROVE GoodLoad(LoadAll(reader))
<1>1. ds.layout \in Layouts
  BY DatasetFacts DEF IsDataset
<1>2. ds.layout # "h5-multi"
  BY DEF LoadAll, NoCorpus, Corpus, Failed
<1> QED
  BY <1>1, <1>2, PlainLoad, JsonlLoad, PairLoad DEF Layouts

\* What a measured count says of the vectors.
LEMMA MeasuredFacts ==
  ASSUME FilesBelong, MeasuredVectorCount.kind = "count"
  PROVE  /\ MeasuredVectorCount.n \in Nat
         /\ MeasuredVectorCount = [kind |-> "count", n |-> MeasuredVectorCount.n]
         /\ ds.layout # "jsonl" => MeasuredVectorCount.n >= ds.size
<1> DEFINE f == Vectors(ds.layout)
<1>1. ds.layout \in Layouts /\ ds.layout # "h5-multi" /\ onDisk
  BY DatasetFacts DEF IsDataset, MeasuredVectorCount, Unknown
<1>2. f \in Reads(ds.layout) /\ (ds.layout # "jsonl" => ~IsLines(f))
  BY <1>1 DEF Vectors, Reads, Layouts, IsLines
<1>3. CASE ds.layout = "jsonl"
  <2>1. f = "vectors.jsonl"
    BY <1>3 DEF Vectors
  <2>2. MeasuredVectorCount = IfThere("vectors.jsonl", Got(Filled(files["vectors.jsonl"].rows)))
    BY <1>1, <1>3 DEF MeasuredVectorCount, CountedLines
  <2>3. MeasuredVectorCount = [kind |-> "count", n |-> Len(Filled(files["vectors.jsonl"].rows))]
    BY <2>2 DEF IfThere, Count, Got, Unknown
  <2>4. Len(Filled(files["vectors.jsonl"].rows)) \in Nat
    BY <1>2, <2>1, FileFacts, FilledLength
  <2> QED
    BY <1>3, <2>3, <2>4
<1>4. CASE ds.layout = "hdf5"
  <2>1. f = "file.hdf5" /\ MeasuredVectorCount = Count(Hdf5("file.hdf5"))
    BY <1>1, <1>4 DEF MeasuredVectorCount, Vectors
  <2>2. MeasuredVectorCount = [kind |-> "count", n |-> Len(files[f].rows)] /\ files[f].at = "whole"
    BY <2>1 DEF Count, Hdf5, Got, Failed
  <2> QED
    BY <1>2, <1>4, <2>2, FileFacts
<1>5. CASE ds.layout \notin {"jsonl", "hdf5"}
  <2>1. MeasuredVectorCount = IfThere(f, HeaderRows(f))
    BY <1>1, <1>5 DEF MeasuredVectorCount, Vectors, NpyRowCount, CsrRowCount, MvecRowCount, Layouts
  <2>2. MeasuredVectorCount = [kind |-> "count", n |-> Len(files[f].rows)] /\ files[f].at # "absent"
    BY <2>1 DEF IfThere, Count, HeaderRows, Got, Failed, Unknown, Opens
  <2> QED
    BY <1>2, <1>5, <2>2, FileFacts
<1> QED
  BY <1>3, <1>4, <1>5

\* The shared-corpus gate: keys enough for the target are keys enough for the corpus.
LEMMA GateFacts ==
  ASSUME FilesBelong, CorpusCompletenessTarget.kind = "count", CorpusCompletenessTarget.n > 0,
         keys >= CorpusCompletenessTarget.n
  PROVE  /\ ds.layout # "jsonl" => keys >= ds.size
         /\ ds.layout = "jsonl" /\ keys < ds.declared => ValidateVectorCount = "short"
<1>1. /\ ds.layout \in Layouts /\ ds.declared \in Nat /\ keys \in Nat /\ ds.size \in Nat
      /\ ds.layout = "h5-multi" => keys = 0
  BY DatasetFacts DEF IsDataset, FilesBelong
<1>2. CASE MeasuredVectorCount.kind = "count"
  <2>1. CorpusCompletenessTarget = MeasuredVectorCount
    BY <1>2 DEF CorpusCompletenessTarget, Unknown
  <2>2. /\ MeasuredVectorCount.n \in Nat
        /\ MeasuredVectorCount = [kind |-> "count", n |-> MeasuredVectorCount.n]
        /\ ds.layout # "jsonl" => MeasuredVectorCount.n >= ds.size
    BY <1>2, MeasuredFacts
  <2>3. MeasuredVectorCount.n < ds.declared => ValidateVectorCount = "short"
    BY <2>2, DatasetFacts, CountVerdict
  <2> QED
    BY <1>1, <2>1, <2>2, <2>3
<1>3. CASE MeasuredVectorCount.kind # "count"
  <2>1. /\ MeasuredVectorCount.kind = "unknown" /\ UnmeasurableCorpusIsPresent /\ ds.declared > 0
        /\ CorpusCompletenessTarget = [kind |-> "count", n |-> ds.declared]
    BY <1>3 DEF CorpusCompletenessTarget, Unknown
  <2>2. ds.layout \in {"sparse", "multivector", "h5-multi"}
    BY <2>1 DEF UnmeasurableCorpusIsPresent
  <2>3. CASE ds.layout \in {"sparse", "multivector"}
    <3> DEFINE f == Vectors(ds.layout)
    <3>1. Opens(f) /\ f \in Reads(ds.layout)
      BY <2>1, <2>3 DEF UnmeasurableCorpusIsPresent, Vectors, Reads
    <3>2. onDisk
      BY <3>1 DEF FilesBelong, Opens
    <3>3. MeasuredVectorCount = Count(HeaderRows(f))
      BY <2>3, <3>1, <3>2 DEF MeasuredVectorCount, Vectors, IfThere, CsrRowCount, MvecRowCount
    <3> QED
      BY <2>1, <3>3 DEF Count
  <2>4. CASE ds.layout = "h5-multi"
    BY <1>1, <2>1, <2>4
  <2> QED
    BY <2>2, <2>3, <2>4
<1> QED
  BY <1>2, <1>3

\* Two sequences that count up to the same number.
LEMMA SameCount ==
  ASSUME NEW a \in Seq(Int), NEW b \in Seq(Int), Len(a) = Len(b),
         \A i \in DOMAIN a : a[i] = i, \A i \in DOMAIN b : b[i] = i
  PROVE  a = b
  OBVIOUS

LEMMA RowForRowFacts ==
  ASSUME NEW q, NEW t, RowForRow(Asked(q, t)).ok
  PROVE  /\ q.ok /\ t.ok /\ Len(q.rows) = Len(t.rows)
         /\ RowForRow(Asked(q, t)).queries = q.rows /\ RowForRow(Asked(q, t)).truth = t.rows
  BY DEF RowForRow, Asked, NoQueries

LEMMA StrictFacts ==
  ASSUME NEW f, NeighboursStrict(f).ok
  PROVE  /\ NeighboursStrict(f).rows = files[f].rows
         /\ \A i \in DOMAIN files[f].rows : files[f].rows[i] \notin {Blank, Broken}
  BY DEF NeighboursStrict, Got, Failed, Parses

\* The truth is that of the queries, in every layout but jsonl.
LEMMA QueryFacts ==
  ASSUME FilesBelong, ReadQueries.ok, ds.layout # "jsonl"
  PROVE  ReadQueries.truth = ReadQueries.queries
<1>1. ds.layout \in Layouts /\ ds.declared \in Nat
  BY DatasetFacts DEF IsDataset
<1>2. CASE ds.layout = "tar"
  BY <1>2 DEF ReadQueries, CompoundQueries, Asked
<1>3. CASE ds.layout = "hdf5"
  BY <1>3 DEF ReadQueries, Hdf5Queries, Asked
<1>4. CASE ds.layout \in {"npy", "h5-multi"}
  BY <1>4 DEF ReadQueries, NoQueries
<1>5. ASSUME NEW q \in Reads(ds.layout), NEW t \in Reads(ds.layout), ~IsLines(q), q \notin {"neighbours.jsonl", "results.gt"},
             NEW truth, truth.ok => truth.rows = files[t].rows /\ \A i \in DOMAIN files[t].rows : files[t].rows[i] = i,
             RowForRow(Asked(Whole(q), truth)).ok
      PROVE  RowForRow(Asked(Whole(q), truth)).truth = RowForRow(Asked(Whole(q), truth)).queries
  <2>1. /\ Whole(q).ok /\ truth.ok /\ Len(Whole(q).rows) = Len(truth.rows)
        /\ RowForRow(Asked(Whole(q), truth)).queries = Whole(q).rows
        /\ RowForRow(Asked(Whole(q), truth)).truth = truth.rows
    BY <1>5, RowForRowFacts
  <2>2. Whole(q).rows = files[q].rows
    BY <1>5, <2>1, WholeFacts
  <2>3. files[q].rows \in Seq(Int) /\ \A i \in DOMAIN files[q].rows : files[q].rows[i] = i
    BY <1>5, FileFacts
  <2>4. files[t].rows \in Seq(Int)
    BY <1>5, FileFacts
  <2> QED
    BY <1>5, <2>1, <2>2, <2>3, <2>4, SameCount
<1>6. ASSUME "neighbours.jsonl" \in Reads(ds.layout), NeighboursStrict("neighbours.jsonl").ok,
             ds.layout # "sparse" \/ ~(ds.declared > 0 /\ files["neighbours.jsonl"].top >= ds.declared)
      PROVE  /\ NeighboursStrict("neighbours.jsonl").rows = files["neighbours.jsonl"].rows
             /\ \A i \in DOMAIN files["neighbours.jsonl"].rows : files["neighbours.jsonl"].rows[i] = i
  BY <1>1, <1>6, StrictFacts, FileFacts
<1>7. CASE ds.layout = "multivector"
  <2>1. ReadQueries = RowForRow(Asked(Whole("queries.mvec"), NeighboursStrict("neighbours.jsonl")))
    BY <1>7 DEF ReadQueries, MultivectorQueries, MultivectorMatrix
  <2>2. {"queries.mvec", "neighbours.jsonl"} \subseteq Reads(ds.layout) /\ ~IsLines("queries.mvec")
    BY <1>7 DEF Reads, IsLines
  <2> QED
    BY <1>5, <1>6, <1>7, <2>1, <2>2
<1>8. CASE ds.layout = "hybrid"
  <2>1. ReadQueries = RowForRow(Asked(Whole("queries.npy"), NeighboursStrict("neighbours.jsonl")))
    BY <1>8 DEF ReadQueries, HybridQueries, NpyVectors, NoQueries
  <2>2. {"queries.npy", "neighbours.jsonl"} \subseteq Reads(ds.layout) /\ ~IsLines("queries.npy")
    BY <1>8 DEF Reads, IsLines
  <2> QED
    BY <1>5, <1>6, <1>8, <2>1, <2>2
<1>9. CASE ds.layout = "sparse"
  <2>1. {"queries.csr", "neighbours.jsonl", "results.gt"} \subseteq Reads(ds.layout) /\ ~IsLines("queries.csr") /\ ~IsLines("results.gt")
    BY <1>9 DEF Reads, IsLines
  <2>2. ReadQueries = SparseQueries
    BY <1>9 DEF ReadQueries
  <2>3. CASE Opens("neighbours.jsonl")
    <3>1. /\ ~(ds.declared > 0 /\ files["neighbours.jsonl"].top >= ds.declared)
          /\ ReadQueries = RowForRow(Asked(Whole("queries.csr"), NeighboursStrict("neighbours.jsonl")))
      BY <2>2, <2>3 DEF SparseQueries, SparseMatrix, NoQueries
    <3> QED
      BY <1>5, <1>6, <2>1, <3>1
  <2>4. CASE ~Opens("neighbours.jsonl")
    <3>1. /\ ~(ds.declared > 0 /\ files["results.gt"].top >= ds.declared)
          /\ ReadQueries = RowForRow(Asked(Whole("queries.csr"), Whole("results.gt")))
      BY <2>2, <2>4 DEF SparseQueries, SparseMatrix, NoQueries, GtNeighbours
    <3>2. \A i \in DOMAIN files["results.gt"].rows : files["results.gt"].rows[i] = i
      BY <1>1, <2>1, <3>1, FileFacts
    <3>3. Whole("results.gt").ok => Whole("results.gt").rows = files["results.gt"].rows
      BY <2>1, WholeFacts
    <3> QED
      BY <1>5, <2>1, <3>1, <3>2, <3>3
  <2> QED
    BY <2>3, <2>4
<1> QED
  BY <1>1, <1>2, <1>3, <1>4, <1>7, <1>8, <1>9 DEF Layouts

\* The fields of an invocation that starts, fails or ends.
LEMMA FreshOK ==
  ASSUME FilesBelong, NEW p \in {"off", "gate", "failed", "done"}, NEW flag \in Flags
  PROVE  /\ InvocationOK([Nobody EXCEPT !.at = p, !.flag = flag]) /\ InvocationOK([Nobody EXCEPT !.at = p])
         /\ InvocationOK(Nobody)
<1> DEFINE x == [Nobody EXCEPT !.at = p, !.flag = flag]
           y == [Nobody EXCEPT !.at = p]
<1>1. /\ DOMAIN x = Fields /\ x.at = p /\ x.flag = flag /\ x.snapshot = "none" /\ x.warned = FALSE /\ x.rewritten = FALSE
      /\ x.via = "none" /\ x.asked = FALSE /\ x.readers = {}
  BY DEF Nobody, Fields
<1>2. /\ DOMAIN y = Fields /\ y.at = p /\ y.flag = "auto" /\ y.snapshot = "none" /\ y.warned = FALSE /\ y.rewritten = FALSE
      /\ y.via = "none" /\ y.asked = FALSE /\ y.readers = {}
  BY DEF Nobody, Fields
<1>3. /\ DOMAIN Nobody = Fields /\ Nobody.at = "off" /\ Nobody.flag = "auto" /\ Nobody.snapshot = "none"
      /\ Nobody.warned = FALSE /\ Nobody.rewritten = FALSE
      /\ Nobody.via = "none" /\ Nobody.asked = FALSE /\ Nobody.readers = {}
  BY DEF Nobody, Fields
<1>4. ASSUME NEW z, DOMAIN z = Fields, z.at \in {"off", "gate", "failed", "done"}, z.flag \in Flags, z.snapshot = "none",
             z.warned = FALSE, z.rewritten = FALSE, z.via = "none", z.asked = FALSE, z.readers = {}
      PROVE  InvocationOK(z)
  BY <1>4 DEF InvocationOK, Placed, Checked, Loaded, Scored, OneWay, Places
<1> HIDE DEF x, y
<1>5. InvocationOK(x) /\ InvocationOK(y) /\ InvocationOK(Nobody)
  BY <1>1, <1>2, <1>3, <1>4 DEF Flags
<1> QED
  BY <1>5 DEF x, y

\* The count check is about the files alone.
LEMMA SameVerdict ==
  ASSUME UNCHANGED <<ds, files, onDisk>> PROVE ValidateVectorCount' = ValidateVectorCount
<1>1. MeasuredVectorCount' = MeasuredVectorCount
  BY DEF MeasuredVectorCount, IfThere, Count, Opens, NpyRowCount, CsrRowCount, MvecRowCount, HeaderRows, Hdf5,
         CountedLines, Filled, Got, Failed, Unknown
<1> QED
  BY <1>1 DEF ValidateVectorCount, CompareCounts

LEMMA SameKind == ASSUME ds' = ds PROVE Provided' = Provided /\ SourceKind' = SourceKind
<1>1. Provided' = Provided
  BY DEF Provided
<1> QED
  BY <1>1 DEF SourceKind

\* What a state says of x, when the files stay or x does not depend on them.
LEMMA Stable ==
  ASSUME ds' = ds, onDisk \in BOOLEAN, onDisk' \in BOOLEAN, onDisk => onDisk', NEW x, InvocationOK(x),
         (x.at = "load" /\ ~x.rewritten) => UNCHANGED files
  PROVE  InvocationOK(x)'
<1>1. Placed(x)'
  BY SameKind DEF InvocationOK, Placed
<1>2. Checked(x)'
  <2> SUFFICES ASSUME x.at = "load", ~x.rewritten, ds.layout # "sparse"
               PROVE  ValidateVectorCount' # "err" /\ (ValidateVectorCount' = "short" => x.warned)
    BY DEF Checked
  <2>1. onDisk' = onDisk
    BY DEF InvocationOK, Placed
  <2> QED
    BY <2>1, SameVerdict DEF InvocationOK, Checked
<1>3. Loaded(x)' /\ Scored(x)'
  BY DEF InvocationOK, Loaded, Scored
<1>4. OneWay(x)'
  BY SameKind DEF InvocationOK, OneWay, AutoStreams, InMemoryFits
<1> QED
  BY <1>1, <1>2, <1>3, <1>4 DEF InvocationOK

\* The mark of a rewritten corpus.
LEMMA MarkedOK ==
  ASSUME NEW x, InvocationOK(x), x.at = "load" PROVE InvocationOK([x EXCEPT !.rewritten = TRUE])
<1> DEFINE y == [x EXCEPT !.rewritten = TRUE]
<1>1. DOMAIN x = Fields
  BY DEF InvocationOK, Placed
<1>2. /\ DOMAIN y = Fields /\ y.at = x.at /\ y.flag = x.flag /\ y.snapshot = x.snapshot /\ y.warned = x.warned
      /\ y.rewritten = TRUE /\ y.via = x.via /\ y.asked = x.asked /\ y.readers = x.readers /\ y.pos = x.pos
      /\ y.truth = x.truth /\ y.queries = x.queries
  BY <1>1 DEF Fields
<1>3. x.via = "none"
  BY DEF InvocationOK, Loaded
<1> HIDE DEF y
<1>4. InvocationOK(y)
  BY <1>2, <1>3 DEF InvocationOK, Placed, Checked, Loaded, Scored, OneWay
<1> QED
  BY <1>4 DEF y

\* A step of r that leaves the directory alone.
LEMMA OwnStep ==
  ASSUME SourceIInv, NEW r \in Runs, NEW y, InvocationOK(y), inv' = [inv EXCEPT ![r] = y],
         UNCHANGED <<ds, files, onDisk, memory>>, keys' \in Nat, ds.layout = "h5-multi" => keys' = 0
  PROVE  SourceIInv'
<1>1. FilesBelong'
  BY SameKind DEF SourceIInv, FilesBelong
<1>2. onDisk \in BOOLEAN /\ onDisk' \in BOOLEAN
  BY DEF SourceIInv, FilesBelong
<1>3. ASSUME NEW s \in Runs PROVE InvocationOK(inv[s])'
  <2>1. PICK z : z = inv'[s]
    OBVIOUS
  <2>2. InvocationOK(z)
    BY <2>1 DEF SourceIInv
  <2>3. InvocationOK(z)'
    BY <1>2, <2>2, Stable
  <2> QED
    BY <2>1, <2>3
<1> QED
  BY <1>1, <1>3 DEF SourceIInv

\* A step of r that writes a file: everybody between check and read is marked.
LEMMA FileWritten ==
  ASSUME SourceIInv, FilesBelong', NEW r \in Runs, NEW y, InvocationOK(y)', y.at # "load",
         inv' = Rewritten([inv EXCEPT ![r] = y]), ds' = ds, onDisk => onDisk'
  PROVE  SourceIInv'
<1>1. onDisk \in BOOLEAN /\ onDisk' \in BOOLEAN
  BY DEF SourceIInv, FilesBelong
<1>2. ASSUME NEW s \in Runs PROVE InvocationOK(inv[s])'
  <2>1. CASE s = r
    <3>1. inv'[s] = y
      BY <2>1 DEF Rewritten, SourceIInv
    <3> QED
      BY <3>1
  <2>2. CASE s # r /\ inv[s].at # "load"
    <3>1. PICK z : z = inv[s]
      OBVIOUS
    <3>2. inv'[s] = z
      BY <2>2, <3>1 DEF Rewritten, SourceIInv
    <3>3. InvocationOK(z) /\ z.at # "load"
      BY <2>2, <3>1 DEF SourceIInv
    <3>4. InvocationOK(z)'
      BY <1>1, <3>3, Stable
    <3> QED
      BY <3>2, <3>4
  <2>3. CASE s # r /\ inv[s].at = "load"
    <3>1. PICK z : z = [inv[s] EXCEPT !.rewritten = TRUE]
      OBVIOUS
    <3>2. inv'[s] = z
      BY <2>3, <3>1 DEF Rewritten, SourceIInv
    <3>3. InvocationOK(inv[s]) /\ DOMAIN inv[s] = Fields
      BY DEF SourceIInv, InvocationOK, Placed
    <3>4. InvocationOK(z) /\ z.rewritten = TRUE
      BY <2>3, <3>1, <3>3, MarkedOK DEF Fields
    <3>5. InvocationOK(z)'
      BY <1>1, <3>4, Stable
    <3> QED
      BY <3>2, <3>5
  <2> QED
    BY <2>1, <2>2, <2>3
<1>3. DOMAIN inv' = Runs
  BY DEF Rewritten
<1> QED
  BY <1>2, <1>3 DEF SourceIInv

\* A step to another place with nothing else of interest changed.
LEMMA MovedOK ==
  ASSUME NEW x, InvocationOK(x), NEW y, DOMAIN y = Fields, y.flag = x.flag, y.snapshot = x.snapshot,
         y.warned = x.warned, y.rewritten = x.rewritten, y.asked = x.asked, y.queries = x.queries,
         y.truth = x.truth, y.readers = x.readers, y.via = "none", y.at \in Places \ {"load"},
         y.at \in {"fetch", "create", "unpack", "write"} => ds.link # "none" /\ ~Provided,
         y.at \in {"unpack", "write"} => y.pos \in 1..Len(ds.members),
         y.at \in {"write", "validate"} => onDisk
  PROVE  InvocationOK(y)
  BY DEF InvocationOK, Placed, Checked, Loaded, Scored, OneWay

\* The fields an invocation has.
LEMMA FieldsOf ==
  ASSUME SourceIInv, NEW r \in Runs
  PROVE  /\ InvocationOK(inv[r]) /\ Placed(inv[r]) /\ DOMAIN inv[r] = Fields /\ DOMAIN inv = Runs
         /\ FilesBelong /\ keys \in Nat /\ (ds.layout = "h5-multi" => keys = 0)
         /\ inv[r].at \notin {"queries", "searched"} => inv[r].via = "none"
  BY DEF SourceIInv, InvocationOK, Placed, FilesBelong, Loaded

LEMMA StartRunKeeps ==
  ASSUME SourceIInv, NEW r \in Runs, NEW flag \in ds.flags, StartRun(r, flag) PROVE SourceIInv'
<1>1. FilesBelong /\ flag \in Flags
  BY FieldsOf, DatasetFacts DEF IsDataset
<1>2. InvocationOK([Nobody EXCEPT !.at = "gate", !.flag = flag])
  BY <1>1, FreshOK
<1> QED
  BY <1>2, OwnStep, FieldsOf DEF StartRun, Set, Stays

LEMMA EndInErrorOK == ASSUME FilesBelong PROVE InvocationOK(EndInError)
  BY FreshOK DEF EndInError, Flags

\* A step of r alone, to a state that is in order.
LEMMA SetKeeps ==
  ASSUME SourceIInv, NEW r \in Runs, NEW y, InvocationOK(y), Set(r, y), UNCHANGED <<ds, files, onDisk, memory, keys>>
  PROVE  SourceIInv'
  BY OwnStep, FieldsOf DEF Set

LEMMA ResolvePathKeeps == ASSUME SourceIInv, NEW r \in Runs, ResolvePath(r) PROVE SourceIInv'
<1>1. /\ InvocationOK(inv[r]) /\ DOMAIN inv[r] = Fields /\ FilesBelong /\ inv[r].via = "none"
  BY FieldsOf DEF ResolvePath
<1> DEFINE v == [inv[r] EXCEPT !.at = "validate"]
           w == [inv[r] EXCEPT !.at = "fetch", !.tries = 0]
<1>2. ASSUME onDisk PROVE InvocationOK(v)
  <2>1. /\ DOMAIN v = Fields /\ v.flag = inv[r].flag /\ v.snapshot = inv[r].snapshot
        /\ v.warned = inv[r].warned /\ v.rewritten = inv[r].rewritten /\ v.asked = inv[r].asked
        /\ v.queries = inv[r].queries /\ v.truth = inv[r].truth /\ v.readers = inv[r].readers
        /\ v.via = inv[r].via /\ v.at = "validate"
    BY <1>1 DEF Fields
  <2> HIDE DEF v
  <2> QED
    BY <1>1, <1>2, <2>1, MovedOK DEF Places
<1>3. ASSUME ~onDisk, ds.link # "none" PROVE InvocationOK(w)
  <2>1. /\ DOMAIN w = Fields /\ w.flag = inv[r].flag /\ w.snapshot = inv[r].snapshot
        /\ w.warned = inv[r].warned /\ w.rewritten = inv[r].rewritten /\ w.asked = inv[r].asked
        /\ w.queries = inv[r].queries /\ w.truth = inv[r].truth /\ w.readers = inv[r].readers
        /\ w.via = inv[r].via /\ w.at = "fetch"
    BY <1>1 DEF Fields
  <2>2. ~Provided
    BY <1>1, <1>3 DEF FilesBelong
  <2> HIDE DEF w
  <2> QED
    BY <1>1, <1>3, <2>1, <2>2, MovedOK DEF Places
<1>4. InvocationOK(EndInError)
  BY <1>1, EndInErrorOK
<1> HIDE DEF v, w
<1>5. /\ \/ Set(r, EndInError) \/ (onDisk /\ Set(r, v)) \/ (~onDisk /\ ds.link # "none" /\ Set(r, w))
      /\ UNCHANGED <<ds, files, onDisk, memory, keys>>
  BY DEF ResolvePath, v, w, Stays
<1> QED
  BY <1>2, <1>3, <1>4, <1>5, SetKeeps

LEMMA FetchKeeps == ASSUME SourceIInv, NEW r \in Runs, Fetch(r) PROVE SourceIInv'
<1>1. /\ InvocationOK(inv[r]) /\ Placed(inv[r]) /\ DOMAIN inv[r] = Fields /\ FilesBelong /\ inv[r].via = "none"
      /\ inv[r].at = "fetch"
  BY FieldsOf DEF Fetch
<1>2. ds.link # "none" /\ ~Provided
  BY <1>1 DEF Placed
<1>3. ASSUME NEW body PROVE InvocationOK([inv[r] EXCEPT !.at = "create", !.tmp = body])
  <2> DEFINE v == [inv[r] EXCEPT !.at = "create", !.tmp = body]
  <2>1. /\ DOMAIN v = Fields /\ v.flag = inv[r].flag /\ v.snapshot = inv[r].snapshot
        /\ v.warned = inv[r].warned /\ v.rewritten = inv[r].rewritten /\ v.asked = inv[r].asked
        /\ v.queries = inv[r].queries /\ v.truth = inv[r].truth /\ v.readers = inv[r].readers
        /\ v.via = inv[r].via /\ v.at = "create"
    BY <1>1 DEF Fields
  <2> HIDE DEF v
  <2>2. InvocationOK(v)
    BY <1>1, <1>2, <2>1, MovedOK DEF Places
  <2> QED
    BY <2>2 DEF v
<1>4. InvocationOK([inv[r] EXCEPT !.tries = @ + 1])
  <2> DEFINE v == [inv[r] EXCEPT !.tries = @ + 1]
  <2>1. /\ DOMAIN v = Fields /\ v.flag = inv[r].flag /\ v.snapshot = inv[r].snapshot
        /\ v.warned = inv[r].warned /\ v.rewritten = inv[r].rewritten /\ v.asked = inv[r].asked
        /\ v.queries = inv[r].queries /\ v.truth = inv[r].truth /\ v.readers = inv[r].readers
        /\ v.via = inv[r].via /\ v.at = inv[r].at
    BY <1>1 DEF Fields
  <2> HIDE DEF v
  <2>2. InvocationOK(v)
    BY <1>1, <1>2, <2>1, MovedOK DEF Places
  <2> QED
    BY <2>2 DEF v
<1>5. InvocationOK(EndInError)
  BY <1>1, EndInErrorOK
<1>6. InvocationOK(WithRetries(r))
  BY <1>4, <1>5 DEF WithRetries
<1>7. UNCHANGED <<ds, files, onDisk, memory, keys>>
  BY DEF Fetch, Stays
<1>8. CASE Set(r, WithRetries(r))
  BY <1>6, <1>7, <1>8, SetKeeps
<1>9. ASSUME NEW body, Set(r, [inv[r] EXCEPT !.at = "create", !.tmp = body]) PROVE SourceIInv'
  BY <1>3, <1>7, <1>9, SetKeeps
<1> QED
  BY <1>8, <1>9 DEF Fetch

\* CreateTarget does not write a file: nobody between check and read is disturbed.
LEMMA CreateTargetKeeps == ASSUME SourceIInv, NEW r \in Runs, CreateTarget(r) PROVE SourceIInv'
<1>1. /\ InvocationOK(inv[r]) /\ Placed(inv[r]) /\ DOMAIN inv[r] = Fields /\ DOMAIN inv = Runs /\ FilesBelong
      /\ inv[r].via = "none" /\ inv[r].at = "create"
  BY FieldsOf DEF CreateTarget
<1>2. ds.link # "none" /\ ~Provided /\ 1 \in 1..Len(ds.members)
  <2>1. ds.link # "none" /\ ~Provided
    BY <1>1 DEF Placed
  <2> QED
    BY <1>1, <2>1, DatasetFacts DEF IsDataset
<1>3. UNCHANGED <<ds, files, memory, keys>> /\ onDisk' \in BOOLEAN /\ (onDisk => onDisk') /\ onDisk \in BOOLEAN
  BY <1>1 DEF CreateTarget, Stays, FilesBelong
<1>4. FilesBelong'
  BY <1>1, <1>3, SameKind DEF FilesBelong
<1>5. InvocationOK([inv[r] EXCEPT !.at = "unpack", !.pos = 1])
  <2> DEFINE v == [inv[r] EXCEPT !.at = "unpack", !.pos = 1]
  <2>1. /\ DOMAIN v = Fields /\ v.flag = inv[r].flag /\ v.snapshot = inv[r].snapshot
        /\ v.warned = inv[r].warned /\ v.rewritten = inv[r].rewritten /\ v.asked = inv[r].asked
        /\ v.queries = inv[r].queries /\ v.truth = inv[r].truth /\ v.readers = inv[r].readers
        /\ v.via = inv[r].via /\ v.at = "unpack" /\ v.pos = 1
    BY <1>1 DEF Fields
  <2> HIDE DEF v
  <2>2. InvocationOK(v)
    BY <1>1, <1>2, <2>1, MovedOK DEF Places
  <2> QED
    BY <2>2 DEF v
<1>6. inv' = [inv EXCEPT ![r] = [inv[r] EXCEPT !.at = "unpack", !.pos = 1]]
  BY DEF CreateTarget, Set
<1>7. ASSUME NEW s \in Runs PROVE InvocationOK(inv[s])'
  <2>1. PICK z : z = inv'[s]
    OBVIOUS
  <2>2. InvocationOK(z)
    BY <1>1, <1>5, <1>6, <2>1 DEF SourceIInv
  <2>3. InvocationOK(z)'
    BY <1>3, <2>2, Stable
  <2> QED
    BY <2>1, <2>3
<1> QED
  BY <1>1, <1>4, <1>6, <1>7 DEF SourceIInv

\* A file cut short could still be part of the dataset.
LEMMA CutBelongs ==
  ASSUME FilesBelong, NEW f \in Reads(ds.layout), ds.archive[f].at # "absent",
         NEW c \in Cuts(f, ds.archive[f])
  PROVE  Belongs(ds, f, c) /\ (~IsLines(f) => c.at \in {"stub", "torn"})
<1> DEFINE whole == ds.archive[f]
<1>1. Belongs(ds, f, whole)
  BY DatasetFacts DEF IsDataset
<1> HIDE DEF whole
<1>2. whole \in [at : {"absent", "whole", "torn", "stub", "fortran"}, rows : Seq(Int), top : Nat]
  BY <1>1 DEF Belongs
<1>3. CASE ~IsLines(f)
  <2>1. c.at \in {"stub", "torn"} /\ c.rows = whole.rows /\ c.top = whole.top
        /\ c \in [at : {"absent", "whole", "torn", "stub", "fortran"}, rows : Seq(Int), top : Nat]
    BY <1>2, <1>3 DEF Cuts, whole
  <2> QED
    BY <1>1, <1>3, <2>1 DEF Belongs, whole
<1>4. CASE IsLines(f)
  <2>1. PICK n \in 0..(Len(whole.rows) - 1) :
          c \in {[whole EXCEPT !.rows = SubSeq(@, 1, n)], [whole EXCEPT !.rows = Append(SubSeq(@, 1, n), Broken)]}
    BY <1>4 DEF Cuts, whole
  <2>2. /\ SubSeq(whole.rows, 1, n) \in Seq(Int) /\ Len(SubSeq(whole.rows, 1, n)) = n
        /\ \A i \in 1..n : SubSeq(whole.rows, 1, n)[i] = whole.rows[i]
    BY <1>2
  <2>3. PICK p : p = SubSeq(whole.rows, 1, n)
    OBVIOUS
  <2>4. p \in Seq(Int) /\ Len(p) = n /\ \A i \in 1..n : p[i] = whole.rows[i]
    BY <2>2, <2>3
  <2>5. /\ c.rows \in {p, Append(p, Broken)} /\ c.top = whole.top
        /\ c \in [at : {"absent", "whole", "torn", "stub", "fortran"}, rows : Seq(Int), top : Nat]
    <3>1. PICK q \in {p, Append(p, Broken)} : c = [whole EXCEPT !.rows = q]
      BY <2>1, <2>3
    <3>2. Broken \in Int
      BY DEF Broken
    <3>3. q \in Seq(Int)
      <4>1. CASE q = p
        BY <2>4, <4>1
      <4>2. CASE q = Append(p, Broken)
        BY <2>4, <3>2, <4>2
      <4> QED
        BY <3>1, <4>1, <4>2
    <3> QED
      BY <1>2, <3>1, <3>3
  <2>6. n \in Nat /\ n < Len(whole.rows) /\ Len(whole.rows) \in Nat
    BY <1>2, <2>1
  <2>7. \A i \in DOMAIN c.rows : c.rows[i] = Broken \/ (i \in DOMAIN whole.rows /\ c.rows[i] = whole.rows[i])
    <3>1. CASE c.rows = p
      BY <1>2, <2>4, <2>6, <3>1
    <3>2. CASE c.rows = Append(p, Broken)
      BY <1>2, <2>4, <2>6, <3>2 DEF Broken
    <3> QED
      BY <2>5, <3>1, <3>2
  <2> QED
    BY <1>1, <1>4, <2>5, <2>7 DEF Belongs
<1> QED
  BY <1>3, <1>4

\* A file of the download takes the place of another.
LEMMA FileReplaced ==
  ASSUME FilesBelong, NEW f \in Reads(ds.layout), NEW c, Belongs(ds, f, c), ~Provided,
         c.at \in {"stub", "torn", ds.archive[f].at} \/ IsLines(f), files' = [files EXCEPT ![f] = c], onDisk' = TRUE,
         UNCHANGED <<ds, memory, keys>>
  PROVE  FilesBelong'
<1>1. \A g \in Reads(ds.layout) : Belongs(ds, g, files'[g])
  BY DEF FilesBelong
<1>2. ASSUME ds.layout = "tar" PROVE files'["vectors.npy"].at \in {"absent", "stub", "torn", SourceKind}
  <2>1. "vectors.npy" \in Reads(ds.layout) /\ ~IsLines("vectors.npy")
    BY <1>2 DEF Reads, IsLines
  <2> QED
    BY <1>2, <2>1 DEF FilesBelong, SourceKind
<1>3. \A g \in Reads(ds.layout) : Belongs(ds, g, files[g])' 
  BY <1>1 DEF Belongs
<1> QED
  BY <1>1, <1>2, <1>3, SameKind DEF FilesBelong

LEMMA TruncateKeeps == ASSUME SourceIInv, NEW r \in Runs, Truncate(r) PROVE SourceIInv'
<1>1. /\ InvocationOK(inv[r]) /\ Placed(inv[r]) /\ DOMAIN inv[r] = Fields /\ DOMAIN inv = Runs /\ FilesBelong
      /\ inv[r].via = "none" /\ inv[r].at = "unpack"
  BY FieldsOf DEF Truncate
<1>2. ds.link # "none" /\ ~Provided /\ inv[r].pos \in 1..Len(ds.members)
  BY <1>1 DEF Placed
<1> DEFINE f == ds.members[inv[r].pos]
<1>3. f \in Reads(ds.layout) /\ ds.archive[f].at # "absent"
  BY <1>1, <1>2, DatasetFacts DEF IsDataset
<1>4. PICK c \in Cuts(f, ds.archive[f]) : files' = [files EXCEPT ![f] = c]
  BY DEF Truncate
<1>5. onDisk' = TRUE /\ UNCHANGED <<ds, memory, keys>> /\ inv' = Rewritten([inv EXCEPT ![r].at = "write"])
  BY DEF Truncate, Stays
<1> HIDE DEF f
<1>6. Belongs(ds, f, c) /\ (~IsLines(f) => c.at \in {"stub", "torn"})
  BY <1>1, <1>3, CutBelongs
<1>7. FilesBelong'
  BY <1>1, <1>2, <1>3, <1>4, <1>5, <1>6, FileReplaced
<1>8. PICK y : y = [inv[r] EXCEPT !.at = "write"]
  OBVIOUS
<1>9. /\ DOMAIN y = Fields /\ y.flag = inv[r].flag /\ y.snapshot = inv[r].snapshot
      /\ y.warned = inv[r].warned /\ y.rewritten = inv[r].rewritten /\ y.asked = inv[r].asked
      /\ y.queries = inv[r].queries /\ y.truth = inv[r].truth /\ y.readers = inv[r].readers
      /\ y.via = inv[r].via /\ y.at = "write" /\ y.pos = inv[r].pos
  BY <1>1, <1>8 DEF Fields
<1>10. InvocationOK(y)'
  <2>1. Placed(y)'
    BY <1>1, <1>2, <1>5, <1>9, SameKind DEF Placed, Places
  <2>2. Checked(y)' /\ Loaded(y)'
    BY <1>1, <1>9 DEF Checked, Loaded
  <2>3. Scored(y)'
    BY <1>1, <1>5, <1>9 DEF InvocationOK, Scored
  <2>4. OneWay(y)'
    BY <1>1, <1>5, <1>9, SameKind DEF InvocationOK, OneWay, AutoStreams, InMemoryFits
  <2> QED
    BY <2>1, <2>2, <2>3, <2>4 DEF InvocationOK
<1>11. [inv EXCEPT ![r].at = "write"] = [inv EXCEPT ![r] = y]
  BY <1>8
<1> QED
  BY <1>5, <1>7, <1>9, <1>10, <1>11, FileWritten

\* A step of r that writes a file of the archive, to a place where nothing is loaded.
LEMMA UnpackStep ==
  ASSUME SourceIInv, FilesBelong', NEW r \in Runs, NEW y, ds' = ds, onDisk => onDisk',
         inv' = Rewritten([inv EXCEPT ![r] = y]), InvocationOK(y), y.at # "load"
  PROVE  SourceIInv'
<1>1. onDisk \in BOOLEAN /\ onDisk' \in BOOLEAN
  BY DEF SourceIInv, FilesBelong
<1>2. InvocationOK(y)'
  BY <1>1, Stable
<1> QED
  BY <1>2, FileWritten

LEMMA WriteKeeps == ASSUME SourceIInv, NEW r \in Runs, Write(r) PROVE SourceIInv'
<1>1. /\ InvocationOK(inv[r]) /\ Placed(inv[r]) /\ DOMAIN inv[r] = Fields /\ DOMAIN inv = Runs /\ FilesBelong
      /\ inv[r].via = "none" /\ inv[r].at = "write"
  BY FieldsOf DEF Write
<1>2. ds.link # "none" /\ ~Provided /\ inv[r].pos \in 1..Len(ds.members) /\ onDisk
  BY <1>1 DEF Placed
<1> DEFINE f == ds.members[inv[r].pos]
           more == [inv[r] EXCEPT !.at = "unpack", !.pos = @ + 1]
<1>3. f \in Reads(ds.layout) /\ Belongs(ds, f, ds.archive[f]) /\ Len(ds.members) \in Nat
  BY <1>1, <1>2, DatasetFacts DEF IsDataset
<1>4. UNCHANGED <<ds, onDisk, memory, keys>>
  BY DEF Write, Stays
<1>5. InvocationOK(Unpacked(r)) /\ Unpacked(r).at # "load"
  <2> DEFINE v == Unpacked(r)
  <2>1. /\ DOMAIN v = Fields /\ v.flag = inv[r].flag /\ v.snapshot = inv[r].snapshot
        /\ v.warned = inv[r].warned /\ v.rewritten = inv[r].rewritten /\ v.asked = inv[r].asked
        /\ v.queries = inv[r].queries /\ v.truth = inv[r].truth /\ v.readers = inv[r].readers
        /\ v.via = inv[r].via /\ v.at = "resolve"
    BY <1>1 DEF Fields, Unpacked
  <2> HIDE DEF v
  <2>2. InvocationOK(v) /\ v.at # "load"
    BY <1>1, <2>1, MovedOK DEF Places
  <2> QED
    BY <2>2 DEF v
<1>6. ASSUME inv[r].pos < Len(ds.members) PROVE InvocationOK(more) /\ more.at # "load"
  <2>1. /\ DOMAIN more = Fields /\ more.flag = inv[r].flag /\ more.snapshot = inv[r].snapshot
        /\ more.warned = inv[r].warned /\ more.rewritten = inv[r].rewritten /\ more.asked = inv[r].asked
        /\ more.queries = inv[r].queries /\ more.truth = inv[r].truth /\ more.readers = inv[r].readers
        /\ more.via = inv[r].via /\ more.at = "unpack" /\ more.pos = inv[r].pos + 1
    BY <1>1 DEF Fields
  <2>2. more.pos \in 1..Len(ds.members)
    BY <1>2, <1>3, <1>6, <2>1
  <2> HIDE DEF more
  <2> QED
    BY <1>1, <1>2, <2>1, <2>2, MovedOK DEF Places
<1>7. InvocationOK(EndInError)
  BY <1>1, EndInErrorOK
<1> DEFINE y == IF inv[r].pos < Len(ds.members) THEN more ELSE Unpacked(r)
<1>8. InvocationOK(y) /\ y.at # "load"
  BY <1>5, <1>6
<1> HIDE DEF f, more, y
<1>9. CASE Set(r, IF ds.link = "plain" THEN Unpacked(r) ELSE EndInError) /\ UNCHANGED files
  <2>1. InvocationOK(IF ds.link = "plain" THEN Unpacked(r) ELSE EndInError)
    BY <1>5, <1>7
  <2> QED
    BY <1>4, <1>9, <2>1, SetKeeps
<1>10. CASE files' = [files EXCEPT ![f] = ds.archive[f]] /\ inv' = Rewritten([inv EXCEPT ![r] = y])
  <2>1. FilesBelong'
    BY <1>1, <1>2, <1>3, <1>4, <1>10, FileReplaced
  <2> QED
    BY <1>4, <1>8, <1>10, <2>1, UnpackStep
<1> QED
  BY <1>9, <1>10 DEF Write, f, y, more

LEMMA NoGateKeeps == ASSUME SourceIInv, NEW r \in Runs, NoGate(r) PROVE SourceIInv'
<1>1. /\ InvocationOK(inv[r]) /\ DOMAIN inv[r] = Fields /\ inv[r].via = "none"
  BY FieldsOf DEF NoGate
<1> DEFINE v == [inv[r] EXCEPT !.at = "resolve"]
<1>2. /\ DOMAIN v = Fields /\ v.flag = inv[r].flag /\ v.snapshot = inv[r].snapshot
      /\ v.warned = inv[r].warned /\ v.rewritten = inv[r].rewritten /\ v.asked = inv[r].asked
      /\ v.queries = inv[r].queries /\ v.truth = inv[r].truth /\ v.readers = inv[r].readers
      /\ v.via = inv[r].via /\ v.at = "resolve"
  BY <1>1 DEF Fields
<1>3. Set(r, v) /\ UNCHANGED <<ds, files, onDisk, memory, keys>>
  BY DEF NoGate, Stays
<1> HIDE DEF v
<1>4. InvocationOK(v)
  BY <1>1, <1>2, MovedOK DEF Places
<1> QED
  BY <1>3, <1>4, SetKeeps

LEMMA SharedGateKeeps == ASSUME SourceIInv, NEW r \in Runs, SharedGate(r) PROVE SourceIInv'
<1>1. /\ InvocationOK(inv[r]) /\ DOMAIN inv[r] = Fields /\ inv[r].via = "none" /\ FilesBelong /\ keys \in Nat
  BY FieldsOf DEF SharedGate
<1> DEFINE v == [inv[r] EXCEPT !.at = "resolve"]
           short == ValidateVectorCount = "short"
           k == [inv[r] EXCEPT !.at = "queries", !.via = "skip", !.rows = [i \in 1..keys |-> i],
                               !.meta = <<>>, !.twin = <<>>, !.warned = short, !.rewritten = FALSE]
<1>2. InvocationOK(v)
  <2>1. /\ DOMAIN v = Fields /\ v.flag = inv[r].flag /\ v.snapshot = inv[r].snapshot
        /\ v.warned = inv[r].warned /\ v.rewritten = inv[r].rewritten /\ v.asked = inv[r].asked
        /\ v.queries = inv[r].queries /\ v.truth = inv[r].truth /\ v.readers = inv[r].readers
        /\ v.via = inv[r].via /\ v.at = "resolve"
    BY <1>1 DEF Fields
  <2> HIDE DEF v
  <2> QED
    BY <1>1, <2>1, MovedOK DEF Places
<1>3. ASSUME CorpusCompletenessTarget.kind = "count", CorpusCompletenessTarget.n > 0,
             keys >= CorpusCompletenessTarget.n
      PROVE  InvocationOK(k)
  <2>1. /\ DOMAIN k = Fields /\ k.flag = inv[r].flag /\ k.snapshot = inv[r].snapshot
        /\ k.rewritten = FALSE /\ k.asked = inv[r].asked
        /\ k.queries = inv[r].queries /\ k.truth = inv[r].truth /\ k.readers = inv[r].readers
        /\ k.via = "skip" /\ k.at = "queries" /\ k.rows = [i \in 1..keys |-> i] /\ k.meta = <<>> /\ k.twin = <<>>
    BY <1>1 DEF Fields
  <2>2. k.warned \in BOOLEAN /\ (k.warned <=> short)
    BY <1>1 DEF Fields
  <2>3. Len(k.rows) = keys
    BY <1>1, <2>1
  <2>4. /\ ds.layout # "jsonl" => keys >= ds.size
        /\ ds.layout = "jsonl" /\ keys < ds.declared => short
    BY <1>1, <1>3, GateFacts
  <2> HIDE DEF k, short
  <2>5. Placed(k) /\ Checked(k)
    BY <1>1, <2>1, <2>2 DEF InvocationOK, Placed, Checked, Places
  <2>6. Loaded(k)
    BY <1>1, <2>1, <2>2, <2>3, <2>4 DEF Loaded
  <2>7. Scored(k) /\ OneWay(k)
    BY <1>1, <2>1 DEF InvocationOK, Scored, OneWay
  <2> QED
    BY <2>5, <2>6, <2>7 DEF InvocationOK
<1>4. InvocationOK(EndInError)
  BY <1>1, EndInErrorOK
<1> HIDE DEF v, k
<1>5. UNCHANGED <<ds, files, onDisk, memory, keys>>
  BY DEF SharedGate, Stays
<1>6. \/ Set(r, EndInError) \/ Set(r, v)
      \/ /\ Set(r, k) /\ CorpusCompletenessTarget.kind = "count" /\ CorpusCompletenessTarget.n > 0
         /\ keys >= CorpusCompletenessTarget.n
  BY DEF SharedGate, v, k
<1> QED
  BY <1>2, <1>3, <1>4, <1>5, <1>6, SetKeeps

LEMMA ValidateKeeps == ASSUME SourceIInv, NEW r \in Runs, Validate(r) PROVE SourceIInv'
<1>1. /\ InvocationOK(inv[r]) /\ Placed(inv[r]) /\ DOMAIN inv[r] = Fields /\ inv[r].via = "none" /\ FilesBelong
      /\ inv[r].at = "validate"
  BY FieldsOf DEF Validate
<1> DEFINE verdict == IF ds.layout = "sparse" THEN "ok" ELSE ValidateVectorCount
           v == [inv[r] EXCEPT !.at = "load", !.warned = (verdict = "short"), !.rewritten = FALSE]
<1>2. ASSUME verdict # "err" PROVE InvocationOK(v)
  <2>1. /\ DOMAIN v = Fields /\ v.flag = inv[r].flag /\ v.snapshot = inv[r].snapshot
        /\ v.rewritten = FALSE /\ v.asked = inv[r].asked
        /\ v.queries = inv[r].queries /\ v.truth = inv[r].truth /\ v.readers = inv[r].readers
        /\ v.via = inv[r].via /\ v.at = "load"
    BY <1>1 DEF Fields
  <2>2. v.warned \in BOOLEAN /\ (v.warned <=> verdict = "short")
    BY <1>1 DEF Fields
  <2> HIDE DEF v
  <2>3. Placed(v) /\ Checked(v) /\ Loaded(v)
    BY <1>1, <1>2, <2>1, <2>2 DEF Placed, Checked, Loaded, Places
  <2>4. Scored(v) /\ OneWay(v)
    BY <1>1, <2>1 DEF InvocationOK, Scored, OneWay
  <2> QED
    BY <2>3, <2>4 DEF InvocationOK
<1>3. InvocationOK(EndInError)
  BY <1>1, EndInErrorOK
<1>4. /\ UNCHANGED <<ds, files, onDisk, memory, keys>>
      /\ Set(r, IF verdict = "err" THEN EndInError ELSE v)
  BY DEF Validate, Stays
<1> HIDE DEF verdict, v
<1>5. InvocationOK(IF verdict = "err" THEN EndInError ELSE v)
  BY <1>2, <1>3
<1> QED
  BY <1>4, <1>5, SetKeeps

\* A corpus that is read after its check, through a reader the run may use.
LEMMA LoadsKeep ==
  ASSUME SourceIInv, NEW r \in Runs, inv[r].at = "load", NEW reader, NEW chosen, NEW seen \in Memories \cup {"none"},
         Loads(r, reader, chosen, seen), UNCHANGED <<ds, files, onDisk, memory>>,
         ASSUME NEW x, x.flag = inv[r].flag, x.snapshot = seen, x.readers = inv[r].readers \cup chosen, LoadAll(reader).ok
         PROVE  OneWay(x)
  PROVE  SourceIInv'
<1>1. /\ InvocationOK(inv[r]) /\ Placed(inv[r]) /\ Checked(inv[r]) /\ DOMAIN inv[r] = Fields /\ FilesBelong
      /\ keys \in Nat /\ (ds.layout = "h5-multi" => keys = 0) /\ onDisk /\ ds.declared \in Nat
  BY FieldsOf, DatasetFacts DEF Placed, InvocationOK, IsDataset
<1>2. InvocationOK(EndInError)
  BY <1>1, EndInErrorOK
<1> DEFINE data == LoadAll(reader)
           v == [inv[r] EXCEPT !.at = "queries", !.snapshot = seen, !.readers = @ \cup chosen, !.via = "read",
                               !.rows = data.rows, !.meta = data.meta, !.twin = data.twin]
<1>3. ASSUME data.ok PROVE GoodLoad(data)
  BY <1>1, <1>3, LoadFacts
<1>4. ASSUME data.ok PROVE InvocationOK(v)
  <2>1. /\ DOMAIN v = Fields /\ v.flag = inv[r].flag /\ v.snapshot = seen /\ v.warned = inv[r].warned
        /\ v.rewritten = inv[r].rewritten /\ v.asked = inv[r].asked
        /\ v.queries = inv[r].queries /\ v.truth = inv[r].truth /\ v.readers = inv[r].readers \cup chosen
        /\ v.via = "read" /\ v.at = "queries" /\ v.rows = data.rows /\ v.meta = data.meta /\ v.twin = data.twin
    BY <1>1 DEF Fields
  <2>2. OneWay(v)
    BY <1>4, <2>1
  <2>3. GoodLoad(data)
    BY <1>3, <1>4
  <2> HIDE DEF v, data
  <2>4. Placed(v) /\ Checked(v)
    BY <1>1, <2>1 DEF Placed, Checked, Places
  <2>5. Loaded(v)
    BY <1>1, <2>1, <2>3 DEF Loaded, GoodLoad, Checked
  <2>6. Scored(v)
    BY <1>1, <2>1 DEF InvocationOK, Scored
  <2> QED
    BY <2>2, <2>4, <2>5, <2>6 DEF InvocationOK
<1>5. data.ok => Len(data.rows) \in Nat /\ ds.layout # "h5-multi"
  BY <1>3 DEF GoodLoad
<1>6. \/ Set(r, EndInError) /\ UNCHANGED keys
      \/ data.ok /\ Set(r, v) /\ keys' = IF Len(data.rows) > keys THEN Len(data.rows) ELSE keys
      \/ data.ok /\ Set(r, EndInError) /\ keys' \in keys..(IF Len(data.rows) > keys THEN Len(data.rows) ELSE keys)
  BY DEF Loads, Stays
<1> HIDE DEF v, data
<1>7. PICK y : InvocationOK(y) /\ Set(r, y)
  BY <1>2, <1>4, <1>6
<1>8. keys' \in Nat /\ (ds.layout = "h5-multi" => keys' = 0)
  BY <1>1, <1>5, <1>6
<1> QED
  BY <1>7, <1>8, OwnStep DEF Set

\* The reading of the memory is taken once.
LEMMA SnapshotFacts ==
  ASSUME SourceIInv, NEW r \in Runs
  PROVE  Snapshot(r) \in Memories /\ (inv[r].snapshot # "none" => Snapshot(r) = inv[r].snapshot)
  BY FieldsOf DEF Snapshot, Placed, FilesBelong, Memories

\* Readers that were right for a run stay right when the memory is looked at again.
LEMMA OneWayKept ==
  ASSUME NEW x, OneWay(x), NEW y, y.flag = x.flag, y.readers = x.readers,
         x.snapshot # "none" => y.snapshot = x.snapshot
  PROVE  OneWay(y)
  BY DEF OneWay

LEMMA OpenUploadKeeps == ASSUME SourceIInv, NEW r \in Runs, OpenUpload(r) PROVE SourceIInv'
<1>1. /\ InvocationOK(inv[r]) /\ Placed(inv[r]) /\ OneWay(inv[r]) /\ DOMAIN inv[r] = Fields /\ FilesBelong
      /\ inv[r].at = "load" /\ inv[r].flag \in Flags /\ inv[r].snapshot \in Memories \cup {"none"} /\ keys \in Nat
  BY FieldsOf DEF OpenUpload, Placed, InvocationOK
<1>2. UNCHANGED <<ds, files, onDisk, memory>>
  BY DEF OpenUpload, Stays
<1> DEFINE seen == IF inv[r].flag = "auto" THEN Snapshot(r) ELSE inv[r].snapshot
           plan == Plan(inv[r].flag, seen)
<1>3. /\ seen \in Memories \cup {"none"} /\ (inv[r].snapshot # "none" => seen = inv[r].snapshot)
      /\ inv[r].flag = "auto" => seen # "none"
  BY <1>1, SnapshotFacts DEF Memories
<1>4. CASE plan = "err"
  <2>1. Set(r, EndInError) /\ UNCHANGED keys
    BY <1>4 DEF OpenUpload, Stays
  <2> QED
    BY <1>1, <1>2, <2>1, EndInErrorOK, SetKeeps
<1>5. CASE plan # "err"
  <2>1. Loads(r, plan, {plan}, seen)
    BY <1>5 DEF OpenUpload
  <2>2. /\ plan \in {"stream", "memory"}
        /\ plan = "stream" => /\ ds.layout = "tar" /\ Streamable
                              /\ inv[r].flag = "stream" \/ (inv[r].flag = "auto" /\ AutoStreams(seen))
        /\ plan = "memory" =>
             \/ inv[r].flag = "memory"
             \/ inv[r].flag = "auto" /\ (ds.layout # "tar" \/ ~Streamable \/ ~AutoStreams(seen))
    BY <1>1, <1>5 DEF Plan, Flags
  <2>3. ASSUME ds.layout = "tar", ~Streamable, LoadAll("memory").ok PROVE SourceKind = "fortran"
    <3>1. "vectors.npy" \in Reads(ds.layout)
      BY <2>3 DEF Reads
    <3>2. CompoundData.ok
      BY <2>3 DEF LoadAll
    <3>3. Whole("vectors.npy").ok
      <4>1. CASE ~Opens("payloads.jsonl")
        BY <3>2, <4>1, AloneFacts DEF CompoundData, NpyVectors
      <4>2. CASE Opens("payloads.jsonl")
        <5>1. CompoundData = Corpus(Whole("vectors.npy"), VisitPayloads("payloads.jsonl"), Got(<<>>))
          BY <3>2, <4>2, NoCorpusFact DEF CompoundData, NpyVectors
        <5> QED
          BY <3>2, <5>1, CorpusFacts
      <4> QED
        BY <4>1, <4>2
    <3> QED
      BY <1>1, <2>3, <3>1, <3>3, WholeFacts DEF Streamable, FilesBelong
  <2>4. ASSUME ds.layout = "tar", Streamable PROVE SourceKind = "whole"
    BY <1>1, <2>4 DEF Streamable, FilesBelong
  <2> HIDE DEF seen, plan
  <2>5. ASSUME NEW x, x.flag = inv[r].flag, x.snapshot = seen, x.readers = inv[r].readers \cup {plan}, LoadAll(plan).ok
        PROVE  OneWay(x)
    <3>1. x.readers \subseteq {"stream", "memory"}
      BY <1>1, <2>2, <2>5 DEF OneWay
    <3>2. ASSUME "stream" \in x.readers
          PROVE  \/ x.flag = "stream"
                 \/ x.flag = "auto" /\ ds.layout = "tar" /\ SourceKind = "whole" /\ x.snapshot # "none" /\ AutoStreams(x.snapshot)
      <4>1. CASE "stream" \in inv[r].readers
        BY <1>1, <1>3, <2>5, <4>1 DEF OneWay
      <4>2. CASE plan = "stream"
        BY <1>3, <2>2, <2>4, <2>5, <4>2
      <4> QED
        BY <2>5, <3>2, <4>1, <4>2
    <3>3. ASSUME "memory" \in x.readers
          PROVE  \/ x.flag = "memory"
                 \/ x.flag = "auto" /\ ds.layout # "tar"
                 \/ x.flag = "auto" /\ SourceKind = "fortran"
                 \/ x.flag = "auto" /\ x.snapshot # "none" /\ ~AutoStreams(x.snapshot)
      <4>1. CASE "memory" \in inv[r].readers
        BY <1>1, <1>3, <2>5, <4>1 DEF OneWay
      <4>2. CASE plan = "memory"
        BY <1>3, <2>2, <2>3, <2>5, <4>2
      <4> QED
        BY <2>5, <3>3, <4>1, <4>2
    <3> QED
      BY <3>1, <3>2, <3>3 DEF OneWay
  <2> QED
    BY <1>1, <1>2, <1>3, <2>1, <2>5, LoadsKeep
<1> QED
  BY <1>4, <1>5

LEMMA ReadVectorsKeeps == ASSUME SourceIInv, NEW r \in Runs, ReadVectors(r) PROVE SourceIInv'
<1>1. /\ InvocationOK(inv[r]) /\ Placed(inv[r]) /\ OneWay(inv[r]) /\ DOMAIN inv[r] = Fields /\ FilesBelong
      /\ inv[r].at = "load" /\ inv[r].snapshot \in Memories \cup {"none"}
  BY FieldsOf DEF ReadVectors, Placed, InvocationOK
<1>2. UNCHANGED <<ds, files, onDisk, memory>>
  BY DEF ReadVectors, Stays
<1> DEFINE asks == inv[r].flag = "auto" /\ ds.layout = "tar" /\ Streamable
           seen == IF asks THEN Snapshot(r) ELSE inv[r].snapshot
<1>3. seen \in Memories \cup {"none"} /\ (inv[r].snapshot # "none" => seen = inv[r].snapshot)
  BY <1>1, SnapshotFacts
<1>4. \/ Set(r, EndInError) /\ UNCHANGED keys
      \/ Loads(r, "memory", {}, seen)
  BY DEF ReadVectors, Stays
<1> HIDE DEF seen
<1>5. CASE Set(r, EndInError) /\ UNCHANGED keys
  BY <1>1, <1>2, <1>5, EndInErrorOK, SetKeeps
<1>6. CASE Loads(r, "memory", {}, seen)
  <2>1. ASSUME NEW x, x.flag = inv[r].flag, x.snapshot = seen, x.readers = inv[r].readers \cup {}, LoadAll("memory").ok
        PROVE  OneWay(x)
    BY <1>1, <1>3, <2>1, OneWayKept
  <2> QED
    BY <1>1, <1>2, <1>3, <1>6, <2>1, LoadsKeep
<1> QED
  BY <1>4, <1>5, <1>6

LEMMA ReadQuerySetKeeps == ASSUME SourceIInv, NEW r \in Runs, ReadQuerySet(r) PROVE SourceIInv'
<1>1. /\ InvocationOK(inv[r]) /\ DOMAIN inv[r] = Fields /\ FilesBelong /\ inv[r].at = "queries"
  BY FieldsOf DEF ReadQuerySet
<1> DEFINE asked == ReadQueries
           v == [inv[r] EXCEPT !.at = "searched", !.asked = TRUE, !.queries = asked.queries, !.truth = asked.truth]
<1>2. ASSUME asked.ok PROVE InvocationOK(v)
  <2>1. /\ DOMAIN v = Fields /\ v.flag = inv[r].flag /\ v.snapshot = inv[r].snapshot
        /\ v.warned = inv[r].warned /\ v.rewritten = inv[r].rewritten /\ v.asked = TRUE
        /\ v.queries = asked.queries /\ v.truth = asked.truth /\ v.readers = inv[r].readers
        /\ v.via = inv[r].via /\ v.at = "searched" /\ v.rows = inv[r].rows /\ v.meta = inv[r].meta
        /\ v.twin = inv[r].twin
    BY <1>1 DEF Fields
  <2>2. ds.layout # "jsonl" => asked.truth = asked.queries
    BY <1>1, <1>2, QueryFacts
  <2> HIDE DEF v, asked
  <2>3. Placed(v) /\ Checked(v)
    BY <1>1, <2>1 DEF InvocationOK, Placed, Checked, Places
  <2>4. Loaded(v)
    BY <1>1, <2>1 DEF InvocationOK, Loaded
  <2>5. Scored(v) /\ OneWay(v)
    BY <1>1, <2>1, <2>2 DEF InvocationOK, Scored, OneWay
  <2> QED
    BY <2>3, <2>4, <2>5 DEF InvocationOK
<1>3. InvocationOK(EndInError)
  BY <1>1, EndInErrorOK
<1>4. /\ UNCHANGED <<ds, files, onDisk, memory, keys>>
      /\ Set(r, EndInError) \/ (asked.ok /\ Set(r, v))
  BY DEF ReadQuerySet, Stays
<1> HIDE DEF v, asked
<1> QED
  BY <1>2, <1>3, <1>4, SetKeeps

LEMMA NextConfigKeeps == ASSUME SourceIInv, NEW r \in Runs, NextConfig(r) PROVE SourceIInv'
<1>1. /\ InvocationOK(inv[r]) /\ DOMAIN inv[r] = Fields /\ FilesBelong /\ inv[r].at = "searched"
  BY FieldsOf DEF NextConfig
<1> DEFINE v == [inv[r] EXCEPT !.at = "gate", !.configs = @ + 1, !.via = "none", !.asked = FALSE, !.warned = FALSE]
           w == [Nobody EXCEPT !.at = "done"]
<1>2. InvocationOK(v)
  <2>1. /\ DOMAIN v = Fields /\ v.flag = inv[r].flag /\ v.snapshot = inv[r].snapshot
        /\ v.warned = FALSE /\ v.rewritten = inv[r].rewritten /\ v.asked = FALSE
        /\ v.readers = inv[r].readers /\ v.via = "none" /\ v.at = "gate"
    BY <1>1 DEF Fields
  <2> HIDE DEF v
  <2>2. Placed(v) /\ Checked(v) /\ Loaded(v)
    BY <1>1, <2>1 DEF InvocationOK, Placed, Checked, Loaded, Places
  <2>3. Scored(v) /\ OneWay(v)
    BY <1>1, <2>1 DEF InvocationOK, Scored, OneWay
  <2> QED
    BY <2>2, <2>3 DEF InvocationOK
<1>3. InvocationOK(w)
  BY <1>1, FreshOK DEF Flags
<1>4. /\ UNCHANGED <<ds, files, onDisk, memory, keys>>
      /\ Set(r, v) \/ Set(r, w)
  BY DEF NextConfig, Stays
<1> HIDE DEF v, w
<1> QED
  BY <1>2, <1>3, <1>4, SetKeeps

LEMMA KillKeeps == ASSUME SourceIInv, NEW r \in Runs, Kill(r) PROVE SourceIInv'
<1>1. UNCHANGED <<ds, files, onDisk, memory, keys>> /\ Set(r, EndInError)
  BY DEF Kill, Stays
<1> QED
  BY <1>1, FieldsOf, EndInErrorOK, SetKeeps

LEMMA ReclaimDiskKeeps == ASSUME SourceIInv, ReclaimDisk PROVE SourceIInv'
<1>1. /\ FilesBelong /\ ds.layout = "tar" /\ onDisk /\ \A r \in Runs : inv[r].at \in {"off", "failed", "done"}
      /\ files' = [files EXCEPT !["vectors.npy"] = Absent] /\ UNCHANGED <<ds, onDisk, memory, inv, keys>>
  BY DEF SourceIInv, ReclaimDisk, Stays
<1>2. "vectors.npy" \in Reads(ds.layout)
  BY <1>1 DEF Reads
<1>3. Belongs(ds, "vectors.npy", Absent) /\ Absent.at = "absent"
  BY DEF Belongs, Absent
<1>4. \A g \in Reads(ds.layout) : Belongs(ds, g, files'[g])
  BY <1>1, <1>3 DEF FilesBelong
<1>5. \A g \in Reads(ds.layout) : Belongs(ds, g, files[g])'
  BY <1>1, <1>4 DEF Belongs
<1>6. FilesBelong'
  BY <1>1, <1>2, <1>3, <1>5, SameKind DEF FilesBelong
<1>7. ASSUME NEW s \in Runs PROVE InvocationOK(inv[s])'
  <2>1. PICK z : z = inv[s]
    OBVIOUS
  <2>2. InvocationOK(z) /\ z.at # "load"
    BY <1>1, <2>1 DEF SourceIInv
  <2>3. InvocationOK(z)'
    BY <1>1, <2>2, Stable
  <2> QED
    BY <1>1, <2>1, <2>3
<1> QED
  BY <1>1, <1>6, <1>7 DEF SourceIInv

LEMMA MemoryMovesKeeps == ASSUME SourceIInv, MemoryMoves PROVE SourceIInv'
<1>1. /\ FilesBelong /\ UNCHANGED <<ds, files, onDisk, inv, keys>> /\ memory' \in Memories
  BY DEF SourceIInv, MemoryMoves, Stays, Memories
<1>2. FilesBelong'
  BY <1>1, SameKind DEF FilesBelong
<1>3. ASSUME NEW s \in Runs PROVE InvocationOK(inv[s])'
  <2>1. PICK z : z = inv[s]
    OBVIOUS
  <2>2. InvocationOK(z)
    BY <2>1 DEF SourceIInv
  <2>3. InvocationOK(z)'
    BY <1>1, <2>2, Stable DEF FilesBelong
  <2> QED
    BY <1>1, <2>1, <2>3
<1> QED
  BY <1>1, <1>2, <1>3 DEF SourceIInv

LEMMA SourceInitHolds == SourceInit => SourceIInv
<1> SUFFICES ASSUME SourceInit PROVE SourceIInv
  OBVIOUS
<1>1. ds \in Datasets /\ IsDataset(ds) /\ files = ds.local
  BY SourceAssumption DEF SourceInit
<1>2. /\ DOMAIN files = Reads(ds.layout) /\ \A f \in Reads(ds.layout) : Belongs(ds, f, files[f])
  BY <1>1 DEF IsDataset
<1>3. /\ onDisk \in BOOLEAN /\ (Provided => onDisk) /\ (~onDisk => ~Provided)
      /\ (~onDisk => \A f \in Reads(ds.layout) : files[f].at = "absent")
  BY <1>1, <1>2 DEF SourceInit, Provided, Absent
<1>4. ds.layout = "tar" => files["vectors.npy"].at \in {"absent", "stub", "torn", SourceKind}
  <2> SUFFICES ASSUME ds.layout = "tar" PROVE files["vectors.npy"].at \in {"absent", "stub", "torn", SourceKind}
    OBVIOUS
  <2>1. "vectors.npy" \in Reads(ds.layout)
    BY DEF Reads
  <2> QED
    BY <1>1, <2>1 DEF SourceKind, Provided, Absent
<1>5. memory \in Memories /\ keys \in Nat /\ keys = 0 /\ inv = [r \in Runs |-> Nobody]
  BY DEF SourceInit, Memories
<1>6. FilesBelong
  BY <1>1, <1>2, <1>3, <1>4, <1>5 DEF FilesBelong
<1>7. InvocationOK(Nobody)
  BY <1>6, FreshOK DEF Flags
<1> QED
  BY <1>5, <1>6, <1>7 DEF SourceIInv

LEMMA SourceNextKeeps == SourceIInv /\ [SourceNext]_sourceVars => SourceIInv'
<1> SUFFICES ASSUME SourceIInv, [SourceNext]_sourceVars PROVE SourceIInv'
  OBVIOUS
<1>1. ASSUME NEW r \in Runs, NEW flag \in ds.flags, StartRun(r, flag) PROVE SourceIInv'
  BY <1>1, StartRunKeeps
<1>2. ASSUME NEW r \in Runs,
             ResolvePath(r) \/ Fetch(r) \/ CreateTarget(r) \/ Truncate(r) \/ Write(r)
      PROVE  SourceIInv'
  BY <1>2, ResolvePathKeeps, FetchKeeps, CreateTargetKeeps, TruncateKeeps, WriteKeeps
<1>3. ASSUME NEW r \in Runs,
             SharedGate(r) \/ NoGate(r) \/ Validate(r) \/ OpenUpload(r) \/ ReadVectors(r)
      PROVE  SourceIInv'
  BY <1>3, SharedGateKeeps, NoGateKeeps, ValidateKeeps, OpenUploadKeeps, ReadVectorsKeeps
<1>4. ASSUME NEW r \in Runs, ReadQuerySet(r) \/ NextConfig(r) \/ Kill(r) PROVE SourceIInv'
  BY <1>4, ReadQuerySetKeeps, NextConfigKeeps, KillKeeps
<1>5. CASE ReclaimDisk \/ MemoryMoves
  BY <1>5, ReclaimDiskKeeps, MemoryMovesKeeps
<1>6. CASE UNCHANGED sourceVars
  <2>1. UNCHANGED <<ds, files, onDisk, memory, inv, keys>>
    BY <1>6 DEF sourceVars
  <2>2. FilesBelong'
    BY <2>1, SameKind DEF SourceIInv, FilesBelong
  <2>3. ASSUME NEW s \in Runs PROVE InvocationOK(inv[s])'
    <3>1. PICK z : z = inv[s]
      OBVIOUS
    <3>2. InvocationOK(z)
      BY <3>1 DEF SourceIInv
    <3>3. InvocationOK(z)'
      BY <2>1, <3>2, Stable DEF SourceIInv, FilesBelong
    <3> QED
      BY <2>1, <3>1, <3>3
  <2> QED
    BY <2>1, <2>2, <2>3 DEF SourceIInv
<1> QED
  BY <1>1, <1>2, <1>3, <1>4, <1>5, <1>6 DEF SourceNext

LEMMA AtMostOneReader ==
  ASSUME NEW x, OneWay(x) PROVE Cardinality(x.readers) <= 1
<1>1. ~("stream" \in x.readers /\ "memory" \in x.readers)
  BY DEF OneWay
<1>2. x.readers = {} \/ x.readers = {"stream"} \/ x.readers = {"memory"}
  BY <1>1 DEF OneWay
<1>3. Cardinality({}) = 0 /\ Cardinality({"stream"}) = 1 /\ Cardinality({"memory"}) = 1
  BY FS_EmptySet, FS_Singleton
<1> QED
  BY <1>2, <1>3

\* The invariant holds in every state of any number of invocations.
THEOREM SourceInvariance == SourceSpec => []SourceIInv
BY SourceInitHolds, SourceNextKeeps, PTL DEF SourceSpec

\* For every dataset of every layout, any number of invocations that download, check,
\* read and score it at the same time, and whatever a death in between left behind:
\* what is uploaded is the corpus datasets.json describes, every query has its own
\* truth, and one invocation uses one reader.
THEOREM DatasetIsDeclared == SourceSpec => []DatasetAsDeclared
<1>1. SourceIInv => DatasetAsDeclared
  <2> SUFFICES ASSUME SourceIInv PROVE DatasetAsDeclared
    OBVIOUS
  <2>1. ASSUME NEW r \in Runs
        PROVE  Loaded(inv[r]) /\ Scored(inv[r]) /\ OneWay(inv[r])
    BY DEF SourceIInv, InvocationOK
  <2>2. CorpusAsDeclared
    BY <2>1 DEF Loaded, CorpusAsDeclared, FullRows
  <2>3. TruthAligned
    BY <2>1 DEF Scored, TruthAligned
  <2>4. OneReader
    BY <2>1, AtMostOneReader DEF OneReader
  <2> QED
    BY <2>2, <2>3, <2>4 DEF DatasetAsDeclared
<1> QED
  BY <1>1, SourceInvariance, PTL

=============================================================================
