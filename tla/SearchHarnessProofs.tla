------------------------ MODULE SearchHarnessProofs -------------------------
(***************************************************************************)
(* For every set of harness rows and every number of workers, queries,     *)
(* ticks and rounds: an ordinal is handled once, the updates keep to their *)
(* ratio, and a report accounts for the whole run.                         *)
(***************************************************************************)
EXTENDS SearchHarness, FiniteSetTheorems, TLAPS

Handled(w) == t[w] \cup failed[w] \cup dropped[w]
Holds(w) == pc[w] \in {"slot", "rpc", "panicked"}

\* The ordinals a run is about, of those taken off the counter.
Owed(i) == i < queryIdx /\ (mode = "duration" \/ i < numToRun)

\* What is handled or held was taken off the counter, and what is held is
\* neither handled nor held by another.
HandledOwed == \A w \in Workers : \A i \in Handled(w) : i \in Nat /\ Owed(i)
HeldFresh ==
  \A w \in Workers : Holds(w) =>
    /\ idx[w] \in Nat /\ Owed(idx[w])
    /\ \A v \in Workers : idx[w] \notin Handled(v)
    /\ \A v \in Workers : Holds(v) /\ idx[v] = idx[w] => v = w

\* An ordinal taken off the counter does not get lost.
Kept ==
  \A i \in 0..(queryIdx - 1) : Owed(i) =>
    \E w \in Workers : i \in Handled(w) \/ (Holds(w) /\ idx[w] = i)

\* How far a worker is says what it may have done.
Course ==
  /\ Timed => harness.timed
  /\ \A w \in Workers :
       /\ pc[w] = "slot" \/ dropped[w] # {} => mode = "open"
       /\ pc[w] \in {"unstarted", "setup", "parked", "refused", "quit"} => t[w] = {}
       /\ pc[w] = "unstarted" <=> w \notin Started
       /\ pc[w] = "quit" => ~harness.gated
       /\ pc[w] = "exit" => captureError \/ mode = "duration" \/ queryIdx >= numToRun

\* In the middle of a round, too, the searches cover the updates: those done,
\* and while updating those the round still owes.
Ratio ==
  \A w \in Workers :
    LET searches == Cardinality(t[w]) + Cardinality(failed[w]) IN
    IF pc[w] = "update"
    THEN /\ rounds[w] < RatioUpdates
         /\ UpdatesOf(w) * RatioSearches + RatioSearches * (RatioUpdates - rounds[w])
              <= RatioUpdates * searches
    ELSE UpdatesOf(w) * RatioSearches + RatioUpdates * rounds[w] <= RatioUpdates * searches

\* Once it is reported nobody moves, so that the report stays true.
Settled == Reported => \A w \in Workers : pc[w] \in {"exit", "quit", "unstarted"}

IInv ==
  /\ TypeOK /\ HandledOwed /\ HeldFresh /\ OrdinalOnce /\ Kept /\ Course /\ Ratio
  /\ Settled /\ ReportHonest

-----------------------------------------------------------------------------
\* Types, and what the rows of SearchEngines have in common.

LEMMA Inputs ==
  ASSUME TypeOK
  PROVE  /\ mode \in {"closed", "open", "duration", "mixed"} /\ numToRun \in Nat
         /\ Started \subseteq Workers /\ Started # {}
         /\ harness.zero => harness.gated
<1>1. mode \in {"closed", "open", "duration", "mixed"} /\ numToRun \in Nat
  BY HarnessAssumption DEF TypeOK
<1>2. Started \subseteq Workers /\ 1 \in Started
  BY <1>1, HarnessAssumption DEF Started, Workers
<1>3. harness \in AllHarnesses
  BY HarnessAssumption DEF TypeOK
<1>4. \A r \in AllHarnesses : r.zero => r.gated
  <2>1. \A set : Row(set).zero = ("zero" \in set) /\ Row(set).gated = ("gated" \in set)
    BY DEF Row
  <2>2. /\ ~Row({"stats", "mixed"}).zero /\ ~Row({"stats", "mixed", "callEnds"}).zero
        /\ ~Row({"stats"}).zero /\ ~Row({"capped", "dialEnds"}).zero
    BY <2>1
  <2>3. \A r \in Ungated : ~r.zero
    BY <2>2 DEF Ungated, RedisMixed, ValkeyFilter, ValkeyMixed, VectorSetsMixed, Turbopuffer
  <2>4. /\ Row({"gated"}).gated /\ Row({"gated", "mixed"}).gated /\ Row({"gated", "stats"}).gated
        /\ Row({"gated", "dialEnds", "callEnds"}).gated
        /\ Row({"gated", "stats", "callEnds"}).gated
        /\ Row({"gated", "stats", "captures", "rowCheck", "callEnds"}).gated
        /\ Row({"gated", "captures", "rowCheck", "dialEnds", "callEnds"}).gated
        /\ Row({"gated", "capped", "mixed", "dialEnds", "callEnds"}).gated
        /\ Row({"gated", "timed", "capped", "zero", "dialEnds", "callEnds"}).gated
        /\ Row({"gated", "timed", "zero", "stats", "captures", "callEnds"}).gated
    BY <2>1
  <2>5. \A r \in Gated : r.gated
    BY <2>4 DEF Gated, Redis, RedisFilterOnly, Valkey, Dragonfly, Kividb, VectorSets,
                OpenSearch, Elasticsearch, Qdrant, Milvus, Weaviate, WeaviateGrpc, MongoDB,
                MongoDBFilter, MongoDBMixed, PgVector, Chroma, Vertex, VertexMixed
  <2> QED
    BY <2>3, <2>5 DEF AllHarnesses
<1> QED
  BY <1>1, <1>2, <1>3, <1>4

LEMMA Buffers ==
  ASSUME TypeOK, NEW w \in Workers
  PROVE  /\ t[w] \subseteq Nat /\ failed[w] \subseteq Nat /\ dropped[w] \subseteq Nat
         /\ IsFiniteSet(t[w]) /\ IsFiniteSet(failed[w]) /\ IsFiniteSet(dropped[w])
         /\ Cardinality(t[w]) \in Nat /\ Cardinality(failed[w]) \in Nat
         /\ rounds[w] \in Nat /\ UpdatesOf(w) \in Nat
<1>1. t[w] \subseteq 0..queryIdx /\ failed[w] \subseteq 0..queryIdx /\ dropped[w] \subseteq 0..queryIdx
  BY DEF TypeOK
<1>2. IsFiniteSet(0..queryIdx)
  <2>1. queryIdx \in Int /\ 0 \in Int
    BY DEF TypeOK
  <2> QED
    BY <2>1, FS_Interval
<1>3. IsFiniteSet(t[w]) /\ IsFiniteSet(failed[w]) /\ IsFiniteSet(dropped[w])
  BY <1>1, <1>2, FS_Subset
<1>4. Cardinality(t[w]) \in Nat /\ Cardinality(failed[w]) \in Nat
  BY <1>3, FS_CardinalityType
<1>5. rounds[w] \in Nat /\ UpdatesOf(w) \in Nat
  BY DEF TypeOK, UpdatesOf, Outcomes
<1>6. 0..queryIdx \subseteq Nat
  BY DEF TypeOK
<1> QED
  BY <1>1, <1>3, <1>4, <1>5, <1>6

LEMMA InitIInv == Init => IInv
<1> SUFFICES ASSUME Init PROVE IInv
  OBVIOUS
<1>1. queryIdx = 0 /\ outcome = "running" /\ \A w \in Workers :
        /\ t[w] = {} /\ failed[w] = {} /\ dropped[w] = {} /\ late[w] = {} /\ cap[w] = {}
        /\ pc[w] = IF w \in Started THEN "setup" ELSE "unstarted"
        /\ idx[w] = -1 /\ rounds[w] = 0 /\ \A o \in Outcomes : updates[w][o] = 0
  BY DEF Init
<1>2. TypeOK
  <2>1. /\ harness \in Harnesses /\ mode \in Modes /\ numToRun \in Requests
        /\ capture \in BOOLEAN /\ captureError \in BOOLEAN /\ counted \in BOOLEAN
        /\ outcome \in {"running", "err", "ok", "zero"}
    BY DEF Init
  <2>2. queryIdx \in Nat /\ now \in 0..MaxTicks /\ idx \in [Workers -> -1..queryIdx]
        /\ rounds \in [Workers -> Nat] /\ stuck \subseteq Workers
    BY HarnessAssumption DEF Init
  <2>3. pc \in [Workers -> States]
    BY DEF Init, States
  <2>4. updates \in [Workers -> [Outcomes -> Nat]]
    BY DEF Init
  <2>5. {t, failed, dropped, late, cap} \subseteq [Workers -> SUBSET (0..queryIdx)]
    <3>1. t \in [Workers -> SUBSET (0..queryIdx)]
      BY DEF Init
    <3> QED
      BY <3>1 DEF Init
  <2> QED
    BY <2>1, <2>2, <2>3, <2>4, <2>5 DEF TypeOK
<1>3. \A w \in Workers : Handled(w) = {} /\ ~Holds(w)
  BY <1>1 DEF Handled, Holds
<1>4. HandledOwed /\ HeldFresh /\ OrdinalOnce /\ Kept
  BY <1>1, <1>3 DEF HandledOwed, HeldFresh, OrdinalOnce, Kept
<1>5. Course
  BY <1>1 DEF Course, Init, Timed
<1>6. Ratio
  <2>1. \A w \in Workers : UpdatesOf(w) = 0
    BY <1>1 DEF UpdatesOf, Outcomes
  <2>2. Cardinality({}) = 0
    BY FS_EmptySet
  <2>3. \A w \in Workers : pc[w] # "update"
    BY <1>1
  <2>4. 0 * RatioSearches + RatioUpdates * 0 <= RatioUpdates * (0 + 0)
    BY HarnessAssumption
  <2> QED
    BY <1>1, <2>1, <2>2, <2>3, <2>4 DEF Ratio
<1>7. Settled /\ ReportHonest
  BY <1>1 DEF Settled, Reported, ReportHonest, ReportConserves, FullConcurrency
<1> QED
  BY <1>2, <1>4, <1>5, <1>6, <1>7 DEF IInv

-----------------------------------------------------------------------------
\* The kinds of step.

\* Nothing is taken or handed in: a worker goes from one state to another that
\* promises no more.
LEMMA QuietStep ==
  ASSUME IInv, UNCHANGED <<inputs, queryIdx, idx, t, failed, dropped>>,
         captureError => captureError',
         \A w \in Workers :
           \/ pc'[w] = pc[w]
           \/ pc[w] = "setup" /\ pc'[w] \in {"loop", "parked", "refused"}
           \/ pc[w] = "setup" /\ pc'[w] = "quit" /\ ~harness.gated
           \/ pc[w] \in {"parked", "update"} /\ pc'[w] = "loop"
           \/ pc[w] = "slot" /\ pc'[w] = "rpc"
           \/ pc[w] = "rpc" /\ pc'[w] = "panicked"
  PROVE  HandledOwed' /\ HeldFresh' /\ OrdinalOnce' /\ Kept' /\ Course'
<1>1. \A w \in Workers : Handled(w)' = Handled(w) /\ (Holds(w)' <=> Holds(w))
  BY DEF Handled, Holds
<1>2. \A i : Owed(i)' <=> Owed(i)
  BY DEF Owed, inputs
<1>3. HandledOwed' /\ HeldFresh'
  BY <1>1, <1>2 DEF IInv, HandledOwed, HeldFresh
<1>4. OrdinalOnce'
  BY DEF IInv, OrdinalOnce
<1>5. Kept'
  BY <1>1, <1>2 DEF IInv, Kept
<1>6. Course'
  BY DEF IInv, Course, Timed, Started, inputs
<1> QED
  BY <1>3, <1>4, <1>5, <1>6

\* A worker hands in the ordinal it holds, to one of its three buffers.
LEMMA HandIn ==
  ASSUME IInv, NEW w \in Workers, Holds(w),
         UNCHANGED <<inputs, queryIdx, idx>>,
         captureError => captureError',
         pc'[w] \in {"loop", "update", "exit"}, pc'[w] = "exit" => captureError',
         \A v \in Workers : v # w =>
           pc'[v] = pc[v] /\ t'[v] = t[v] /\ failed'[v] = failed[v] /\ dropped'[v] = dropped[v],
         \/ /\ t'[w] = t[w] \cup {idx[w]} /\ failed'[w] = failed[w] /\ dropped'[w] = dropped[w]
         \/ /\ failed'[w] = failed[w] \cup {idx[w]} /\ t'[w] = t[w] /\ dropped'[w] = dropped[w]
         \/ /\ dropped'[w] = dropped[w] \cup {idx[w]} /\ t'[w] = t[w] /\ failed'[w] = failed[w]
            /\ mode = "open"
  PROVE  HandledOwed' /\ HeldFresh' /\ OrdinalOnce' /\ Kept' /\ Course'
<1>1. Handled(w)' = Handled(w) \cup {idx[w]} /\ \A v \in Workers : v # w => Handled(v)' = Handled(v)
  BY DEF Handled
<1>2. ~Holds(w)' /\ \A v \in Workers : v # w => (Holds(v)' <=> Holds(v))
  BY DEF Holds
<1>3. \A i : Owed(i)' <=> Owed(i)
  BY DEF Owed, inputs
<1>4. idx[w] \in Nat /\ Owed(idx[w]) /\ \A v \in Workers : idx[w] \notin Handled(v)
  BY DEF IInv, HeldFresh
<1>5. \A v \in Workers : Holds(v) /\ idx[v] = idx[w] => v = w
  BY DEF IInv, HeldFresh
<1>6. HandledOwed'
  BY <1>1, <1>3, <1>4 DEF IInv, HandledOwed
<1>7. HeldFresh'
  BY <1>1, <1>2, <1>3, <1>5 DEF IInv, HeldFresh
<1>8. OrdinalOnce'
  <2>1. \A v, x \in Workers : v # x => Handled(v)' \cap Handled(x)' = {}
    BY <1>1, <1>4 DEF IInv, OrdinalOnce, Handled
  <2>2. \A v \in Workers : /\ t'[v] \cap failed'[v] = {}
                           /\ (t'[v] \cup failed'[v]) \cap dropped'[v] = {}
    BY <1>4 DEF IInv, OrdinalOnce, Handled
  <2> QED
    BY <2>1, <2>2 DEF OrdinalOnce, Handled
<1>9. Kept'
  BY <1>1, <1>2, <1>3 DEF IInv, Kept
<1>10. Course'
  <2>1. /\ pc[w] \notin {"unstarted", "setup", "parked", "refused", "quit", "exit"}
        /\ mode' = mode /\ harness' = harness /\ numToRun' = numToRun
        /\ Started' = Started
    BY DEF Holds, inputs, Started
  <2> QED
    BY <2>1 DEF IInv, Course, Timed
<1> QED
  BY <1>6, <1>7, <1>8, <1>9, <1>10

\* fetch_add: the ordinal is the worker's alone.
LEMMA TakeStep ==
  ASSUME IInv, NEW w \in Workers, Take(w)
  PROVE  HandledOwed' /\ HeldFresh' /\ OrdinalOnce' /\ Kept' /\ Course' /\ Ratio'
<1>1. /\ pc[w] = "loop" /\ pc'[w] = (IF mode = "open" THEN "slot" ELSE "rpc")
      /\ idx'[w] = queryIdx /\ queryIdx' = queryIdx + 1
      /\ \A v \in Workers : v # w => pc'[v] = pc[v] /\ idx'[v] = idx[v]
      /\ UNCHANGED <<inputs, buffers, captureError>>
  BY DEF Take, Goto, IInv, TypeOK
<1>2. queryIdx \in Nat /\ numToRun \in Nat
  BY Inputs DEF IInv, TypeOK
<1>3. \A v \in Workers : Handled(v)' = Handled(v)
  BY <1>1 DEF Handled, buffers
<1>4. Holds(w)' /\ ~Holds(w) /\ \A v \in Workers : v # w => (Holds(v)' <=> Holds(v))
  BY <1>1 DEF Holds
<1> DEFINE Now(i) == i < queryIdx + 1 /\ (mode = "duration" \/ i < numToRun)
<1>5. \A i \in Nat : Owed(i) => Now(i) /\ i # queryIdx
  BY <1>2 DEF Owed
<1>6. Now(queryIdx) /\ \A i \in Nat : Now(i) => Owed(i) \/ i = queryIdx
  BY <1>2 DEF Owed, Take
<1>7. \A i : Owed(i)' <=> Now(i)
  BY <1>1 DEF Owed, inputs
<1> HIDE DEF Now
<1>8. HandledOwed'
  BY <1>3, <1>5, <1>7 DEF IInv, HandledOwed
<1>9. HeldFresh'
  <2>1. \A v \in Workers : queryIdx \notin Handled(v)
    BY <1>2, <1>5 DEF IInv, HandledOwed
  <2>2. \A v \in Workers : Holds(v) => idx[v] \in Nat /\ idx[v] # queryIdx /\ Now(idx[v])
    BY <1>5 DEF IInv, HeldFresh
  <2> QED
    BY <1>1, <1>2, <1>3, <1>4, <1>6, <1>7, <2>1, <2>2 DEF IInv, HeldFresh
<1>10. OrdinalOnce'
  BY <1>1 DEF IInv, OrdinalOnce, buffers
<1>11. Kept'
  <2> SUFFICES ASSUME NEW i \in 0..queryIdx, Now(i)
               PROVE  \E v \in Workers : i \in Handled(v)' \/ (Holds(v)' /\ idx'[v] = i)
    BY <1>1, <1>2, <1>7 DEF Kept
  <2>1. CASE i = queryIdx
    BY <2>1, <1>1, <1>4
  <2>2. CASE i # queryIdx
    <3>1. i \in 0..(queryIdx - 1) /\ Owed(i)
      BY <2>2, <1>2, <1>6
    <3> QED
      BY <3>1, <1>1, <1>3, <1>4 DEF IInv, Kept
  <2> QED
    BY <2>1, <2>2
<1>12. Course'
  BY <1>1, <1>2 DEF IInv, Course, Timed, Started, inputs, buffers
<1>13. Ratio'
  BY <1>1 DEF IInv, Ratio, UpdatesOf, buffers, Take
<1> QED
  BY <1>8, <1>9, <1>10, <1>11, <1>12, <1>13

LEMMA FinishStep ==
  ASSUME IInv, NEW w \in Workers, Finish(w)
  PROVE  HandledOwed' /\ HeldFresh' /\ OrdinalOnce' /\ Kept' /\ Course' /\ Ratio'
<1>1. /\ pc[w] = "loop" /\ pc'[w] = "exit"
      /\ \A v \in Workers : v # w => pc'[v] = pc[v]
      /\ UNCHANGED <<inputs, idx, buffers, captureError, rounds, updates>>
      /\ \/ mode = "duration" /\ queryIdx' = queryIdx
         \/ mode # "duration" /\ queryIdx >= numToRun /\ queryIdx' = queryIdx + 1
  BY DEF Finish, Goto, IInv, TypeOK, PastDeadline
<1>2. queryIdx \in Nat /\ numToRun \in Nat
  BY Inputs DEF IInv, TypeOK
<1>3. \A v \in Workers : Handled(v)' = Handled(v) /\ (Holds(v)' <=> Holds(v))
  BY <1>1 DEF Handled, buffers, Holds
<1>4. \A i \in Nat : Owed(i)' <=> Owed(i)
  BY <1>1, <1>2 DEF Owed, inputs
<1>5. HandledOwed'
  BY <1>3, <1>4 DEF IInv, HandledOwed
<1>6. HeldFresh'
  BY <1>1, <1>3, <1>4 DEF IInv, HeldFresh
<1>7. OrdinalOnce'
  BY <1>1 DEF IInv, OrdinalOnce, buffers
<1>8. Kept'
  <2>1. \A i \in 0..(queryIdx' - 1) : Owed(i)' => i \in 0..(queryIdx - 1) /\ Owed(i)
    BY <1>1, <1>2, <1>4 DEF Owed
  <2> QED
    BY <1>1, <1>3, <2>1 DEF IInv, Kept
<1>9. Course'
  BY <1>1, <1>2 DEF IInv, Course, Timed, Started, inputs, buffers
<1>10. Ratio'
  BY <1>1 DEF IInv, Ratio, UpdatesOf, buffers
<1> QED
  BY <1>5, <1>6, <1>7, <1>8, <1>9, <1>10

-----------------------------------------------------------------------------
\* The ratio.

LEMMA RatioQuiet ==
  ASSUME IInv, UNCHANGED <<t, failed, rounds, updates>>,
         \A w \in Workers : pc'[w] = "update" <=> pc[w] = "update"
  PROVE  Ratio'
BY DEF IInv, Ratio, UpdatesOf

\* A search more, answered or failed, pays for its share of the updates.
LEMMA RatioSearch ==
  ASSUME IInv, NEW w \in Workers, pc[w] = "rpc", UNCHANGED updates,
         \/ t'[w] = t[w] \cup {idx[w]} /\ failed'[w] = failed[w]
         \/ failed'[w] = failed[w] \cup {idx[w]} /\ t'[w] = t[w],
         \A v \in Workers : v # w => /\ t'[v] = t[v] /\ failed'[v] = failed[v]
                                     /\ pc'[v] = pc[v] /\ rounds'[v] = rounds[v],
         \/ pc'[w] = "update" /\ rounds'[w] = 0 /\ rounds[w] + 1 = RatioSearches
         \/ pc'[w] # "update" /\ rounds'[w] \in {rounds[w], rounds[w] + 1}
  PROVE  Ratio'
<1> DEFINE n == Cardinality(t[w]) + Cardinality(failed[w])
           u == UpdatesOf(w)
           a == u * RatioSearches
           b == RatioUpdates * n
           c == RatioUpdates * rounds[w]
<1>1. /\ RatioSearches \in Nat \ {0} /\ RatioUpdates \in Nat \ {0} /\ rounds[w] \in Nat
      /\ Cardinality(t[w]) \in Nat /\ Cardinality(failed[w]) \in Nat /\ u \in Nat
      /\ IsFiniteSet(t[w]) /\ IsFiniteSet(failed[w])
  BY Buffers, HarnessAssumption DEF IInv
<1>2. idx[w] \notin t[w] /\ idx[w] \notin failed[w]
  BY DEF IInv, HeldFresh, Holds, Handled
<1>3. Cardinality(t'[w]) + Cardinality(failed'[w]) = n + 1
  <2>1. CASE t'[w] = t[w] \cup {idx[w]} /\ failed'[w] = failed[w]
    <3>1. Cardinality(t'[w]) = Cardinality(t[w]) + 1
      BY <2>1, <1>1, <1>2, FS_AddElement
    <3> QED
      BY <2>1, <3>1, <1>1
  <2>2. CASE failed'[w] = failed[w] \cup {idx[w]} /\ t'[w] = t[w]
    <3>1. Cardinality(failed'[w]) = Cardinality(failed[w]) + 1
      BY <2>2, <1>1, <1>2, FS_AddElement
    <3> QED
      BY <2>2, <3>1, <1>1
  <2> QED
    BY <2>1, <2>2
<1>4. a + c <= b
  BY DEF IInv, Ratio
<1>5. a \in Nat /\ b \in Nat /\ c \in Nat /\ n \in Nat
  BY <1>1
<1>6. RatioUpdates * (n + 1) = b + RatioUpdates
  BY <1>1, <1>5
<1>7. UpdatesOf(w)' = u
  BY DEF UpdatesOf
<1>8. IF pc'[w] = "update"
      THEN /\ rounds'[w] < RatioUpdates
           /\ UpdatesOf(w)' * RatioSearches + RatioSearches * (RatioUpdates - rounds'[w])
                <= RatioUpdates * (Cardinality(t'[w]) + Cardinality(failed'[w]))
      ELSE UpdatesOf(w)' * RatioSearches + RatioUpdates * rounds'[w]
             <= RatioUpdates * (Cardinality(t'[w]) + Cardinality(failed'[w]))
  <2>1. CASE pc'[w] = "update" /\ rounds'[w] = 0 /\ rounds[w] + 1 = RatioSearches
    <3>1. RatioSearches * (RatioUpdates - 0) = c + RatioUpdates
      BY <2>1, <1>1
    <3>2. a + RatioSearches * (RatioUpdates - 0) <= RatioUpdates * (n + 1)
      BY <3>1, <1>1, <1>4, <1>5, <1>6
    <3> QED
      BY <2>1, <3>2, <1>1, <1>3, <1>7
  <2>2. CASE pc'[w] # "update" /\ rounds'[w] \in {rounds[w], rounds[w] + 1}
    <3>1. RatioUpdates * rounds'[w] <= c + RatioUpdates /\ RatioUpdates * rounds'[w] \in Nat
      BY <2>2, <1>1
    <3>2. a + RatioUpdates * rounds'[w] <= RatioUpdates * (n + 1)
      BY <3>1, <1>1, <1>4, <1>5, <1>6
    <3> QED
      BY <2>2, <3>2, <1>3, <1>7
  <2> QED
    BY <2>1, <2>2
<1>9. \A v \in Workers : v # w => UpdatesOf(v)' = UpdatesOf(v)
  BY DEF UpdatesOf
<1> HIDE DEF n, u, a, b, c
<1> QED
  BY <1>8, <1>9 DEF IInv, Ratio

\* An update of a round that is paid for.
LEMMA RatioUpdate ==
  ASSUME IInv, NEW w \in Workers, Update(w)
  PROVE  Ratio'
<1>1. PICK o \in Outcomes : updates' = [updates EXCEPT ![w][o] = @ + 1]
  BY DEF Update
<1> DEFINE n == Cardinality(t[w]) + Cardinality(failed[w])
           u == UpdatesOf(w)
           a == u * RatioSearches
           b == RatioUpdates * n
           d == RatioSearches * (RatioUpdates - rounds[w])
<1>2. /\ pc[w] = "update" /\ UNCHANGED buffers
      /\ \A v \in Workers : v # w => pc'[v] = pc[v] /\ rounds'[v] = rounds[v]
      /\ \/ rounds[w] + 1 = RatioUpdates /\ pc'[w] = "loop" /\ rounds'[w] = 0
         \/ rounds[w] + 1 # RatioUpdates /\ pc'[w] = "update" /\ rounds'[w] = rounds[w] + 1
  BY DEF Update, Goto, IInv, TypeOK
<1>3. /\ RatioSearches \in Nat \ {0} /\ RatioUpdates \in Nat \ {0} /\ rounds[w] \in Nat
      /\ n \in Nat /\ u \in Nat
  BY Buffers, HarnessAssumption DEF IInv
<1>4. UpdatesOf(w)' = u + 1 /\ \A v \in Workers : v # w => UpdatesOf(v)' = UpdatesOf(v)
  <2>1. updates \in [Workers -> [Outcomes -> Nat]]
    BY DEF IInv, TypeOK
  <2>2. /\ \A v \in Workers : v # w => updates'[v] = updates[v]
        /\ updates'[w][o] = updates[w][o] + 1
        /\ \A q \in Outcomes : q # o => updates'[w][q] = updates[w][q]
    BY <1>1, <2>1
  <2> QED
    BY <2>1, <2>2 DEF UpdatesOf, Outcomes
<1>5. rounds[w] < RatioUpdates /\ a + d <= b
  BY <1>2 DEF IInv, Ratio
<1>6. a \in Nat /\ b \in Nat /\ d \in Int
  BY <1>3
<1>7. (u + 1) * RatioSearches = a + RatioSearches
  BY <1>3
<1>8. CASE rounds[w] + 1 = RatioUpdates /\ pc'[w] = "loop" /\ rounds'[w] = 0
  <2>1. d = RatioSearches /\ RatioUpdates * rounds'[w] = 0
    BY <1>3, <1>8
  <2>2. (u + 1) * RatioSearches + RatioUpdates * rounds'[w] <= b
    BY <2>1, <1>3, <1>5, <1>6, <1>7
  <2> HIDE DEF n, u, a, d
  <2> QED
    BY <1>2, <1>4, <1>8, <2>2 DEF IInv, Ratio, buffers, n
<1>9. CASE rounds[w] + 1 # RatioUpdates /\ pc'[w] = "update" /\ rounds'[w] = rounds[w] + 1
  <2>1. d = RatioSearches * (RatioUpdates - rounds'[w]) + RatioSearches
    BY <1>3, <1>9
  <2>2. RatioSearches * (RatioUpdates - rounds'[w]) \in Int /\ rounds'[w] < RatioUpdates
    <3>1. rounds[w] < RatioUpdates
      BY <1>5
    <3> HIDE DEF n, u, a, b, d
    <3>2. rounds'[w] \in Int /\ rounds'[w] < RatioUpdates
      BY <1>3, <1>9, <3>1
    <3>3. RatioUpdates - rounds'[w] \in Int /\ RatioSearches \in Int
      BY <1>3, <3>2
    <3> QED
      BY <3>2, <3>3
  <2>3. (u + 1) * RatioSearches + RatioSearches * (RatioUpdates - rounds'[w]) <= b
    BY <2>1, <2>2, <1>3, <1>5, <1>6, <1>7
  <2> HIDE DEF n, u, a, d
  <2> QED
    BY <1>2, <1>4, <1>9, <2>2, <2>3 DEF IInv, Ratio, buffers, n
<1> QED
  BY <1>2, <1>8, <1>9

-----------------------------------------------------------------------------
\* The report.

LEMMA CountDisjoint ==
  ASSUME NEW S, NEW T, IsFiniteSet(S), IsFiniteSet(T), S \cap T = {}
  PROVE  Cardinality(S \cup T) = Cardinality(S) + Cardinality(T)
<1>1. Cardinality(S \cup T) = Cardinality(S) + Cardinality(T) - Cardinality(S \cap T)
  BY FS_Union
<1>2. Cardinality(S \cap T) = 0
  BY FS_EmptySet
<1>3. Cardinality(S) \in Nat /\ Cardinality(T) \in Nat
  BY FS_CardinalityType
<1> QED
  BY <1>1, <1>2, <1>3

\* Joining workers that are all through: the ordinals there were are those in
\* the buffers, each in one.
LEMMA Accounts ==
  ASSUME IInv, NEW n \in Nat,
         \A i \in Nat : Owed(i) <=> i < n,
         \A w \in Workers : ~Holds(w)
  PROVE  /\ Merged(t) \cup Merged(failed) \cup Merged(dropped) = 0..(n - 1)
         /\ Count(t) + Count(failed) + Count(dropped) = n
         /\ Count(t) \in Nat /\ Count(failed) \in Nat /\ Count(dropped) \in Nat
<1> DEFINE T == Merged(t)
           F == Merged(failed)
           D == Merged(dropped)
<1>1. \A i : i \in T \cup F \cup D <=> \E w \in Workers : i \in Handled(w)
  BY DEF Merged, Handled
<1>2. T \cup F \cup D = 0..(n - 1)
  <2>1. ASSUME NEW i, \E w \in Workers : i \in Handled(w) PROVE i \in 0..(n - 1)
    BY <2>1 DEF IInv, HandledOwed
  <2>2. ASSUME NEW i \in 0..(n - 1) PROVE \E w \in Workers : i \in Handled(w)
    <3>1. Owed(i) /\ i \in Nat
      OBVIOUS
    <3>2. i \in 0..(queryIdx - 1)
      BY <3>1 DEF Owed, IInv, TypeOK
    <3> QED
      BY <3>1, <3>2 DEF IInv, Kept
  <2> QED
    BY <1>1, <2>1, <2>2
<1>3. T \cap F = {} /\ (T \cup F) \cap D = {}
  <2>1. OrdinalOnce
    BY DEF IInv
  <2>2. ASSUME NEW i, NEW v \in Workers, NEW w \in Workers, i \in Handled(v), i \in Handled(w)
        PROVE  v = w
    BY <2>1, <2>2 DEF OrdinalOnce, Handled
  <2>3. \A w \in Workers : t[w] \cap failed[w] = {} /\ (t[w] \cup failed[w]) \cap dropped[w] = {}
    BY <2>1 DEF OrdinalOnce
  <2> QED
    BY <2>2, <2>3 DEF Merged, Handled
<1>4. IsFiniteSet(0..(n - 1)) /\ Cardinality(0..(n - 1)) = n
  <2>1. 0 \in Int /\ n - 1 \in Int
    OBVIOUS
  <2>2. /\ IsFiniteSet(0..(n - 1))
        /\ Cardinality(0..(n - 1)) = IF 0 > n - 1 THEN 0 ELSE (n - 1) - 0 + 1
    BY <2>1, FS_Interval
  <2> QED
    BY <2>2
<1>5. IsFiniteSet(T) /\ IsFiniteSet(F) /\ IsFiniteSet(D) /\ IsFiniteSet(T \cup F)
  <2>1. T \subseteq 0..(n - 1) /\ F \subseteq 0..(n - 1) /\ D \subseteq 0..(n - 1)
        /\ T \cup F \subseteq 0..(n - 1)
    BY <1>2
  <2> QED
    BY <1>4, <2>1, FS_Subset
<1>6. Cardinality(T \cup F) = Cardinality(T) + Cardinality(F)
  BY <1>3, <1>5, CountDisjoint
<1>7. Cardinality((T \cup F) \cup D) = Cardinality(T \cup F) + Cardinality(D)
  BY <1>3, <1>5, CountDisjoint
<1>8. Cardinality(T) \in Nat /\ Cardinality(F) \in Nat /\ Cardinality(D) \in Nat
  BY <1>5, FS_CardinalityType
<1> QED
  BY <1>2, <1>4, <1>6, <1>7, <1>8 DEF Count

\* Whatever the verdict, the report that is written is the whole account.
LEMMA JoinReports ==
  ASSUME IInv, Join
  PROVE  Settled' /\ ReportHonest'
<1> SUFFICES ASSUME Verdict \in {"ok", "zero"}
             PROVE  /\ \A w \in Workers : pc'[w] \in {"exit", "quit", "unstarted"}
                    /\ ReportHonest'
  BY DEF Join, Settled, Reported, ReportHonest, ReportConserves, FullConcurrency
<1>1. /\ \A w \in Started : pc[w] # "panicked"
      /\ ~captureError
      /\ Count(t) # 0 \/ harness.zero
  BY DEF Verdict
<1>2. /\ UNCHANGED <<inputs, queryIdx, pc, buffers>>
      /\ report' = [requested |-> Attempted, failed |-> Attempted - Count(t),
                    dropped |-> Count(dropped), late |-> Count(late),
                    updates |-> UpdateCount(Outcomes)]
  BY DEF Join
<1>3. /\ mode \in {"closed", "open", "duration", "mixed"} /\ numToRun \in Nat
      /\ Started \subseteq Workers /\ Started # {} /\ queryIdx \in Nat
      /\ harness.zero => harness.gated
  BY Inputs DEF IInv, TypeOK
<1>4. /\ \A w \in Started : pc[w] \in {"exit", "quit"} /\ (harness.gated => pc[w] = "exit")
      /\ \A w \in Workers : w \notin Started => pc[w] = "unstarted"
  BY <1>1, <1>3 DEF Join, IInv, Course
<1>5. \A w \in Workers : ~Holds(w)
  BY <1>4 DEF Holds
<1>6. \E w \in Workers : pc[w] = "exit"
  <2>1. CASE harness.zero
    BY <2>1, <1>3, <1>4
  <2>2. CASE Count(t) # 0
    <3>1. Merged(t) # {}
      BY <2>2, FS_EmptySet DEF Count
    <3>2. PICK w \in Workers : t[w] # {}
      BY <3>1 DEF Merged
    <3> QED
      BY <3>2, <1>4 DEF IInv, Course
  <2> QED
    BY <2>1, <2>2, <1>1
<1>7. mode = "duration" \/ queryIdx >= numToRun
  BY <1>1, <1>6 DEF IInv, Course
<1> DEFINE n == IF mode = "duration" THEN queryIdx ELSE numToRun
<1>8. n \in Nat /\ \A i \in Nat : Owed(i) <=> i < n
  BY <1>3, <1>7 DEF Owed
<1>9. /\ Merged(t) \cup Merged(failed) \cup Merged(dropped) = 0..(n - 1)
      /\ Count(t) + Count(failed) + Count(dropped) = n
      /\ Count(t) \in Nat /\ Count(failed) \in Nat /\ Count(dropped) \in Nat
  BY <1>5, <1>8, Accounts
<1>10. mode # "open" => Merged(dropped) = {} /\ Count(dropped) = 0
  <2>1. mode # "open" => Merged(dropped) = {}
    BY DEF IInv, Course, Merged
  <2> QED
    BY <2>1, FS_EmptySet DEF Count
<1>11. Attempted = n - Count(dropped)
  <2>1. CASE harness.timed
    BY <2>1, <1>3, <1>7, <1>9 DEF Attempted
  <2>2. CASE ~harness.timed
    <3>1. mode \notin {"open", "duration"}
      BY <2>2 DEF IInv, Course, Timed
    <3> QED
      BY <2>2, <3>1, <1>3, <1>10 DEF Attempted
  <2> QED
    BY <2>1, <2>2
<1>12. report'.failed = Count(failed) /\ report'.requested = Count(t) + Count(failed)
  BY <1>2, <1>8, <1>9, <1>11
<1>13. mode = "duration" =>
         Merged(t) \cup Merged(failed) = 0..(report'.requested - 1)
  BY <1>8, <1>9, <1>10, <1>12
<1>14. mode # "duration" =>
         Merged(t) \cup Merged(failed) \cup Merged(dropped) = 0..(numToRun - 1)
  BY <1>9
<1>15. ReportConserves'
  BY <1>2, <1>12, <1>13, <1>14 DEF ReportConserves, inputs, buffers, Merged, Count
<1>16. FullConcurrency'
  BY <1>1, <1>2, <1>4 DEF FullConcurrency, inputs, Started
<1> QED
  BY <1>2, <1>4, <1>15, <1>16 DEF ReportHonest

-----------------------------------------------------------------------------
\* Every step keeps the types.

LEMMA PushType ==
  ASSUME TypeOK, NEW w \in Workers, idx[w] \in Nat,
         NEW f \in [Workers -> SUBSET (0..queryIdx)]
  PROVE  Push(f, w) \in [Workers -> SUBSET (0..queryIdx)]
<1>1. idx[w] \in 0..queryIdx
  BY DEF TypeOK
<1> QED
  BY <1>1 DEF Push

LEMMA TypeStep ==
  ASSUME TypeOK, Next, \A w \in Workers : Holds(w) => idx[w] \in Nat
  PROVE  TypeOK'
<1> USE DEF TypeOK, States
<1> DEFINE B == [Workers -> SUBSET (0..queryIdx)]
<1>1. CASE Release
  BY <1>1 DEF Release, inputs, buffers
<1>2. CASE Join
  <2>1. outcome' \in {"running", "err", "ok", "zero"}
    BY <1>2 DEF Join, Verdict
  <2> QED
    BY <1>2, <2>1 DEF Join, inputs, buffers
<1>3. CASE Tick
  <2>1. now' \in 0..MaxTicks
    BY <1>3, HarnessAssumption DEF Tick
  <2> QED
    BY <1>3, <2>1 DEF Tick, inputs, buffers
<1>4. CASE Over
  BY <1>4 DEF Over, vars, inputs, buffers
<1>5. ASSUME NEW w \in Workers, Step(w) PROVE TypeOK'
  <2>1. CASE Setup(w)
    <3>1. counted' \in BOOLEAN
      BY <2>1 DEF Setup
    <3>2. pc' \in [Workers -> States]
      BY <2>1 DEF Setup, Goto
    <3> QED
      BY <2>1, <3>1, <3>2 DEF Setup, inputs, buffers
  <2>2. CASE SetupFails(w)
    BY <2>2 DEF SetupFails, Goto, inputs, buffers
  <2>3. CASE Take(w)
    <3>1. queryIdx' \in Nat /\ 0..queryIdx \subseteq 0..queryIdx' /\ -1..queryIdx \subseteq -1..queryIdx'
          /\ queryIdx \in -1..queryIdx'
      BY <2>3 DEF Take
    <3>2. idx' \in [Workers -> -1..queryIdx']
      BY <2>3, <3>1 DEF Take
    <3>3. pc' \in [Workers -> States]
      BY <2>3 DEF Take, Goto
    <3>4. {t', failed', dropped', late', cap'} \subseteq [Workers -> SUBSET (0..queryIdx')]
      BY <2>3, <3>1 DEF Take, buffers
    <3> QED
      BY <2>3, <3>1, <3>2, <3>3, <3>4 DEF Take, inputs
  <2>4. CASE Finish(w)
    <3>1. queryIdx' \in Nat /\ 0..queryIdx \subseteq 0..queryIdx' /\ -1..queryIdx \subseteq -1..queryIdx'
      BY <2>4 DEF Finish
    <3>2. idx' \in [Workers -> -1..queryIdx']
      BY <2>4, <3>1 DEF Finish
    <3>3. pc' \in [Workers -> States]
      BY <2>4 DEF Finish, Goto
    <3>4. {t', failed', dropped', late', cap'} \subseteq [Workers -> SUBSET (0..queryIdx')]
      BY <2>4, <3>1 DEF Finish, buffers
    <3> QED
      BY <2>4, <3>1, <3>2, <3>3, <3>4 DEF Finish, inputs
  <2>5. ASSUME pc[w] \in {"slot", "rpc"}
        PROVE  /\ Push(t, w) \in B /\ Push(failed, w) \in B /\ Push(dropped, w) \in B
               /\ Push(late, w) \in B /\ Push(cap, w) \in B
    BY <2>5, PushType DEF Holds
  <2>6. CASE WaitForSlot(w)
    <3>1. pc' \in [Workers -> States] /\ dropped' \in B /\ late' \in B
      BY <2>6, <2>5 DEF WaitForSlot, Goto
    <3> QED
      BY <2>6, <3>1 DEF WaitForSlot, inputs
  <2>7. AfterSearch(w) => pc' \in [Workers -> States] /\ rounds' \in [Workers -> Nat]
    <3>1. AfterSearch(w) => pc' \in [Workers -> States]
      BY DEF AfterSearch, Goto
    <3>2. rounds \in [Workers -> Nat] /\ rounds[w] + 1 \in Nat
      OBVIOUS
    <3>3. /\ [rounds EXCEPT ![w] = 0] \in [Workers -> Nat]
          /\ [rounds EXCEPT ![w] = rounds[w] + 1] \in [Workers -> Nat]
      BY <3>2
    <3>4. AfterSearch(w) => rounds' \in {[rounds EXCEPT ![w] = 0], [rounds EXCEPT ![w] = rounds[w] + 1], rounds}
      BY <3>2 DEF AfterSearch
    <3> QED
      BY <3>1, <3>2, <3>3, <3>4
  <2>8. CASE Answered(w)
    <3>1. t' \in B /\ cap' \in B
      BY <2>8, <2>5 DEF Answered
    <3> QED
      BY <2>8, <2>7, <3>1 DEF Answered, inputs
  <2>9. CASE Fails(w)
    <3>1. failed' \in B /\ cap' \in B /\ counted' \in BOOLEAN
      BY <2>9, <2>5 DEF Fails
    <3> QED
      BY <2>9, <2>7, <3>1 DEF Fails, inputs
  <2>10. CASE NotARow(w)
    <3>1. t' \in B /\ pc' \in [Workers -> States]
      BY <2>10, <2>5 DEF NotARow, Goto
    <3> QED
      BY <2>10, <3>1 DEF NotARow, inputs
  <2>11. CASE Panic(w)
    BY <2>11 DEF Panic, Goto, inputs, buffers
  <2>12. CASE Update(w)
    <3>1. updates' \in [Workers -> [Outcomes -> Nat]]
      BY <2>12 DEF Update
    <3>2. pc' \in [Workers -> States]
      BY <2>12 DEF Update, Goto
    <3>3. counted' \in BOOLEAN
      BY <2>12 DEF Update
    <3>4. rounds' \in [Workers -> Nat]
      <4>1. rounds \in [Workers -> Nat] /\ rounds[w] + 1 \in Nat
        OBVIOUS
      <4>2. rounds' = [rounds EXCEPT ![w] = 0] \/ rounds' = [rounds EXCEPT ![w] = rounds[w] + 1]
        BY <2>12 DEF Update
      <4>3. /\ [rounds EXCEPT ![w] = 0] \in [Workers -> Nat]
            /\ [rounds EXCEPT ![w] = rounds[w] + 1] \in [Workers -> Nat]
        BY <4>1
      <4> QED
        BY <4>2, <4>3
    <3> QED
      BY <2>12, <3>1, <3>2, <3>3, <3>4 DEF Update, inputs, buffers
  <2>13. CASE Hang(w)
    <3>1. stuck' \subseteq Workers
      BY <2>13 DEF Hang
    <3>2. /\ UNCHANGED <<harness, mode, numToRun, capture, queryIdx, now, pc, idx, rounds>>
          /\ UNCHANGED <<t, failed, dropped, late, cap, updates, captureError, counted, outcome>>
      BY <2>13 DEF Hang, inputs, buffers
    <3> QED
      BY <3>1, <3>2
  <2> QED
    BY <1>5, <2>1, <2>2, <2>3, <2>4, <2>6, <2>8, <2>9, <2>10, <2>11, <2>12, <2>13 DEF Step
<1> QED
  BY <1>1, <1>2, <1>3, <1>4, <1>5 DEF Next

-----------------------------------------------------------------------------
\* The invariant.

\* A worker that can move at all works for a run that is not reported.
LEMMA NotReported ==
  ASSUME IInv, NEW w \in Workers, pc[w] \notin {"exit", "quit", "unstarted"},
         UNCHANGED outcome
  PROVE  Settled' /\ ReportHonest'
<1>1. ~Reported'
  BY DEF IInv, Settled, Reported
<1> QED
  BY <1>1 DEF Settled, ReportHonest, ReportConserves, FullConcurrency

LEMMA StepIInv ==
  ASSUME IInv, NEW w \in Workers, Step(w), TypeOK'
  PROVE  IInv'
<1>1. pc \in [Workers -> States] /\ rounds \in [Workers -> Nat]
      /\ t \in [Workers -> SUBSET (0..queryIdx)] /\ failed \in [Workers -> SUBSET (0..queryIdx)]
      /\ dropped \in [Workers -> SUBSET (0..queryIdx)]
  BY DEF IInv, TypeOK
<1>2. Settled' /\ ReportHonest'
  <2>1. pc[w] \notin {"exit", "quit", "unstarted"} /\ UNCHANGED outcome
    BY DEF Step, Setup, SetupFails, Take, Finish, WaitForSlot, Answered, Fails, NotARow,
           Panic, Update, Hang
  <2> QED
    BY <2>1, NotReported
<1>3. CASE Setup(w)
  <2>1. \A v \in Workers : \/ pc'[v] = pc[v]
                           \/ pc[v] = "setup" /\ pc'[v] \in {"loop", "parked"}
    BY <1>1, <1>3 DEF Setup, Goto
  <2>2. HandledOwed' /\ HeldFresh' /\ OrdinalOnce' /\ Kept' /\ Course'
    BY <1>3, <2>1, QuietStep DEF Setup, buffers
  <2>3. Ratio'
    BY <1>3, <2>1, RatioQuiet DEF Setup, buffers
  <2> QED
    BY <1>2, <2>2, <2>3 DEF IInv
<1>4. CASE SetupFails(w)
  <2>1. \A v \in Workers : \/ pc'[v] = pc[v]
                           \/ pc[v] = "setup" /\ pc'[v] = "refused"
                           \/ pc[v] = "setup" /\ pc'[v] = "quit" /\ ~harness.gated
    BY <1>1, <1>4 DEF SetupFails, Goto
  <2>2. HandledOwed' /\ HeldFresh' /\ OrdinalOnce' /\ Kept' /\ Course'
    BY <1>4, <2>1, QuietStep DEF SetupFails, buffers
  <2>3. Ratio'
    BY <1>4, <2>1, RatioQuiet DEF SetupFails, buffers
  <2> QED
    BY <1>2, <2>2, <2>3 DEF IInv
<1>5. CASE Take(w)
  BY <1>2, <1>5, TakeStep DEF IInv
<1>6. CASE Finish(w)
  BY <1>2, <1>6, FinishStep DEF IInv
<1>7. CASE WaitForSlot(w)
  <2>1. pc[w] = "slot" /\ mode = "open" /\ Holds(w)
    BY <1>7 DEF WaitForSlot, IInv, Course, Holds
  <2>2. CASE dropped' = Push(dropped, w) /\ Goto(w, "loop")
    <3>1. /\ pc'[w] = "loop" /\ dropped'[w] = dropped[w] \cup {idx[w]}
          /\ \A v \in Workers : v # w => pc'[v] = pc[v] /\ dropped'[v] = dropped[v]
      BY <1>1, <2>2 DEF Push, Goto
    <3>2. HandledOwed' /\ HeldFresh' /\ OrdinalOnce' /\ Kept' /\ Course'
      BY <1>7, <2>1, <3>1, HandIn DEF WaitForSlot
    <3>3. Ratio'
      BY <1>7, <2>1, <3>1, RatioQuiet DEF WaitForSlot
    <3> QED
      BY <1>2, <3>2, <3>3 DEF IInv
  <2>3. CASE Goto(w, "rpc") /\ UNCHANGED dropped
    <3>1. \A v \in Workers : pc'[v] = pc[v] \/ (pc[v] = "slot" /\ pc'[v] = "rpc")
      BY <1>1, <2>1, <2>3 DEF Goto
    <3>2. HandledOwed' /\ HeldFresh' /\ OrdinalOnce' /\ Kept' /\ Course'
      BY <1>7, <2>3, <3>1, QuietStep DEF WaitForSlot
    <3>3. Ratio'
      BY <1>7, <3>1, RatioQuiet DEF WaitForSlot
    <3> QED
      BY <1>2, <3>2, <3>3 DEF IInv
  <2> QED
    BY <1>7, <2>2, <2>3 DEF WaitForSlot
<1>8. AfterSearch(w) =>
        /\ \A v \in Workers : v # w => pc'[v] = pc[v] /\ rounds'[v] = rounds[v]
        /\ \/ pc'[w] = "update" /\ rounds'[w] = 0 /\ rounds[w] + 1 = RatioSearches
           \/ pc'[w] = "loop" /\ rounds'[w] \in {rounds[w], rounds[w] + 1}
  BY <1>1 DEF AfterSearch, Goto
<1>9. CASE Answered(w)
  <2>1. /\ pc[w] = "rpc" /\ Holds(w) /\ t'[w] = t[w] \cup {idx[w]} /\ AfterSearch(w)
        /\ \A v \in Workers : v # w => t'[v] = t[v]
    BY <1>1, <1>9 DEF Answered, Push, Holds
  <2>2. HandledOwed' /\ HeldFresh' /\ OrdinalOnce' /\ Kept' /\ Course'
    BY <1>8, <1>9, <2>1, HandIn DEF Answered
  <2>3. Ratio'
    BY <1>8, <1>9, <2>1, RatioSearch DEF Answered
  <2> QED
    BY <1>2, <2>2, <2>3 DEF IInv
<1>10. CASE Fails(w)
  <2>1. /\ pc[w] = "rpc" /\ Holds(w) /\ failed'[w] = failed[w] \cup {idx[w]} /\ AfterSearch(w)
        /\ \A v \in Workers : v # w => failed'[v] = failed[v]
    BY <1>1, <1>10 DEF Fails, Push, Holds
  <2>2. HandledOwed' /\ HeldFresh' /\ OrdinalOnce' /\ Kept' /\ Course'
    BY <1>8, <1>10, <2>1, HandIn DEF Fails
  <2>3. Ratio'
    BY <1>8, <1>10, <2>1, RatioSearch DEF Fails
  <2> QED
    BY <1>2, <2>2, <2>3 DEF IInv
<1>11. CASE NotARow(w)
  <2>1. /\ pc[w] = "rpc" /\ Holds(w) /\ t'[w] = t[w] \cup {idx[w]} /\ pc'[w] = "exit"
        /\ \A v \in Workers : v # w => t'[v] = t[v] /\ pc'[v] = pc[v]
    BY <1>1, <1>11 DEF NotARow, Push, Holds, Goto
  <2>2. HandledOwed' /\ HeldFresh' /\ OrdinalOnce' /\ Kept' /\ Course'
    BY <1>11, <2>1, HandIn DEF NotARow
  <2>3. Ratio'
    BY <1>11, <2>1, RatioSearch DEF NotARow
  <2> QED
    BY <1>2, <2>2, <2>3 DEF IInv
<1>12. CASE Panic(w)
  <2>1. \A v \in Workers : pc'[v] = pc[v] \/ (pc[v] = "rpc" /\ pc'[v] = "panicked")
    BY <1>1, <1>12 DEF Panic, Goto
  <2>2. HandledOwed' /\ HeldFresh' /\ OrdinalOnce' /\ Kept' /\ Course'
    BY <1>12, <2>1, QuietStep DEF Panic, buffers
  <2>3. Ratio'
    BY <1>12, <2>1, RatioQuiet DEF Panic, buffers
  <2> QED
    BY <1>2, <2>2, <2>3 DEF IInv
<1>13. CASE Update(w)
  <2>1. \A v \in Workers : pc'[v] = pc[v] \/ (pc[v] = "update" /\ pc'[v] = "loop")
    BY <1>1, <1>13 DEF Update, Goto
  <2>2. HandledOwed' /\ HeldFresh' /\ OrdinalOnce' /\ Kept' /\ Course'
    BY <1>13, <2>1, QuietStep DEF Update, buffers
  <2> QED
    BY <1>2, <1>13, <2>2, RatioUpdate DEF IInv
<1>14. CASE Hang(w)
  <2>1. HandledOwed' /\ HeldFresh' /\ OrdinalOnce' /\ Kept' /\ Course'
    BY <1>14, QuietStep DEF Hang, buffers
  <2>2. Ratio'
    BY <1>14, RatioQuiet DEF Hang, buffers
  <2> QED
    BY <1>2, <2>1, <2>2 DEF IInv
<1> QED
  BY <1>3, <1>4, <1>5, <1>6, <1>7, <1>9, <1>10, <1>11, <1>12, <1>13, <1>14 DEF Step

LEMMA NextIInv == IInv /\ [Next]_vars => IInv'
<1> SUFFICES ASSUME IInv, [Next]_vars PROVE IInv'
  OBVIOUS
<1>1. CASE UNCHANGED vars
  <2>1. /\ UNCHANGED <<inputs, stuck, queryIdx, now, pc, idx, t, failed, dropped, late, cap, rounds>>
        /\ UNCHANGED <<updates, captureError, counted, outcome, report>>
    BY <1>1 DEF vars, buffers
  <2>2. TypeOK'
    BY <2>1 DEF IInv, TypeOK, inputs
  <2>3. HandledOwed' /\ HeldFresh' /\ OrdinalOnce' /\ Kept' /\ Course'
    BY <2>1, QuietStep
  <2>4. Ratio'
    BY <2>1, RatioQuiet
  <2>5. Settled'
    BY <2>1 DEF IInv, Settled, Reported
  <2>6. ReportHonest'
    BY <2>1 DEF IInv, ReportHonest, ReportConserves, FullConcurrency, Reported, Merged, Count,
                Started, inputs
  <2> QED
    BY <2>2, <2>3, <2>4, <2>5, <2>6 DEF IInv
<1>2. CASE Next
  <2>1. TypeOK'
    BY <1>2, TypeStep DEF IInv, HeldFresh
  <2>2. CASE Release
    <3>1. \A v \in Workers : pc'[v] = pc[v] \/ (pc[v] = "parked" /\ pc'[v] = "loop")
      BY <2>2 DEF Release
    <3>2. HandledOwed' /\ HeldFresh' /\ OrdinalOnce' /\ Kept' /\ Course'
      BY <2>2, <3>1, QuietStep DEF Release, buffers
    <3>3. Ratio'
      BY <2>2, <3>1, RatioQuiet DEF Release, buffers
    <3>4. ~Reported'
      BY <2>2 DEF Release, Reported
    <3> QED
      BY <2>1, <3>2, <3>3, <3>4 DEF IInv, Settled, ReportHonest, ReportConserves, FullConcurrency
  <2>3. CASE Join
    <3>1. HandledOwed' /\ HeldFresh' /\ OrdinalOnce' /\ Kept' /\ Course'
      BY <2>3, QuietStep DEF Join, buffers
    <3>2. Ratio'
      BY <2>3, RatioQuiet DEF Join, buffers
    <3> QED
      BY <2>1, <2>3, <3>1, <3>2, JoinReports DEF IInv
  <2>4. CASE Tick
    <3>1. HandledOwed' /\ HeldFresh' /\ OrdinalOnce' /\ Kept' /\ Course'
      BY <2>4, QuietStep DEF Tick, buffers
    <3>2. Ratio'
      BY <2>4, RatioQuiet DEF Tick, buffers
    <3>3. ~Reported'
      BY <2>4 DEF Tick, Reported
    <3> QED
      BY <2>1, <3>1, <3>2, <3>3 DEF IInv, Settled, ReportHonest, ReportConserves, FullConcurrency
  <2>5. CASE Over
    BY <1>1, <2>5 DEF Over
  <2>6. ASSUME NEW w \in Workers, Step(w) PROVE IInv'
    BY <2>1, <2>6, StepIInv
  <2> QED
    BY <1>2, <2>2, <2>3, <2>4, <2>5, <2>6 DEF Next
<1> QED
  BY <1>1, <1>2

\* The invariant holds in every reachable state of every search phase.
THEOREM HarnessInvariance == Spec => []IInv
BY InitIInv, NextIInv, PTL DEF Spec

\* No interleaving of fetch_add with the workers' loops gives an ordinal to two
\* of them or loses count of the updates that a ratio allows.
THEOREM DispatchIsKept == Spec => []DispatchKept
<1>1. IInv => DispatchKept
  <2> SUFFICES ASSUME IInv PROVE RatioHeld
    BY DEF IInv, DispatchKept
  <2> SUFFICES ASSUME NEW w \in Workers
               PROVE  UpdatesOf(w) * RatioSearches
                        <= RatioUpdates * (Cardinality(t[w]) + Cardinality(failed[w]))
    BY DEF RatioHeld
  <2> DEFINE a == UpdatesOf(w) * RatioSearches
             b == RatioUpdates * (Cardinality(t[w]) + Cardinality(failed[w]))
             c == RatioSearches * (RatioUpdates - rounds[w])
             d == RatioUpdates * rounds[w]
  <2>1. /\ RatioSearches \in Nat /\ RatioUpdates \in Nat /\ rounds[w] \in Nat
        /\ Cardinality(t[w]) \in Nat /\ Cardinality(failed[w]) \in Nat /\ UpdatesOf(w) \in Nat
    BY Buffers, HarnessAssumption DEF IInv
  <2>2. a \in Nat /\ b \in Nat /\ d \in Nat
    BY <2>1
  <2>3. CASE pc[w] = "update"
    <3>1. rounds[w] < RatioUpdates /\ a + c <= b
      BY <2>3 DEF IInv, Ratio
    <3>2. RatioUpdates - rounds[w] \in Nat
      BY <2>1, <3>1
    <3>3. c \in Nat
      BY <2>1, <3>2
    <3> HIDE DEF a, b, c, d
    <3>4. a <= b
      BY <2>2, <3>1, <3>3
    <3> QED
      BY <3>4 DEF a, b
  <2>4. CASE pc[w] # "update"
    <3>1. a + d <= b
      BY <2>4 DEF IInv, Ratio
    <3> HIDE DEF a, b, c, d
    <3>2. a <= b
      BY <2>2, <3>1
    <3> QED
      BY <3>2 DEF a, b
  <2> QED
    BY <2>3, <2>4
<1> QED
  BY <1>1, HarnessInvariance, PTL

\* What compute_search_stats reports after the join is the whole run, at the
\* concurrency it names.
THEOREM ReportIsHonest == Spec => []ReportHonest
<1>1. IInv => ReportHonest
  BY DEF IInv
<1> QED
  BY <1>1, HarnessInvariance, PTL

=============================================================================
