------------------------- MODULE RedisClusterProofs -------------------------
(***************************************************************************)
(* What a Redis run reads back from a server it does not own.  For every   *)
(* cluster, corpus and sequence of migrations: the count of a prefix scan  *)
(* is sound.  For every number of runs on one server: the verdict of the   *)
(* commandstats guard is about a run's own calls.                          *)
(***************************************************************************)
EXTENDS PrefixScan, CommandStats, FiniteSetTheorems, TLAPS

-----------------------------------------------------------------------------
\* The scan.

\* A key is with the owner of its slot, or, during a migration, with its target.
Placed ==
  \A s \in Slots :
    /\ moving[s] # owner[s]
    /\ \A k \in corpus : SlotOf[k] = s => place[k] \in {owner[s], moving[s]} \ {NoNode}

Scanning == pc \in {"scan", "pages", "slots2", "nodes2", "confirm2", "end"}

\* A slot that changed hands once since the scan began is not where it was.
Opened ==
  Scanning => \A s \in Slots :
    /\ hands[s] = 0 => owner[s] = before[s]
    /\ hands[s] = 1 => owner[s] # before[s]

\* A slot has only been where it was found.
Unmoved(k) == hands[SlotOf[k]] = 0 /\ place[k] = before[SlotOf[k]]

\* A key that never left its primary has been seen there, is being seen, or its
\* primary is still to be scanned.
Covered ==
  /\ pc = "scan" => \A k \in corpus : Unmoved(k) => k \in seen \/ before[SlotOf[k]] \in todo
  /\ pc = "pages" => \A k \in corpus : Unmoved(k) =>
       k \in seen \/ before[SlotOf[k]] \in todo \/ k \in stay
  /\ pc \in {"slots2", "nodes2", "confirm2", "end"} => \A k \in corpus : Unmoved(k) => k \in seen

\* What the closing read of the topology adds: asked without a migration, a
\* primary that has kept a slot has kept its keys.
Closing ==
  /\ pc = "nodes2" => \A k \in corpus :
       hands[SlotOf[k]] = 0 /\ before[SlotOf[k]] \notin todo => k \in seen
  /\ pc = "confirm2" => \A k \in corpus : hands[SlotOf[k]] = 0 => k \in seen

Alone ==
  /\ clustered => pc # "end"
  /\ ~clustered => /\ pc \in {"scan", "pages", "end"}
                   /\ \A s \in Slots : moving[s] = NoNode /\ hands[s] = 0
Quick == stopOnFirst => seen = {}

ScanIInv ==
  TypeOK /\ Placed /\ Opened /\ Covered /\ Closing /\ Alone /\ Quick /\ CountIsSound

LEMMA ScanTypes ==
  ASSUME TypeOK
  PROVE  /\ owner \in [Slots -> Nodes] /\ moving \in [Slots -> Nodes \cup {NoNode}]
         /\ place \in [Keys -> Nodes] /\ hands \in [Slots -> Nat]
         /\ SlotOf \in [Keys -> Slots] /\ corpus \subseteq Keys /\ NoNode \notin Nodes
         /\ \A k \in corpus : SlotOf[k] \in Slots /\ place[k] \in Nodes
BY ScanAssumption DEF TypeOK

\* No answer can be wrong that does not exceed the corpus.
LEMMA SeenBound ==
  ASSUME TypeOK
  PROVE  /\ Cardinality(seen) \in Nat /\ Cardinality(seen) <= Cardinality(corpus)
         /\ Cardinality(corpus) \in Nat /\ Cardinality(corpus) <= Cardinality(Keys)
         /\ Cardinality(Keys) \in Nat /\ IsFiniteSet(corpus)
         /\ corpus # {} => Cardinality(corpus) >= 1
<1>1. IsFiniteSet(Keys) /\ seen \subseteq corpus /\ corpus \subseteq Keys
  BY ScanAssumption DEF TypeOK
<1>2. IsFiniteSet(corpus) /\ IsFiniteSet(seen)
  BY <1>1, FS_Subset
<1>3. Cardinality(seen) \in Nat /\ Cardinality(corpus) \in Nat /\ Cardinality(Keys) \in Nat
  BY <1>1, <1>2, FS_CardinalityType
<1>4. Cardinality(seen) <= Cardinality(corpus) /\ Cardinality(corpus) <= Cardinality(Keys)
  BY <1>1, <1>2, FS_Subset
<1>5. corpus # {} => Cardinality(corpus) >= 1
  BY <1>2, <1>3, FS_EmptySet
<1> QED
  BY <1>2, <1>3, <1>4, <1>5

LEMMA InitScan == Init => ScanIInv
<1> SUFFICES ASSUME Init PROVE ScanIInv
  OBVIOUS
<1>1. IsFiniteSet(Keys) /\ Cardinality(Keys) \in Nat /\ SlotOf \in [Keys -> Slots] /\ NoNode \notin Nodes
  BY ScanAssumption, FS_CardinalityType
<1>2. Owners(owner) \subseteq Nodes /\ \A s \in Slots : owner[s] \in Owners(owner) /\ owner[s] \in Nodes
  BY DEF Init, Owners
<1>3. \A k \in Keys : SlotOf[k] \in Slots /\ place[k] = owner[SlotOf[k]]
  BY <1>1 DEF Init
<1>4. TypeOK
  <2>1. place \in [Keys -> Nodes]
    BY <1>2, <1>3 DEF Init
  <2>2. hands \in [Slots -> Nat] /\ moving \in [Slots -> Nodes \cup {NoNode}] /\ count \in 0..Cardinality(Keys)
    BY <1>1 DEF Init
  <2>3. pc \in Phases /\ todo \subseteq Nodes
    BY <1>2 DEF Init, Phases
  <2> QED
    BY <2>1, <2>2, <2>3 DEF Init, TypeOK
<1>5. Placed
  BY <1>1, <1>2, <1>3 DEF Init, Placed
<1>6. Opened
  BY DEF Init, Opened
<1>7. Covered
  <2>1. \A k \in corpus : ~clustered => before[SlotOf[k]] \in todo
    BY <1>2, <1>3 DEF Init
  <2> QED
    BY <2>1 DEF Init, Covered
<1>8. Closing /\ Alone /\ Quick /\ CountIsSound
  BY DEF Init, Closing, Alone, Quick, CountIsSound
<1> QED
  BY <1>4, <1>5, <1>6, <1>7, <1>8 DEF ScanIInv

\* While it has no answer, the scan is sound.
LEMMA NoAnswer == ASSUME result' # "counted" PROVE CountIsSound'
BY DEF CountIsSound

LEMMA BeginKeeps ==
  ASSUME ScanIInv, Running, NEW s \in Slots, NEW n \in Nodes, Begin(s, n)
  PROVE  ScanIInv'
<1>1. /\ moving' \in [Slots -> Nodes \cup {NoNode}] /\ moving'[s] = n /\ n # owner[s]
      /\ moving[s] = NoNode /\ \A x \in Slots : x # s => moving'[x] = moving[x]
  BY ScanTypes DEF ScanIInv, Begin
<1>2. UNCHANGED <<owner, place, hands, clustered, corpus, stopOnFirst, maxKeys, pc, ranges, before>>
      /\ UNCHANGED <<todo, node, stay, may, seen, result, count>> /\ clustered
  BY DEF Begin, scan, client
<1>3. TypeOK'
  BY <1>1, <1>2 DEF ScanIInv, TypeOK, Begin
<1>4. Placed'
  BY <1>1, <1>2, ScanTypes DEF ScanIInv, Placed
<1>5. Opened' /\ Covered' /\ Closing' /\ Alone' /\ Quick'
  BY <1>2 DEF ScanIInv, Opened, Scanning, Covered, Unmoved, Closing, Alone, Quick
<1> QED
  BY <1>2, <1>3, <1>4, <1>5, NoAnswer DEF ScanIInv, Running

LEMMA CancelKeeps ==
  ASSUME ScanIInv, Running, NEW s \in Slots, Cancel(s)
  PROVE  ScanIInv'
<1>1. /\ moving' \in [Slots -> Nodes \cup {NoNode}] /\ moving'[s] = NoNode
      /\ \A x \in Slots : x # s => moving'[x] = moving[x]
      /\ \A k \in corpus : SlotOf[k] = s => place[k] = owner[s]
  BY ScanTypes DEF ScanIInv, Cancel
<1>2. UNCHANGED <<owner, place, hands, begun, clustered, corpus, stopOnFirst, maxKeys, pc, ranges, before>>
      /\ UNCHANGED <<todo, node, stay, may, seen, result, count>>
  BY DEF Cancel, scan, client
<1>3. TypeOK'
  BY <1>1, <1>2 DEF ScanIInv, TypeOK
<1>4. Placed'
  BY <1>1, <1>2, ScanTypes DEF ScanIInv, Placed
<1>5. Opened' /\ Covered' /\ Closing' /\ Quick'
  BY <1>2 DEF ScanIInv, Opened, Scanning, Covered, Unmoved, Closing, Quick
<1>6. Alone'
  BY <1>1, <1>2 DEF ScanIInv, Alone
<1> QED
  BY <1>2, <1>3, <1>4, <1>5, <1>6, NoAnswer DEF ScanIInv, Running

\* A key that goes over has left its primary for good.
LEMMA MoveKeeps ==
  ASSUME ScanIInv, Running, NEW k \in Keys, MoveKey(k)
  PROVE  ScanIInv'
<1> DEFINE s == SlotOf[k]
           target == moving[s]
<1>1. /\ k \in corpus /\ s \in Slots /\ target \in Nodes /\ target # owner[s]
      /\ place' \in [Keys -> Nodes] /\ place'[k] = target
      /\ \A j \in Keys : j # k => place'[j] = place[j]
  BY ScanTypes DEF ScanIInv, MoveKey, Placed
<1>2. /\ UNCHANGED <<owner, moving, hands, begun, clustered, corpus, stopOnFirst, maxKeys>>
      /\ UNCHANGED <<pc, ranges, before, todo, node, seen, result, count>>
      /\ stay' = stay \ {k} /\ may \subseteq may' /\ may' \subseteq may \cup {k}
  BY DEF MoveKey, scan
<1>3. TypeOK'
  BY <1>1, <1>2 DEF ScanIInv, TypeOK
<1>4. Placed'
  BY <1>1, <1>2, ScanTypes DEF ScanIInv, Placed
<1>5. Scanning => ~Unmoved(k)'
  BY <1>1, <1>2 DEF Unmoved, ScanIInv, Opened
<1>6. \A j \in corpus : j # k => (Unmoved(j)' <=> Unmoved(j))
  BY <1>1, <1>2, ScanTypes DEF Unmoved, ScanIInv
<1>7. Covered'
  BY <1>2, <1>5, <1>6 DEF ScanIInv, Covered, Scanning
<1>8. Opened' /\ Closing' /\ Alone' /\ Quick'
  BY <1>2 DEF ScanIInv, Opened, Scanning, Closing, Alone, Quick
<1> QED
  BY <1>2, <1>3, <1>4, <1>7, <1>8, NoAnswer DEF ScanIInv, Running

\* A slot that changes hands takes its keys out of what the scan answers for.
LEMMA CompleteKeeps ==
  ASSUME ScanIInv, Running, NEW s \in Slots, Complete(s)
  PROVE  ScanIInv'
<1>1. /\ moving' \in [Slots -> Nodes \cup {NoNode}] /\ moving'[s] = NoNode
      /\ owner' \in [Slots -> Nodes] /\ owner'[s] = moving[s] /\ moving[s] \in Nodes
      /\ hands' \in [Slots -> Nat] /\ hands'[s] = hands[s] + 1
      /\ \A x \in Slots : x # s => moving'[x] = moving[x] /\ owner'[x] = owner[x] /\ hands'[x] = hands[x]
      /\ \A k \in corpus : SlotOf[k] = s => place[k] = moving[s]
  BY ScanTypes DEF ScanIInv, Complete
<1>2. UNCHANGED <<place, begun, clustered, corpus, stopOnFirst, maxKeys, pc, ranges, before>>
      /\ UNCHANGED <<todo, node, stay, may, seen, result, count>>
  BY DEF Complete, scan, client
<1>3. hands[s] \in Nat /\ moving[s] # owner[s] /\ moving[s] # NoNode
  BY ScanTypes DEF ScanIInv, Placed, Complete
<1>4. TypeOK'
  BY <1>1, <1>2 DEF ScanIInv, TypeOK
<1>5. Placed'
  BY <1>1, <1>2, <1>3, ScanTypes DEF ScanIInv, Placed
<1>6. Opened'
  BY <1>1, <1>2, <1>3 DEF ScanIInv, Opened, Scanning
<1>7. \A k \in corpus : /\ hands'[SlotOf[k]] = 0 => hands[SlotOf[k]] = 0
                        /\ Unmoved(k)' => Unmoved(k)
  BY <1>1, <1>2, <1>3, ScanTypes DEF Unmoved, ScanIInv
<1>8. Covered' /\ Closing'
  BY <1>2, <1>7 DEF ScanIInv, Covered, Closing
<1>9. Alone' /\ Quick'
  BY <1>2, <1>3 DEF ScanIInv, Alone, Quick
<1> QED
  BY <1>2, <1>4, <1>5, <1>6, <1>8, <1>9, NoAnswer DEF ScanIInv, Running

LEMMA ReadSlotsKeeps == ASSUME ScanIInv, ReadSlots PROVE ScanIInv'
<1>1. /\ UNCHANGED <<owner, moving, place, begun, hands, clustered, corpus, stopOnFirst, maxKeys>>
      /\ UNCHANGED <<before, node, stay, may, seen, result, count>>
      /\ ranges' = owner /\ todo' = Owners(owner) /\ result = "none"
      /\ \/ pc = "slots" /\ pc' = "nodes"
         \/ pc = "slots2" /\ pc' = "nodes2"
  BY DEF ReadSlots, cluster, scan, Running, After
<1>2. Owners(owner) \subseteq Nodes /\ \A s \in Slots : owner[s] \in Owners(owner)
  BY ScanTypes DEF Owners, ScanIInv
<1>3. TypeOK'
  BY <1>1, <1>2 DEF ScanIInv, TypeOK, Phases
<1>4. Placed' /\ Opened' /\ Quick'
  BY <1>1 DEF ScanIInv, Placed, Opened, Scanning, Quick
<1>5. Covered'
  BY <1>1 DEF ScanIInv, Covered, Unmoved
<1>6. Closing'
  BY <1>1, <1>2, ScanTypes DEF ScanIInv, Closing, Opened, Scanning
<1>7. Alone'
  BY <1>1 DEF ScanIInv, Alone
<1> QED
  BY <1>1, <1>3, <1>4, <1>5, <1>6, <1>7, NoAnswer DEF ScanIInv

\* The scan ends without an answer.
LEMMA EndKeeps ==
  ASSUME ScanIInv, result' \in {"refused", "failed"},
         UNCHANGED <<cluster, scan, pc, ranges, before, todo, node, stay, may, seen, count>>
  PROVE  ScanIInv'
<1>1. /\ UNCHANGED <<owner, moving, place, begun, hands, clustered, corpus, stopOnFirst, maxKeys>>
      /\ UNCHANGED <<pc, ranges, before, todo, node, stay, may, seen, count>>
  BY DEF cluster, scan
<1>2. TypeOK'
  BY <1>1 DEF ScanIInv, TypeOK
<1>3. Placed' /\ Opened' /\ Covered' /\ Closing' /\ Alone' /\ Quick'
  BY <1>1 DEF ScanIInv, Placed, Opened, Scanning, Covered, Unmoved, Closing, Alone, Quick
<1> QED
  BY <1>2, <1>3, NoAnswer DEF ScanIInv

\* A primary without a migration has all the keys of the slots it has kept.
LEMMA ReadNodeKeeps ==
  ASSUME ScanIInv, NEW n \in Nodes, ReadNode(n)
  PROVE  ScanIInv'
<1>1. CASE Annotated(n)
  BY <1>1, EndKeeps DEF ReadNode
<1>2. CASE ~Annotated(n)
  <2>1. /\ UNCHANGED <<owner, moving, place, begun, hands, clustered, corpus, stopOnFirst, maxKeys>>
        /\ UNCHANGED <<ranges, before, node, stay, may, seen, result, count>>
        /\ todo' = todo \ {n} /\ n \in todo /\ result = "none"
        /\ \/ pc = "nodes" /\ pc' = "nodes"
           \/ pc = "nodes" /\ pc' = "confirm"
           \/ pc = "nodes2" /\ pc' = "nodes2"
           \/ pc = "nodes2" /\ pc' = "confirm2" /\ todo' = {}
    BY <1>2 DEF ReadNode, cluster, scan, Running, After
  <2>2. TypeOK'
    BY <2>1 DEF ScanIInv, TypeOK, Phases
  <2>3. Placed' /\ Opened' /\ Quick' /\ Alone'
    BY <2>1 DEF ScanIInv, Placed, Opened, Scanning, Quick, Alone
  <2>4. Covered'
    BY <2>1 DEF ScanIInv, Covered, Unmoved
  <2>5. ASSUME pc = "nodes2", NEW k \in corpus, hands[SlotOf[k]] = 0, before[SlotOf[k]] \notin todo'
        PROVE  k \in seen
    <3>1. CASE before[SlotOf[k]] \notin todo
      BY <2>5, <3>1 DEF ScanIInv, Closing
    <3>2. CASE before[SlotOf[k]] = n
      <4>1. SlotOf[k] \in Slots /\ owner[SlotOf[k]] = n
        BY <2>5, <3>2, ScanTypes DEF ScanIInv, Opened, Scanning
      <4>2. moving[SlotOf[k]] = NoNode
        BY <1>2, <4>1 DEF Annotated
      <4>3. place[k] = n
        BY <4>1, <4>2 DEF ScanIInv, Placed
      <4> QED
        BY <2>5, <3>2, <4>3 DEF ScanIInv, Covered, Unmoved
    <3> QED
      BY <2>1, <2>5, <3>1, <3>2
  <2>6. Closing'
    BY <2>1, <2>5 DEF Closing
  <2> QED
    BY <2>1, <2>2, <2>3, <2>4, <2>6, NoAnswer DEF ScanIInv
<1> QED
  BY <1>1, <1>2

LEMMA ConfirmKeeps == ASSUME ScanIInv, Confirm PROVE ScanIInv'
<1>1. CASE owner # ranges
  BY <1>1, EndKeeps DEF Confirm, cluster
<1>2. CASE owner = ranges
  <2>1. /\ UNCHANGED <<owner, moving, place, begun, clustered, corpus, stopOnFirst, maxKeys>>
        /\ UNCHANGED <<ranges, node, stay, may, seen, result, count>>
        /\ before' = owner /\ todo' = Owners(owner) /\ hands' = [s \in Slots |-> 0]
        /\ pc = "confirm" /\ pc' = "scan" /\ result = "none"
    BY <1>2 DEF Confirm, scan, Running
  <2>2. Owners(owner) \subseteq Nodes /\ \A s \in Slots : owner[s] \in Owners(owner)
    BY ScanTypes DEF Owners, ScanIInv
  <2>3. TypeOK'
    <3>1. hands' \in [Slots -> Nat] /\ before' \in [Slots -> Nodes]
      BY <2>1, ScanTypes DEF ScanIInv
    <3> QED
      BY <2>1, <2>2, <3>1 DEF ScanIInv, TypeOK, Phases
  <2>4. Placed' /\ Opened' /\ Quick'
    BY <2>1 DEF ScanIInv, Placed, Opened, Scanning, Quick
  <2>5. Covered'
    BY <2>1, <2>2, ScanTypes DEF ScanIInv, Covered
  <2>6. Closing' /\ Alone'
    BY <2>1 DEF ScanIInv, Closing, Alone
  <2> QED
    BY <2>1, <2>3, <2>4, <2>5, <2>6, NoAnswer DEF ScanIInv
<1> QED
  BY <1>1, <1>2

\* A scan that saw the whole corpus answers rightly.
LEMMA WholeIsRight ==
  ASSUME ScanIInv, corpus \subseteq seen
  PROVE  IF stopOnFirst THEN (Cardinality(seen) = 0) <=> (corpus = {})
         ELSE Cardinality(seen) = Cardinality(corpus)
<1>1. seen = corpus
  BY DEF ScanIInv, TypeOK
<1>2. stopOnFirst => corpus = {}
  BY <1>1 DEF ScanIInv, Quick
<1>3. Cardinality({}) = 0
  BY FS_EmptySet
<1> QED
  BY <1>1, <1>2, <1>3

\* The answer is the number of keys seen.
LEMMA AnswerKeeps ==
  ASSUME ScanIInv, Counted(Cardinality(seen)),
         (\A s \in Slots : ~(hands[s] >= 2 /\ owner[s] = before[s])) => corpus \subseteq seen,
         UNCHANGED <<cluster, scan, pc, ranges, before, todo, node, stay, may, seen>>
  PROVE  ScanIInv'
<1>1. /\ UNCHANGED <<owner, moving, place, begun, hands, clustered, corpus, stopOnFirst, maxKeys>>
      /\ UNCHANGED <<pc, ranges, before, todo, node, stay, may, seen>>
      /\ result' = "counted" /\ count' = Cardinality(seen)
  BY DEF cluster, scan, Counted
<1>2. TypeOK
  BY DEF ScanIInv
<1>3. TypeOK'
  BY <1>1, <1>2, SeenBound DEF TypeOK
<1>4. Placed' /\ Opened' /\ Covered' /\ Closing' /\ Alone' /\ Quick'
  BY <1>1 DEF ScanIInv, Placed, Opened, Scanning, Covered, Unmoved, Closing, Alone, Quick
<1>5. count' <= Cardinality(corpus)'
  BY <1>1, <1>2, SeenBound
<1>6. ~MovedBack' => corpus \subseteq seen
  BY <1>1 DEF MovedBack
<1>7. ~MovedBack' => Right'
  BY <1>1, <1>6, WholeIsRight DEF Right
<1> QED
  BY <1>3, <1>4, <1>5, <1>7 DEF ScanIInv, CountIsSound

\* Two equal topologies, and no slot that came back between them: none left.
LEMMA ConfirmAfterKeeps == ASSUME ScanIInv, ConfirmAfter PROVE ScanIInv'
<1>1. CASE owner # ranges \/ ranges # before
  BY <1>1, EndKeeps DEF ConfirmAfter
<1>2. CASE owner = ranges /\ ranges = before
  <2>1. pc = "confirm2"
    BY DEF ConfirmAfter
  <2>2. \A s \in Slots : hands[s] \in Nat /\ hands[s] # 1
    BY <1>2, <2>1, ScanTypes DEF ScanIInv, Opened, Scanning
  <2>3. (\A s \in Slots : ~(hands[s] >= 2 /\ owner[s] = before[s])) => corpus \subseteq seen
    <3> SUFFICES ASSUME \A s \in Slots : ~(hands[s] >= 2 /\ owner[s] = before[s]), NEW k \in corpus
                 PROVE  k \in seen
      OBVIOUS
    <3>1. SlotOf[k] \in Slots
      BY ScanTypes DEF ScanIInv
    <3>2. hands[SlotOf[k]] = 0
      BY <1>2, <2>2, <3>1
    <3> QED
      BY <2>1, <3>2 DEF ScanIInv, Closing
  <2> QED
    BY <1>2, <2>3, AnswerKeeps DEF ConfirmAfter
<1> QED
  BY <1>1, <1>2

LEMMA ReturnKeeps == ASSUME ScanIInv, Return PROVE ScanIInv'
<1>1. pc = "end" /\ Counted(Cardinality(seen))
  BY DEF Return
<1>2. ASSUME NEW k \in corpus PROVE k \in seen
  <2>1. SlotOf[k] \in Slots /\ hands[SlotOf[k]] = 0 /\ moving[SlotOf[k]] = NoNode
    BY <1>1, ScanTypes DEF ScanIInv, Alone
  <2>2. place[k] = before[SlotOf[k]]
    BY <1>1, <2>1 DEF ScanIInv, Placed, Opened, Scanning
  <2> QED
    BY <1>1, <2>1, <2>2 DEF ScanIInv, Covered, Unmoved
<1> QED
  BY <1>1, <1>2, AnswerKeeps DEF Return

LEMMA OpenKeeps ==
  ASSUME ScanIInv, NEW n \in Nodes, Open(n)
  PROVE  ScanIInv'
<1>1. /\ UNCHANGED <<owner, moving, place, begun, hands, clustered, corpus, stopOnFirst, maxKeys>>
      /\ UNCHANGED <<ranges, before, seen, result, count>>
      /\ pc = "scan" /\ pc' = "pages" /\ node' = n /\ todo' = todo \ {n} /\ result = "none"
      /\ stay' = Held(n) /\ may' = Held(n)
  BY DEF Open, cluster, scan, Running
<1>2. TypeOK'
  BY <1>1 DEF ScanIInv, TypeOK, Phases, Held
<1>3. Placed' /\ Opened' /\ Quick' /\ Alone' /\ Closing'
  BY <1>1 DEF ScanIInv, Placed, Opened, Scanning, Quick, Alone, Closing
<1>4. Covered'
  BY <1>1 DEF ScanIInv, Covered, Unmoved, Held
<1> QED
  BY <1>1, <1>2, <1>3, <1>4, NoAnswer DEF ScanIInv

LEMMA FirstKeyKeeps == ASSUME ScanIInv, FirstKey PROVE ScanIInv'
<1>1. /\ UNCHANGED <<owner, moving, place, begun, hands, clustered, corpus, stopOnFirst, maxKeys>>
      /\ UNCHANGED <<pc, ranges, before, todo, node, stay, may, seen>>
      /\ result' = "counted" /\ count' = 1 /\ may # {} /\ stopOnFirst
  BY DEF FirstKey, cluster, scan, Counted
<1>2. TypeOK /\ corpus # {}
  BY <1>1 DEF ScanIInv, TypeOK
<1>3. /\ Cardinality(corpus) \in Nat /\ Cardinality(Keys) \in Nat
      /\ 1 <= Cardinality(corpus) /\ Cardinality(corpus) <= Cardinality(Keys)
  BY <1>2, SeenBound
<1>4. 1 \in 0..Cardinality(Keys)
  BY <1>3
<1>5. TypeOK'
  BY <1>1, <1>2, <1>4 DEF TypeOK
<1>6. Placed' /\ Opened' /\ Covered' /\ Closing' /\ Alone' /\ Quick'
  BY <1>1 DEF ScanIInv, Placed, Opened, Scanning, Covered, Unmoved, Closing, Alone, Quick
<1>7. CountIsSound'
  BY <1>1, <1>2, <1>3 DEF CountIsSound, Right
<1> QED
  BY <1>5, <1>6, <1>7 DEF ScanIInv

\* What stayed on the primary from the first page to the last is returned.
LEMMA CloseKeeps == ASSUME ScanIInv, Close PROVE ScanIInv'
<1>1. /\ UNCHANGED <<owner, moving, place, begun, hands, clustered, corpus, stopOnFirst, maxKeys>>
      /\ UNCHANGED <<ranges, before, todo, count>>
      /\ stay' = {} /\ may' = {} /\ pc = "pages" /\ result = "none"
  BY DEF Close, cluster, scan, Running
<1>2. PICK page \in SUBSET may :
       /\ stay \subseteq page
       /\ stopOnFirst => page = {}
       /\ seen' = seen \cup page
       /\ IF Full(seen')
          THEN result' = "failed" /\ UNCHANGED <<pc, node>>
          ELSE /\ node' = NoNode
               /\ pc' = IF todo # {} THEN "scan" ELSE IF clustered THEN "slots2" ELSE "end"
               /\ UNCHANGED result
  BY DEF Close
<1>3. /\ result' \in {"none", "failed"} /\ node' \in {node, NoNode}
      /\ \/ pc' = "pages" /\ result' = "failed"
         \/ pc' = "scan"
         \/ pc' \in {"slots2", "end"} /\ todo = {}
      /\ ~clustered => pc' \in {"pages", "scan", "end"}
      /\ clustered => pc' # "end"
  BY <1>1, <1>2
<1>4. TypeOK'
  BY <1>1, <1>2, <1>3 DEF ScanIInv, TypeOK, Phases
<1>5. Placed' /\ Opened' /\ Closing' /\ Alone' /\ Quick'
  BY <1>1, <1>2, <1>3 DEF ScanIInv, Placed, Opened, Scanning, Quick, Alone, Closing
<1>6. Covered'
  BY <1>1, <1>2, <1>3 DEF ScanIInv, Covered, Unmoved
<1> QED
  BY <1>3, <1>4, <1>5, <1>6, NoAnswer DEF ScanIInv

LEMMA NextScan == ASSUME ScanIInv, [Next]_vars PROVE ScanIInv'
<1>1. CASE Cluster
  BY <1>1, CompleteKeeps, CancelKeeps, BeginKeeps, MoveKeeps DEF Cluster
<1>2. CASE Client
  <2>1. CASE Fail
    BY <2>1, EndKeeps DEF Fail
  <2> QED
    BY <1>2, <2>1, ReadSlotsKeeps, ReadNodeKeeps, ConfirmKeeps, OpenKeeps, FirstKeyKeeps, CloseKeeps,
       ConfirmAfterKeeps, ReturnKeeps DEF Client
<1>3. CASE UNCHANGED vars
  <2>1. /\ UNCHANGED <<owner, moving, place, begun, hands, clustered, corpus, stopOnFirst, maxKeys>>
        /\ UNCHANGED <<pc, ranges, before, todo, node, stay, may, seen, result, count>>
    BY <1>3 DEF vars, cluster, scan, client
  <2>2. TypeOK' /\ Placed' /\ Opened' /\ Quick' /\ Alone' /\ Closing'
    BY <2>1 DEF ScanIInv, TypeOK, Placed, Opened, Scanning, Quick, Alone, Closing
  <2>3. Covered' /\ CountIsSound'
    BY <2>1 DEF ScanIInv, Covered, Unmoved, CountIsSound, Right, MovedBack
  <2> QED
    BY <2>2, <2>3 DEF ScanIInv
<1> QED
  BY <1>1, <1>2, <1>3 DEF Next, Done

\* The prefix scan's bookkeeping is right, whatever is migrated under it.
THEOREM ScanInvariance == Spec => []ScanIInv
<1> QED
  BY InitScan, NextScan, PTL DEF Spec

\* Connection::scan_prefix never counts a key that does not exist; and two equal
\* topologies around the walk, each read without a migration in sight, mean that
\* it counted every key that does, unless a slot left and came back in between.
THEOREM ScanCountsSoundly == Spec => []CountIsSound
<1>1. ScanIInv => CountIsSound
  BY DEF ScanIInv
<1> QED
  BY <1>1, ScanInvariance, PTL

-----------------------------------------------------------------------------
\* The counters.

\* One run and the counters.  It is at work only with a baseline; since then the
\* counters only grew, unless they were wiped, and grew by its own failures
\* alone, unless others joined in; a failure of the operation at work shows in a
\* counter the guard will look at.  Only a run not at work has a verdict.
OwnCourse(r) ==
  /\ Busy(r) \/ doing[r] = "configured" => primed[r]
  /\ primed[r] =>
       /\ ~wiped[r] => \A c \in Cmds : baseline[r][c] <= failedCalls[c]
       /\ ~joined[r] /\ ~ownFails[r] => \A c \in Cmds : failedCalls[c] <= baseline[r][c]
       /\ Busy(r) /\ opFails[r] /\ ~wiped[r] =>
            \E c \in Watched[doing[r]] : baseline[r][c] < failedCalls[c]
  /\ doing[r] \in {"new", "configured"} \/ ~primed[r] \/ Busy(r) => verdict[r] = "none"
  /\ verdict[r] = "ok" /\ ~wiped[r] => ~opFails[r]
  /\ verdict[r] = "err" /\ ~joined[r] => ownFails[r]

StatsIInv == StatsTypeOK /\ \A r \in Runs : OwnCourse(r)

LEMMA WatchedFacts ==
  /\ DOMAIN Watched = {"upload", "search", "mixed"}
  /\ \A o \in DOMAIN Watched : Watched[o] \subseteq Cmds
  /\ Zero \in Counts /\ \A c \in Cmds : Zero[c] = 0
<1>1. DOMAIN Watched = {"upload", "search", "mixed"}
  BY DEF Watched
<1>2. \A o \in DOMAIN Watched : Watched[o] \subseteq Cmds
  BY <1>1 DEF Watched, Cmds
<1>3. 0 \in 0..MaxFails
  BY StatsAssumption
<1> QED
  BY <1>1, <1>2, <1>3 DEF Zero, Counts

LEMMA StatsNumbers ==
  ASSUME StatsTypeOK
  PROVE  /\ \A c \in Cmds : failedCalls[c] \in Nat /\ failedCalls[c] <= MaxFails
         /\ \A r \in Runs : \A c \in Cmds : baseline[r][c] \in Nat
<1>1. \A f \in Counts : \A c \in Cmds : f[c] \in Nat /\ f[c] <= MaxFails
  BY StatsAssumption DEF Counts
<1> QED
  BY <1>1 DEF StatsTypeOK

LEMMA InitStats == StatsInit => StatsIInv
<1> SUFFICES ASSUME StatsInit PROVE StatsIInv
  OBVIOUS
<1>1. StatsTypeOK
  BY WatchedFacts DEF StatsInit, StatsTypeOK, Counts
<1>2. ASSUME NEW r \in Runs PROVE OwnCourse(r)
  BY WatchedFacts DEF StatsInit, OwnCourse, Busy
<1> QED
  BY <1>1, <1>2 DEF StatsIInv

\* What a reset, or the snapshot in its place, leaves to its own run ...
LEMMA ResetOwn ==
  ASSUME StatsIInv, NEW r \in Runs, ResetCommandstats(r)
  PROVE  /\ failedCalls' \in Counts /\ baseline' \in [Runs -> Counts]
         /\ primed' \in [Runs -> BOOLEAN] /\ ownFails' \in [Runs -> BOOLEAN]
         /\ wiped' \in [Runs -> BOOLEAN] /\ joined' \in [Runs -> BOOLEAN]
         /\ primed'[r] /\ \A c \in Cmds : baseline'[r][c] <= failedCalls'[c]
         /\ ~joined'[r] => \A c \in Cmds : failedCalls'[c] <= baseline'[r][c]
<1> USE DEF StatsIInv, StatsTypeOK
<1>1. primed' \in [Runs -> BOOLEAN] /\ ownFails' \in [Runs -> BOOLEAN] /\ primed'[r]
  BY DEF ResetCommandstats
<1>2. \A c \in Cmds : failedCalls[c] \in Nat
  BY StatsNumbers
<1>3. CASE resettable
  <2>1. failedCalls' = Zero /\ baseline'[r] = Zero /\ baseline' \in [Runs -> Counts]
    BY <1>3, WatchedFacts DEF ResetCommandstats
  <2>2. wiped' \in [Runs -> BOOLEAN] /\ joined' \in [Runs -> BOOLEAN]
    BY <1>3 DEF ResetCommandstats
  <2> QED
    BY <1>1, <2>1, <2>2, WatchedFacts
<1>4. CASE ~resettable
  <2>1. PICK snapshot \in {failedCalls, Zero} :
          /\ baseline' = [baseline EXCEPT ![r] = snapshot]
          /\ joined' = [joined EXCEPT ![r] = snapshot # failedCalls]
    BY <1>4 DEF ResetCommandstats
  <2>2. /\ failedCalls' = failedCalls /\ wiped' \in [Runs -> BOOLEAN]
        /\ baseline'[r] = snapshot /\ joined'[r] = (snapshot # failedCalls)
        /\ baseline' \in [Runs -> Counts] /\ joined' \in [Runs -> BOOLEAN]
    BY <1>4, <2>1, WatchedFacts DEF ResetCommandstats
  <2> QED
    BY <1>1, <1>2, <2>1, <2>2, WatchedFacts
<1> QED
  BY <1>3, <1>4

\* ... and to any other: either nothing has happened to it, or it is wiped.
LEMMA ResetOther ==
  ASSUME StatsIInv, NEW r \in Runs, ResetCommandstats(r), NEW s \in Runs, s # r
  PROVE  /\ primed'[s] = primed[s] /\ baseline'[s] = baseline[s]
         /\ ownFails'[s] = ownFails[s] /\ joined'[s] = joined[s]
         /\ \/ failedCalls' = Zero /\ wiped'[s]
            \/ failedCalls' = failedCalls /\ wiped'[s] = wiped[s]
<1> USE DEF StatsIInv, StatsTypeOK
<1>1. primed'[s] = primed[s] /\ ownFails'[s] = ownFails[s]
  BY DEF ResetCommandstats
<1>2. CASE resettable
  BY <1>1, <1>2 DEF ResetCommandstats
<1>3. CASE ~resettable
  BY <1>1, <1>3 DEF ResetCommandstats
<1> QED
  BY <1>2, <1>3

\* A run to which nothing happens, except that the counters may be wiped.
LEMMA Bystander ==
  ASSUME StatsIInv, NEW s \in Runs, doing'[s] = doing[s], verdict'[s] = verdict[s],
         opFails'[s] = opFails[s], primed'[s] = primed[s], baseline'[s] = baseline[s],
         ownFails'[s] = ownFails[s], joined'[s] = joined[s],
         \/ failedCalls' = Zero /\ wiped'[s]
         \/ failedCalls' = failedCalls /\ wiped'[s] = wiped[s]
  PROVE  OwnCourse(s)'
<1>1. OwnCourse(s) /\ (Busy(s)' <=> Busy(s))
  BY DEF StatsIInv, Busy
<1>2. \A c \in Cmds : baseline[s][c] \in Nat
  BY StatsNumbers DEF StatsIInv
<1>3. CASE failedCalls' = failedCalls /\ wiped'[s] = wiped[s]
  BY <1>1, <1>3 DEF OwnCourse
<1>4. CASE failedCalls' = Zero /\ wiped'[s]
  <2>1. \A c \in Cmds : failedCalls'[c] <= baseline'[s][c]
    BY <1>2, <1>4, WatchedFacts
  <2> QED
    BY <1>1, <1>4, <2>1 DEF OwnCourse
<1> QED
  BY <1>3, <1>4

LEMMA ConfigureKeeps ==
  ASSUME StatsIInv, NEW r \in Runs, Configure(r)
  PROVE  StatsIInv'
<1>1. /\ doing' \in [Runs -> {"new", "configured", "ready", "ended"} \cup DOMAIN Watched]
      /\ doing[r] = "new" /\ doing'[r] = "configured" /\ \A s \in Runs : s # r => doing'[s] = doing[s]
      /\ UNCHANGED <<resettable, ops, verdict, opFails>> /\ ResetCommandstats(r)
  BY DEF Configure, StatsIInv, StatsTypeOK
<1>2. StatsTypeOK'
  BY <1>1, ResetOwn DEF StatsIInv, StatsTypeOK
<1>3. OwnCourse(r)'
  <2>1. verdict'[r] = "none" /\ ~Busy(r)'
    BY <1>1, WatchedFacts DEF StatsIInv, OwnCourse, Busy
  <2> QED
    BY <1>1, <2>1, ResetOwn DEF OwnCourse
<1>4. ASSUME NEW s \in Runs, s # r PROVE OwnCourse(s)'
  BY <1>1, <1>4, ResetOther, Bystander
<1> QED
  BY <1>2, <1>3, <1>4 DEF StatsIInv

LEMMA SkipUploadKeeps ==
  ASSUME StatsIInv, NEW r \in Runs, SkipUpload(r)
  PROVE  StatsIInv'
<1>1. /\ doing' \in [Runs -> {"new", "configured", "ready", "ended"} \cup DOMAIN Watched]
      /\ doing[r] = "new" /\ doing'[r] = "ready" /\ \A s \in Runs : s # r => doing'[s] = doing[s]
      /\ UNCHANGED <<resettable, ops, verdict, opFails>>
      /\ UNCHANGED <<failedCalls, primed, baseline, ownFails, wiped, joined>>
  BY DEF SkipUpload, NoReset, StatsIInv, StatsTypeOK
<1>2. StatsTypeOK'
  BY <1>1 DEF StatsIInv, StatsTypeOK
<1>3. OwnCourse(r)'
  BY <1>1, WatchedFacts DEF StatsIInv, OwnCourse, Busy
<1>4. ASSUME NEW s \in Runs, s # r PROVE OwnCourse(s)'
  BY <1>1, <1>4, Bystander
<1> QED
  BY <1>2, <1>3, <1>4 DEF StatsIInv

\* An operation begins with no failure of its own, and a baseline.
LEMMA UploadKeeps ==
  ASSUME StatsIInv, NEW r \in Runs, Upload(r)
  PROVE  StatsIInv'
<1>1. /\ doing' \in [Runs -> {"new", "configured", "ready", "ended"} \cup DOMAIN Watched]
      /\ doing[r] = "configured" /\ doing'[r] = "upload"
      /\ verdict' \in [Runs -> {"none", "ok", "err", "unchecked"}] /\ verdict'[r] = "none"
      /\ ops' \in [Runs -> Nat] /\ resettable' = resettable
      /\ UNCHANGED <<failedCalls, primed, baseline, ownFails, wiped, joined>>
  BY WatchedFacts DEF Upload, NoReset, StatsIInv, StatsTypeOK
<1>2. opFails' \in [Runs -> BOOLEAN] /\ ~opFails'[r]
  BY DEF Upload, StatsIInv, StatsTypeOK
<1>3. \A s \in Runs : s # r => doing'[s] = doing[s] /\ verdict'[s] = verdict[s] /\ opFails'[s] = opFails[s]
  BY DEF Upload, StatsIInv, StatsTypeOK
<1>4. StatsTypeOK'
  BY <1>1, <1>2 DEF StatsIInv, StatsTypeOK
<1>5. OwnCourse(r)'
  BY <1>1, <1>2 DEF StatsIInv, OwnCourse
<1>6. ASSUME NEW s \in Runs, s # r PROVE OwnCourse(s)'
  BY <1>1, <1>3, <1>6, Bystander
<1> QED
  BY <1>4, <1>5, <1>6 DEF StatsIInv

LEMMA SearchKeeps ==
  ASSUME StatsIInv, NEW r \in Runs, NEW kind \in {"search", "mixed"}, Search(r, kind)
  PROVE  StatsIInv'
<1>1. /\ doing' \in [Runs -> {"new", "configured", "ready", "ended"} \cup DOMAIN Watched]
      /\ doing[r] = "ready" /\ doing'[r] = kind
      /\ verdict' \in [Runs -> {"none", "ok", "err", "unchecked"}] /\ verdict'[r] = "none"
      /\ ops' \in [Runs -> Nat] /\ resettable' = resettable /\ Prime(r)
  BY WatchedFacts DEF Search, StatsIInv, StatsTypeOK
<1>2. opFails' \in [Runs -> BOOLEAN] /\ ~opFails'[r]
  BY DEF Search, StatsIInv, StatsTypeOK
<1>3. \A s \in Runs : s # r => doing'[s] = doing[s] /\ verdict'[s] = verdict[s] /\ opFails'[s] = opFails[s]
  BY DEF Search, StatsIInv, StatsTypeOK
<1>4. CASE primed[r]
  <2>1. UNCHANGED <<failedCalls, primed, baseline, ownFails, wiped, joined>>
    BY <1>1, <1>4 DEF Prime, NoReset
  <2>2. StatsTypeOK'
    BY <1>1, <1>2, <2>1 DEF StatsIInv, StatsTypeOK
  <2>3. OwnCourse(r)'
    BY <1>1, <1>2, <1>4, <2>1 DEF StatsIInv, OwnCourse
  <2>4. ASSUME NEW s \in Runs, s # r PROVE OwnCourse(s)'
    BY <1>3, <2>1, <2>4, Bystander
  <2> QED
    BY <2>2, <2>3, <2>4 DEF StatsIInv
<1>5. CASE ~primed[r]
  <2>1. ResetCommandstats(r)
    BY <1>1, <1>5 DEF Prime
  <2>2. StatsTypeOK'
    BY <1>1, <1>2, <2>1, ResetOwn DEF StatsIInv, StatsTypeOK
  <2>3. OwnCourse(r)'
    BY <1>1, <1>2, <2>1, ResetOwn DEF OwnCourse
  <2>4. ASSUME NEW s \in Runs, s # r PROVE OwnCourse(s)'
    BY <1>3, <2>1, <2>4, ResetOther, Bystander
  <2> QED
    BY <2>2, <2>3, <2>4 DEF StatsIInv
<1> QED
  BY <1>4, <1>5

\* A failed call is on a counter its operation asks about, above the baseline;
\* everybody else has been joined.
LEMMA CallFailsKeeps ==
  ASSUME StatsIInv, NEW r \in Runs, NEW c \in Cmds, CallFails(r, c)
  PROVE  StatsIInv'
<1>1. /\ UNCHANGED <<resettable, doing, primed, baseline, ops, verdict, wiped>>
      /\ Busy(r) /\ Busy(r)' /\ c \in Watched[doing[r]] /\ failedCalls[c] < MaxFails
  BY DEF CallFails, Busy
<1>2. \A d \in Cmds : failedCalls[d] \in Nat /\ \A s \in Runs : baseline[s][d] \in Nat
  BY StatsNumbers DEF StatsIInv
<1>3. failedCalls'[c] = failedCalls[c] + 1 /\ \A d \in Cmds : d # c => failedCalls'[d] = failedCalls[d]
  BY DEF CallFails, StatsIInv, StatsTypeOK, Counts
<1>4. failedCalls' \in Counts
  <2>1. failedCalls[c] + 1 \in 0..MaxFails
    BY <1>1, <1>2, StatsAssumption
  <2> QED
    BY <2>1 DEF CallFails, StatsIInv, StatsTypeOK, Counts
<1>5. /\ opFails' \in [Runs -> BOOLEAN] /\ ownFails' \in [Runs -> BOOLEAN] /\ joined' \in [Runs -> BOOLEAN]
      /\ ownFails'[r] /\ \A s \in Runs : s # r => opFails'[s] = opFails[s] /\ ownFails'[s] = ownFails[s] /\ joined'[s]
  BY DEF CallFails, StatsIInv, StatsTypeOK
<1>6. StatsTypeOK'
  BY <1>1, <1>4, <1>5 DEF StatsIInv, StatsTypeOK
<1>7. \A d \in Cmds : failedCalls[d] <= failedCalls'[d]
  BY <1>2, <1>3
<1>8. \A s \in Runs : primed[s] /\ ~wiped[s] => \A d \in Cmds : baseline[s][d] <= failedCalls'[d]
  BY <1>2, <1>3 DEF StatsIInv, OwnCourse
<1>9. OwnCourse(r)'
  <2>1. primed[r] /\ verdict[r] = "none"
    BY <1>1 DEF StatsIInv, OwnCourse
  <2>2. ~wiped[r] => baseline[r][c] < failedCalls'[c]
    BY <1>2, <1>3, <2>1 DEF StatsIInv, OwnCourse
  <2> QED
    BY <1>1, <1>5, <1>8, <2>1, <2>2 DEF OwnCourse
<1>10. ASSUME NEW s \in Runs, s # r PROVE OwnCourse(s)'
  <2>1. OwnCourse(s) /\ (Busy(s)' <=> Busy(s)) /\ joined'[s] /\ opFails'[s] = opFails[s]
    BY <1>1, <1>5, <1>10 DEF StatsIInv, Busy
  <2>2. Busy(s) /\ primed[s] /\ opFails[s] /\ ~wiped[s] =>
          \E d \in Watched[doing[s]] : baseline[s][d] < failedCalls'[d]
    <3> SUFFICES ASSUME Busy(s), primed[s], opFails[s], ~wiped[s]
                 PROVE  \E d \in Watched[doing[s]] : baseline[s][d] < failedCalls'[d]
      OBVIOUS
    <3>1. PICK d \in Watched[doing[s]] : baseline[s][d] < failedCalls[d]
      BY <2>1 DEF OwnCourse
    <3>2. d \in Cmds
      BY WatchedFacts DEF Busy
    <3> QED
      BY <1>2, <1>3, <3>1, <3>2
  <2> QED
    BY <1>1, <1>8, <2>1, <2>2 DEF OwnCourse
<1> QED
  BY <1>6, <1>9, <1>10 DEF StatsIInv

LEMMA RestartKeeps == ASSUME StatsIInv, Restart PROVE StatsIInv'
<1>1. /\ UNCHANGED <<resettable, doing, primed, baseline, ops, verdict, opFails, ownFails, joined>>
      /\ failedCalls' = Zero /\ wiped' \in [Runs -> BOOLEAN] /\ \A s \in Runs : wiped'[s]
  BY DEF Restart
<1>2. StatsTypeOK'
  BY <1>1, WatchedFacts DEF StatsIInv, StatsTypeOK
<1>3. ASSUME NEW s \in Runs PROVE OwnCourse(s)'
  BY <1>1, Bystander
<1> QED
  BY <1>2, <1>3 DEF StatsIInv

\* The guard: "ok" needs every watched counter at its baseline, "err" one above.
LEMMA CheckKeeps ==
  ASSUME StatsIInv, NEW r \in Runs, NEW info \in BOOLEAN, Check(r, info)
  PROVE  StatsIInv'
<1>1. /\ UNCHANGED <<failedCalls, resettable, primed, baseline, ops, opFails, ownFails, wiped, joined>>
      /\ Busy(r) /\ doing'[r] \in {"ended", "ready"}
      /\ doing' \in [Runs -> {"new", "configured", "ready", "ended"} \cup DOMAIN Watched]
      /\ verdict' \in [Runs -> {"none", "ok", "err", "unchecked"}]
  BY DEF Check, StatsIInv, StatsTypeOK
<1>2. /\ verdict'[r] = "ok" => info /\ Clean(r, info)
      /\ verdict'[r] = "err" => ~Clean(r, info)
      /\ \A s \in Runs : s # r => doing'[s] = doing[s] /\ verdict'[s] = verdict[s]
  BY DEF Check, StatsIInv, StatsTypeOK
<1>3. StatsTypeOK'
  BY <1>1 DEF StatsIInv, StatsTypeOK
<1>4. /\ Watched[doing[r]] \subseteq Cmds
      /\ \A c \in Cmds : failedCalls[c] \in Nat /\ baseline[r][c] \in Nat
  BY <1>1, WatchedFacts, StatsNumbers DEF Busy, StatsIInv
<1>5. \A c \in Cmds : NewFails(r, c) = 0 <=> failedCalls[c] <= baseline[r][c]
  BY <1>4 DEF NewFails
<1>6. OwnCourse(r) /\ primed[r]
  BY <1>1 DEF StatsIInv, OwnCourse
<1>7. verdict'[r] = "ok" /\ ~wiped[r] => ~opFails[r]
  <2> SUFFICES ASSUME info, Clean(r, info), ~wiped[r], opFails[r] PROVE FALSE
    BY <1>2
  <2>1. PICK c \in Watched[doing[r]] : baseline[r][c] < failedCalls[c]
    BY <1>1, <1>6 DEF OwnCourse
  <2>2. NewFails(r, c) = 0
    BY DEF Clean
  <2> QED
    BY <1>4, <1>5, <2>1, <2>2
<1>8. verdict'[r] = "err" /\ ~joined[r] => ownFails[r]
  <2> SUFFICES ASSUME ~Clean(r, info), ~joined[r], ~ownFails[r] PROVE FALSE
    BY <1>2
  <2>1. PICK c \in Watched[doing[r]] : NewFails(r, c) # 0
    BY DEF Clean
  <2>2. failedCalls[c] <= baseline[r][c]
    BY <1>4, <1>6 DEF OwnCourse
  <2> QED
    BY <1>4, <1>5, <2>1, <2>2
<1>9. OwnCourse(r)'
  <2>1. ~Busy(r)' /\ doing'[r] \notin {"new", "configured"}
    BY <1>1, WatchedFacts DEF Busy
  <2> QED
    BY <1>1, <1>6, <1>7, <1>8, <2>1 DEF OwnCourse
<1>10. ASSUME NEW s \in Runs, s # r PROVE OwnCourse(s)'
  BY <1>1, <1>2, <1>10, Bystander
<1> QED
  BY <1>3, <1>9, <1>10 DEF StatsIInv

LEMMA NextStats == ASSUME StatsIInv, [StatsNext]_statsVars PROVE StatsIInv'
<1>1. CASE StatsNext
  BY <1>1, ConfigureKeeps, SkipUploadKeeps, UploadKeeps, SearchKeeps, CallFailsKeeps, CheckKeeps,
     RestartKeeps DEF StatsNext
<1>2. CASE UNCHANGED statsVars
  <2>1. UNCHANGED <<failedCalls, resettable, doing, primed, baseline, ops, verdict, opFails, ownFails, wiped, joined>>
    BY <1>2 DEF statsVars, run
  <2>2. StatsTypeOK' /\ \A s \in Runs : OwnCourse(s)'
    BY <2>1, Bystander DEF StatsIInv, StatsTypeOK
  <2> QED
    BY <2>2 DEF StatsIInv
<1> QED
  BY <1>1, <1>2

\* The counters and every run's baseline keep step.
THEOREM StatsInvariance == StatsSpec => []StatsIInv
<1> QED
  BY InitStats, NextStats, PTL DEF StatsSpec

\* However many runs share a server: unless the counters were wiped under it by
\* another run's CONFIG RESETSTAT or a restart, check_commandstats passes no
\* operation with a failed call of its own; and unless another run failed calls
\* since the baseline, or that snapshot was refused, it fails no run without one.
THEOREM VerdictsAreOwn == StatsSpec => []VerdictIsOwn
<1>1. StatsIInv => VerdictIsOwn
  BY DEF StatsIInv, OwnCourse, VerdictIsOwn, FailureSeen, NoForeignBlame
<1> QED
  BY <1>1, StatsInvariance, PTL

=============================================================================
