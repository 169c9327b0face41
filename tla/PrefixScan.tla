----------------------------- MODULE PrefixScan -----------------------------
(***************************************************************************)
(* Connection::scan_prefix: how the shared-corpus gate counts the keys of  *)
(* a prefix, and the fresh-index check finds out that there are none, on a *)
(* cluster whose slots may migrate meanwhile.                              *)
(*                                                                         *)
(* The scan walks the primaries one after the other, between two reads of  *)
(* the topology; each read asks for CLUSTER SLOTS, then every primary for  *)
(* the migrations it takes part in, then for CLUSTER SLOTS again.          *)
(* The cluster and its operator are external.                              *)
(***************************************************************************)
EXTENDS Naturals, FiniteSets

CONSTANTS
  Nodes, Keys, Slots,
  SlotOf,       \* the slot of each key of the prefix
  MaxMigrations, \* bound: migrations begun in one behaviour
  KeyLimits     \* values of prefix_scan_limits.max_keys

NoNode == "none"

ASSUME ScanAssumption ==
  /\ IsFiniteSet(Keys) /\ IsFiniteSet(Nodes) /\ NoNode \notin Nodes
  /\ SlotOf \in [Keys -> Slots]
  /\ MaxMigrations \in Nat /\ KeyLimits \subseteq Nat

VARIABLES
  owner, moving, place,   \* the cluster: slot map, migration targets, keys
  begun,                  \* migrations begun, and
  hands,                  \* how often each slot changed hands since the opening topology
  clustered, corpus, stopOnFirst, maxKeys,  \* this scan; corpus: the keys that exist
  pc,
  ranges,       \* the slot map the current read of the topology began with
  before,       \* the topology the scan started from
  todo,         \* primaries still to be asked, or scanned
  node,         \* the primary being scanned
  stay, may,    \* its keys: there since the scan began; there at some time
  seen,         \* fingerprints of the keys returned so far
  result,       \* "none", "refused", "failed", or "counted" with
  count         \* the number returned

cluster == <<owner, moving, place, begun, hands>>
scan    == <<clustered, corpus, stopOnFirst, maxKeys>>
client  == <<pc, ranges, before, todo, node, stay, may, seen, result, count>>
vars    == <<cluster, scan, client>>

Owners(map) == {map[s] : s \in Slots}

Init ==
  /\ owner \in [Slots -> Nodes]
  /\ moving = [s \in Slots |-> NoNode] /\ begun = 0
  /\ place = [k \in Keys |-> owner[SlotOf[k]]]
  /\ hands = [s \in Slots |-> 0]
  /\ clustered \in BOOLEAN /\ stopOnFirst \in BOOLEAN /\ maxKeys \in KeyLimits
  /\ corpus \in SUBSET Keys
  /\ ~clustered => Cardinality(Owners(owner)) = 1
  /\ pc = IF clustered THEN "slots" ELSE "scan"
  /\ ranges = owner /\ before = owner
  /\ todo = IF clustered THEN {} ELSE Owners(owner)
  /\ node = NoNode /\ stay = {} /\ may = {} /\ seen = {}
  /\ result = "none" /\ count = 0

Running == result = "none"
Held(n) == {k \in corpus : place[k] = n}
Counted(n) == result' = "counted" /\ count' = n

-----------------------------------------------------------------------------
\* The cluster.

Begin(s, n) ==
  /\ clustered /\ begun < MaxMigrations
  /\ moving[s] = NoNode /\ n # owner[s]
  /\ moving' = [moving EXCEPT ![s] = n]
  /\ begun' = begun + 1
  /\ UNCHANGED <<owner, place, hands, scan, client>>

\* A key of a migrating slot goes over, under the eyes of a running SCAN.
MoveKey(k) ==
  LET target == moving[SlotOf[k]] IN
  /\ k \in corpus /\ target # NoNode /\ place[k] # target
  /\ place' = [place EXCEPT ![k] = target]
  /\ stay' = stay \ {k}
  /\ may' = IF node = target THEN may \cup {k} ELSE may
  /\ UNCHANGED <<owner, moving, begun, hands, scan,
                 pc, ranges, before, todo, node, seen, result, count>>

Complete(s) ==
  /\ moving[s] # NoNode
  /\ \A k \in corpus : SlotOf[k] = s => place[k] = moving[s]
  /\ owner' = [owner EXCEPT ![s] = moving[s]]
  /\ moving' = [moving EXCEPT ![s] = NoNode]
  /\ hands' = [hands EXCEPT ![s] = @ + 1]
  /\ UNCHANGED <<place, begun, scan, client>>

Cancel(s) ==
  /\ moving[s] # NoNode
  /\ \A k \in corpus : SlotOf[k] = s => place[k] = owner[s]
  /\ moving' = [moving EXCEPT ![s] = NoNode]
  /\ UNCHANGED <<owner, place, begun, hands, scan, client>>

\* What the cluster does after the scan has returned is nobody's concern here.
Cluster ==
  /\ Running
  /\ \/ \E s \in Slots : Complete(s) \/ Cancel(s) \/ \E n \in Nodes : Begin(s, n)
     \/ \E k \in Keys : MoveKey(k)

\* CLUSTER NODES at n shows a migration of n's own slots, in or out.
Annotated(n) == \E s \in Slots : moving[s] # NoNode /\ n \in {owner[s], moving[s]}

-----------------------------------------------------------------------------
\* topology(), before the scan (seen from "slots") and after it ("slots2").

After == pc \in {"slots2", "nodes2", "confirm2"}

ReadSlots ==
  /\ Running /\ pc \in {"slots", "slots2"}
  /\ ranges' = owner
  /\ todo' = Owners(owner)
  /\ pc' = IF After THEN "nodes2" ELSE "nodes"
  /\ UNCHANGED <<cluster, scan, before, node, stay, may, seen, result, count>>

\* One primary is asked; a migration it takes part in ends the scan.
ReadNode(n) ==
  /\ Running /\ pc \in {"nodes", "nodes2"} /\ n \in todo
  /\ IF Annotated(n)
     THEN result' = "refused" /\ UNCHANGED <<pc, todo>>
     ELSE /\ todo' = todo \ {n}
          /\ pc' = IF todo' # {} THEN pc ELSE IF After THEN "confirm2" ELSE "confirm"
          /\ UNCHANGED result
  /\ UNCHANGED <<cluster, scan, ranges, before, node, stay, may, seen, count>>

\* ensure_same_topology inside topology(): the scan may start.
Confirm ==
  /\ Running /\ pc = "confirm"
  /\ IF owner # ranges
     THEN result' = "refused" /\ UNCHANGED <<hands, before, todo, pc>>
     ELSE /\ before' = ranges /\ todo' = Owners(ranges) /\ pc' = "scan" /\ UNCHANGED result
          /\ hands' = [s \in Slots |-> 0]
  /\ UNCHANGED <<owner, moving, place, begun, scan, ranges, node, stay, may, seen, count>>

\* Mutant: the closing topology is read, but not compared with the opening one.
ConfirmAfterAlone ==
  /\ Running /\ pc = "confirm2"
  /\ IF owner # ranges
     THEN result' = "refused" /\ UNCHANGED count ELSE Counted(Cardinality(seen))
  /\ UNCHANGED <<cluster, scan, pc, ranges, before, todo, node, stay, may, seen>>

\* The same check closes the scan, and the two topologies have to agree.
ConfirmAfter ==
  /\ Running /\ pc = "confirm2"
  /\ IF owner # ranges \/ ranges # before
     THEN result' = "refused" /\ UNCHANGED count ELSE Counted(Cardinality(seen))
  /\ UNCHANGED <<cluster, scan, pc, ranges, before, todo, node, stay, may, seen>>

-----------------------------------------------------------------------------
\* SCAN of one primary: whatever is there from the first page to the last is
\* returned, what comes or goes meanwhile may be, and anything may come twice.

Open(n) ==
  /\ Running /\ pc = "scan" /\ n \in todo
  /\ node' = n /\ todo' = todo \ {n} /\ pc' = "pages"
  /\ stay' = Held(n) /\ may' = Held(n)
  /\ UNCHANGED <<cluster, scan, ranges, before, seen, result, count>>

\* stop_on_first: the first key decides.
FirstKey ==
  /\ Running /\ pc = "pages" /\ stopOnFirst /\ may # {}
  /\ Counted(1)
  /\ UNCHANGED <<cluster, scan, pc, ranges, before, todo, node, stay, may, seen>>

\* PrefixFingerprints::insert: a key already entered costs nothing, a new one fails
\* once max_keys are held.
Full(entered) == Cardinality(entered) > maxKeys

\* The cursor is back at zero: the keys returned are entered by fingerprint,
\* up to the key limit, and the next primary follows.
Close ==
  /\ Running /\ pc = "pages"
  /\ \E page \in SUBSET may :
       /\ stay \subseteq page
       /\ stopOnFirst => page = {}
       /\ seen' = seen \cup page
       /\ IF Full(seen')
          THEN result' = "failed" /\ UNCHANGED <<pc, node>>
          ELSE /\ node' = NoNode
               /\ pc' = IF todo # {} THEN "scan" ELSE IF clustered THEN "slots2" ELSE "end"
               /\ UNCHANGED result
  /\ stay' = {} /\ may' = {}
  /\ UNCHANGED <<cluster, scan, ranges, before, todo, count>>

\* Without a cluster there is no topology to compare.
Return ==
  /\ Running /\ pc = "end"
  /\ Counted(Cardinality(seen))
  /\ UNCHANGED <<cluster, scan, pc, ranges, before, todo, node, stay, may, seen>>

\* A command fails, the time or page budget is spent, or a cursor comes back.
Fail ==
  /\ Running
  /\ result' = "failed"
  /\ UNCHANGED <<cluster, scan, pc, ranges, before, todo, node, stay, may, seen, count>>

Client ==
  \/ ReadSlots \/ (\E n \in Nodes : ReadNode(n)) \/ Confirm
  \/ (\E n \in Nodes : Open(n)) \/ FirstKey \/ Close
  \/ ConfirmAfter \/ Return \/ Fail

Done == ~Running /\ UNCHANGED vars

Next == Cluster \/ Client \/ Done

\* Every command is answered or fails within its budget.
Spec == Init /\ [][Next]_vars /\ WF_vars(Client)

-----------------------------------------------------------------------------
\* Properties.

Phases ==
  {"slots", "nodes", "confirm", "scan", "pages", "slots2", "nodes2", "confirm2", "end"}

TypeOK ==
  /\ owner \in [Slots -> Nodes] /\ moving \in [Slots -> Nodes \cup {NoNode}]
  /\ place \in [Keys -> Nodes] /\ hands \in [Slots -> Nat] /\ begun \in Nat
  /\ clustered \in BOOLEAN /\ stopOnFirst \in BOOLEAN /\ maxKeys \in KeyLimits
  /\ pc \in Phases /\ ranges \in [Slots -> Nodes] /\ before \in [Slots -> Nodes]
  /\ todo \subseteq Nodes /\ node \in Nodes \cup {NoNode}
  /\ stay \subseteq may /\ may \subseteq corpus /\ seen \subseteq corpus
  /\ corpus \subseteq Keys
  /\ result \in {"none", "refused", "failed", "counted"} /\ count \in 0..Cardinality(Keys)

\* The answer is the right one: the number of keys, or, for stop_on_first,
\* whether there is any.
Right ==
  IF stopOnFirst THEN (count = 0) <=> (corpus = {}) ELSE count = Cardinality(corpus)

\* What the two callers need of an answered scan: the count is never larger than
\* the corpus, so a short corpus is not taken for a complete one; and, as long
\* as no slot comes back during the scan to a primary it had left, it is not
\* smaller either, so a corpus is not found short, or a prefix empty, because its
\* keys were moving.
MovedBack == \E s \in Slots : hands[s] >= 2 /\ owner[s] = before[s]
CountIsSound ==
  result = "counted" => /\ count <= Cardinality(corpus)
                        /\ Right \/ MovedBack

=============================================================================
