--------------------------- MODULE MCRedisCluster ---------------------------
(***************************************************************************)
(* What a Redis run reads back from a server it does not own: the keys of  *)
(* a prefix, on a cluster of three primaries, two slots and three keys,    *)
(* two of them in the same slot; and the failure counters, which two runs  *)
(* share.  The two have no state in common and are explored side by side.  *)
(***************************************************************************)
EXTENDS PrefixScan, CommandStats

VARIABLE side

MCNodes  == {"n1", "n2", "n3"}
MCKeys   == {"k1", "k2", "k3"}
MCSlots  == {1, 2}
MCSlotOf == [k \in MCKeys |-> IF k = "k3" THEN 2 ELSE 1]

\* The component that is not explored stays in one of its initial states.
MCInit ==
  \/ /\ side = "scan" /\ Init
     /\ StatsInit /\ failedCalls = Zero /\ resettable = TRUE
  \/ /\ side = "stats" /\ StatsInit
     /\ Init /\ owner = [s \in Slots |-> "n1"] /\ corpus = {} /\ clustered = FALSE
     /\ stopOnFirst = FALSE /\ maxKeys = 3

MCNext ==
  \/ side = "scan" /\ Next /\ UNCHANGED <<side, statsVars>>
  \/ side = "stats" /\ StatsNext /\ UNCHANGED <<side, vars>>

MCSpec == MCInit /\ [][MCNext]_<<side, vars, statsVars>>

=============================================================================
