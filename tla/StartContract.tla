---------------------------- MODULE StartContract ----------------------------
(***************************************************************************)
(* What a WorkerPool promises its caller, without locks, tickets or        *)
(* counters: the measured window opens only over a full set of parked      *)
(* workers, it opens or closes once, a success means that every worker ran *)
(* the window to its end, and the call returns with no worker left.        *)
(***************************************************************************)
EXTENDS Naturals

CONSTANT Planned

Workers == 1..Planned

VARIABLES
  window,     \* "forming", "open" or "closed"
  work,       \* per worker: its part in the run
  verdict,    \* "none", "ok" or "err"
  returned    \* the caller has its verdict and no thread is left

vars == <<window, work, verdict, returned>>

Init ==
  /\ window = "forming"
  /\ work = [w \in Workers |-> "absent"]
  /\ verdict = "none"
  /\ returned = FALSE

Move(w, from, to) ==
  /\ work[w] = from
  /\ work' = [work EXCEPT ![w] = to]
  /\ UNCHANGED <<window, verdict, returned>>

\* A worker is started, warms up and parks, or is lost on the way.
Recruit(w)  == window = "forming" /\ Move(w, "absent", "warming")
Park(w)     == Move(w, "warming", "parked")
Withdraw(w) == Move(w, "warming", "gone")

\* The measured window opens over a complete set of parked workers ...
Open ==
  /\ window = "forming" /\ verdict = "none"
  /\ \A w \in Workers : work[w] = "parked"
  /\ window' = "open"
  /\ UNCHANGED <<work, verdict, returned>>

\* ... or never: the run is refused.
Refuse ==
  /\ window = "forming" /\ verdict = "none"
  /\ verdict' = "err"
  /\ UNCHANGED <<window, work, returned>>

Close ==
  /\ window = "forming"
  /\ window' = "closed" /\ verdict' = "err"
  /\ UNCHANGED <<work, returned>>

\* A parked worker follows the window.
Begin(w) == window = "open" /\ Move(w, "parked", "measuring")
Leave(w) == window = "closed" /\ Move(w, "parked", "gone")
End(w)   == Move(w, "measuring", "finished") \/ Move(w, "measuring", "crashed")

\* The verdict on a run whose window opened.
Judge ==
  /\ window = "open" /\ verdict = "none"
  /\ \A w \in Workers : work[w] \in {"finished", "crashed"}
  /\ verdict' = IF \E w \in Workers : work[w] = "crashed" THEN "err" ELSE "ok"
  /\ UNCHANGED <<window, work, returned>>

Return ==
  /\ returned = FALSE /\ verdict # "none" /\ window # "forming"
  /\ \A w \in Workers : work[w] \notin {"warming", "parked", "measuring"}
  /\ returned' = TRUE
  /\ UNCHANGED <<window, work, verdict>>

Next ==
  \/ \E w \in Workers : Recruit(w) \/ Park(w) \/ Withdraw(w)
                        \/ Begin(w) \/ Leave(w) \/ End(w)
  \/ Open \/ Refuse \/ Close \/ Judge \/ Return

\* Every step is progress, so a pool that keeps moving returns.
Spec == Init /\ [][Next]_vars /\ WF_vars(Next)

=============================================================================
