---------------------------- MODULE CommandStats ----------------------------
(***************************************************************************)
(* The server-side failure guard of the Redis family: configure() resets   *)
(* INFO COMMANDSTATS, or takes a snapshot where CONFIG RESETSTAT is not    *)
(* permitted; every upload and search then asks whether its commands       *)
(* failed since.  The counters belong to the server, so runs share them.   *)
(*                                                                         *)
(* Calls that fail are external events; a search in which not one query    *)
(* succeeded never gets to the guard and is left to SearchHarness.         *)
(***************************************************************************)
EXTENDS Naturals, TLC

CONSTANTS
  Runs,         \* benchmark processes on one server
  MaxFails,     \* bound: failed calls the server can count for a command
  MaxOps        \* bound: uploads and searches of one run

ASSUME StatsAssumption == MaxFails \in Nat /\ MaxOps \in Nat

Cmds == {"write", "query"}   \* HSET or VADD; FT.SEARCH or VSIM
Zero == [c \in Cmds |-> 0]

\* What each operation asks the guard about.
Watched == [upload |-> {"write"}, search |-> {"query"}, mixed |-> Cmds]

VARIABLES
  failedCalls,  \* the server's counters
  resettable,   \* CONFIG RESETSTAT is permitted
  \* per run:
  doing,           \* "new", "configured", "ready", an operation, or "ended"
  primed,       \* commandstats_primed
  baseline,     \* commandstats_baseline; Zero stands for None as well
  ops,
  verdict,      \* of the last operation
  \* history, per run: own calls failed in this operation, and since the baseline;
  \* somebody else wiped the counters since then, or has failures on them
  opFails, ownFails, wiped, joined

run  == <<doing, primed, baseline, ops, verdict, opFails, ownFails, wiped, joined>>
statsVars == <<failedCalls, resettable, run>>

\* Failures from before any of the runs may be on the counters.
StatsInit ==
  /\ failedCalls \in [Cmds -> 0..MaxFails] /\ resettable \in BOOLEAN
  /\ doing = [r \in Runs |-> "new"] /\ primed = [r \in Runs |-> FALSE]
  /\ baseline = [r \in Runs |-> Zero] /\ ops = [r \in Runs |-> 0]
  /\ verdict = [r \in Runs |-> "none"]
  /\ opFails = [r \in Runs |-> FALSE] /\ ownFails = [r \in Runs |-> FALSE]
  /\ wiped = [r \in Runs |-> FALSE] /\ joined = [r \in Runs |-> FALSE]

Busy(r) == doing[r] \in DOMAIN Watched

-----------------------------------------------------------------------------
\* Mutant: where the counters cannot be reset, no snapshot is taken.
ResetForgets(r) ==
  /\ primed' = [primed EXCEPT ![r] = TRUE]
  /\ failedCalls' = IF resettable THEN Zero ELSE failedCalls
  /\ wiped' = [s \in Runs |-> IF s = r THEN FALSE ELSE wiped[s] \/ resettable]
  /\ ownFails' = [ownFails EXCEPT ![r] = FALSE]
  /\ joined' = [joined EXCEPT ![r] = FALSE]
  /\ UNCHANGED baseline

\* reset_commandstats, and what it does to everybody.  The snapshot is empty
\* when INFO is refused as well.
ResetCommandstats(r) ==
  /\ primed' = [primed EXCEPT ![r] = TRUE]
  /\ ownFails' = [ownFails EXCEPT ![r] = FALSE]
  /\ IF resettable
     THEN /\ failedCalls' = Zero
          /\ baseline' = [baseline EXCEPT ![r] = Zero]
          /\ wiped' = [s \in Runs |-> s # r]
          /\ joined' = [joined EXCEPT ![r] = FALSE]
     ELSE /\ \E snapshot \in {failedCalls, Zero} :
               /\ baseline' = [baseline EXCEPT ![r] = snapshot]
               /\ joined' = [joined EXCEPT ![r] = snapshot # failedCalls]
          /\ wiped' = [wiped EXCEPT ![r] = FALSE]
          /\ UNCHANGED failedCalls

NoReset == UNCHANGED <<failedCalls, primed, baseline, ownFails, wiped, joined>>

\* configure(), the index being in place.
Configure(r) ==
  /\ doing[r] = "new"
  /\ doing' = [doing EXCEPT ![r] = "configured"]
  /\ ResetCommandstats(r)
  /\ UNCHANGED <<resettable, ops, verdict, opFails>>

\* --skip-upload goes straight to the searches.
SkipUpload(r) ==
  /\ doing[r] = "new"
  /\ doing' = [doing EXCEPT ![r] = "ready"]
  /\ NoReset
  /\ UNCHANGED <<resettable, ops, verdict, opFails>>

Upload(r) ==
  /\ doing[r] = "configured"
  /\ doing' = [doing EXCEPT ![r] = "upload"]
  /\ ops' = [ops EXCEPT ![r] = @ + 1]
  /\ verdict' = [verdict EXCEPT ![r] = "none"]
  /\ opFails' = [opFails EXCEPT ![r] = FALSE]
  /\ NoReset
  /\ UNCHANGED resettable

\* prime_commandstats_if_needed.
Prime(r) == IF primed[r] THEN NoReset ELSE ResetCommandstats(r)

\* search and search_mixed: a repetition of a search point.
Search(r, kind) ==
  /\ doing[r] = "ready" /\ ops[r] < MaxOps
  /\ doing' = [doing EXCEPT ![r] = kind]
  /\ Prime(r)
  /\ ops' = [ops EXCEPT ![r] = @ + 1]
  /\ verdict' = [verdict EXCEPT ![r] = "none"]
  /\ opFails' = [opFails EXCEPT ![r] = FALSE]
  /\ UNCHANGED resettable

\* The server fails a call of r, and counts it.
CallFails(r, c) ==
  /\ Busy(r) /\ c \in Watched[doing[r]] /\ failedCalls[c] < MaxFails
  /\ failedCalls' = [failedCalls EXCEPT ![c] = @ + 1]
  /\ opFails' = [opFails EXCEPT ![r] = TRUE]
  /\ ownFails' = [ownFails EXCEPT ![r] = TRUE]
  /\ joined' = [s \in Runs |-> joined[s] \/ s # r]
  /\ UNCHANGED <<resettable, doing, primed, baseline, ops, verdict, wiped>>

\* A restart of the server loses the counters.
Restart ==
  /\ failedCalls' = Zero
  /\ wiped' = [s \in Runs |-> TRUE]
  /\ UNCHANGED <<resettable, doing, primed, baseline, ops, verdict, opFails, ownFails, joined>>

-----------------------------------------------------------------------------
\* evaluate: saturating_sub.
NewFails(r, c) ==
  IF failedCalls[c] > baseline[r][c] THEN failedCalls[c] - baseline[r][c] ELSE 0

\* check_commandstats passes when INFO is refused, too.
Clean(r, info) == ~info \/ \A c \in Watched[doing[r]] : NewFails(r, c) = 0

\* The guard at the end of an operation.  A failed upload ends the run; after a
\* failed search the next repetition follows, or without --exit-on-error the
\* next point.
Check(r, info) ==
  /\ Busy(r)
  /\ verdict' = [verdict EXCEPT ![r] =
       IF ~Clean(r, info) THEN "err" ELSE IF info THEN "ok" ELSE "unchecked"]
  /\ doing' = [doing EXCEPT ![r] =
       IF doing[r] = "upload" /\ ~Clean(r, info) THEN "ended" ELSE "ready"]
  /\ UNCHANGED <<failedCalls, resettable, primed, baseline, ops, opFails, ownFails, wiped, joined>>

StatsNext ==
  \/ \E r \in Runs :
       \/ Configure(r) \/ SkipUpload(r) \/ Upload(r)
       \/ \E kind \in {"search", "mixed"} : Search(r, kind)
       \/ \E c \in Cmds : CallFails(r, c)
       \/ \E info \in BOOLEAN : Check(r, info)
  \/ Restart

RunSymmetry == Permutations(Runs)

StatsSpec == StatsInit /\ [][StatsNext]_statsVars

-----------------------------------------------------------------------------
\* Properties.

Counts == [Cmds -> 0..MaxFails]
StatsTypeOK ==
  /\ failedCalls \in Counts /\ resettable \in BOOLEAN
  /\ doing \in [Runs -> {"new", "configured", "ready", "ended"} \cup DOMAIN Watched]
  /\ primed \in [Runs -> BOOLEAN] /\ baseline \in [Runs -> Counts]
  /\ ops \in [Runs -> Nat]
  /\ verdict \in [Runs -> {"none", "ok", "err", "unchecked"}]
  /\ opFails \in [Runs -> BOOLEAN] /\ ownFails \in [Runs -> BOOLEAN]
  /\ wiped \in [Runs -> BOOLEAN] /\ joined \in [Runs -> BOOLEAN]

\* A measured operation the guard passed had no failed call of its own, whatever
\* the other runs did, unless somebody wiped the server-global counters after
\* this run's baseline.
FailureSeen ==
  \A r \in Runs : verdict[r] = "ok" /\ ~wiped[r] => ~opFails[r]

\* #238: a run none of whose calls failed is not failed for what the counters
\* held before it, even where they cannot be reset, unless another run failed
\* calls meanwhile, or INFO was refused when the snapshot was due.
NoForeignBlame ==
  \A r \in Runs : verdict[r] = "err" /\ ~joined[r] => ownFails[r]

\* The verdict of the guard is about this run's own calls: none that failed is
\* passed over, and none of somebody else's is held against it.
VerdictIsOwn == FailureSeen /\ NoForeignBlame

=============================================================================
