------------------------------- MODULE Sweep -------------------------------
(***************************************************************************)
(* run and run_single_experiment: a sweep of engine configurations over    *)
(* datasets.  Each experiment configures and uploads (or checks that the   *)
(* corpus it is told to reuse is there), searches its points, each with a  *)
(* warm-up and repetitions, writes the deferred result files and then      *)
(* deletes the corpus or keeps it.  Any call to the engine may fail, the   *)
(* watchdog may end the process, and --exit-on-error decides what a        *)
(* failure ends.                                                           *)
(***************************************************************************)
EXTENDS Naturals, FiniteSets

CONSTANTS
  NConfigs, NDatasets,  \* the sweep's matrix
  NPoints,              \* search points per experiment, all phases together
  Reps,                 \* --repetitions
  AlwaysOn, MayBeOn     \* command line flags that are given, or may be

FlagNames == {"keep_data", "reset_between_configs", "skip_upload", "skip_search",
              "exit_on_error", "fail_on_dropped_queries", "allow_partial_corpus",
              "warmup", "search_timeout", "timeout"}

ASSUME SweepAssumption ==
  /\ NConfigs \in Nat \ {0} /\ NDatasets \in Nat \ {0} /\ NPoints \in Nat \ {0}
  /\ Reps \in Nat \ {0}
  /\ AlwaysOn \subseteq FlagNames /\ MayBeOn \subseteq FlagNames

Configs  == 1..NConfigs
Datasets == 1..NDatasets
Points   == 1..NPoints

VARIABLES
  args,       \* the flags of this invocation
  corpus,     \* server side, per config: "none", "part" or "full"
  cfg, ds,    \* the experiment running
  pc,         \* where it is
  point, rep, \* the search point and the repetitions done
  best,       \* best repetition so far: "none", "clean" or "lossy"
  lossy,      \* points in dropped_query_failures
  fatal,      \* fatal_search_error is set
  dumpFailed, \* dump_failure is set
  pending,    \* pending_saves
  waived,     \* the reuse check let an unverified corpus pass
  outcome,    \* what the process ends with
  saved,      \* result files on disk: <<config, dataset, point, corpus, waived>>
  measured,   \* history: points with a successful repetition
  failed,     \* history: experiments that returned Err
  excused     \* history: experiments whose points were cut off, or never owed

experiment == <<point, rep, best, lossy, fatal, dumpFailed, pending, waived>>
history    == <<measured, failed, excused>>
vars == <<args, corpus, cfg, ds, pc, experiment, outcome, saved, history>>

On(flag) == flag \in args

\* A corpus from an earlier --keep-data run is there only for --skip-upload.
Init ==
  /\ args \in {AlwaysOn \cup s : s \in SUBSET MayBeOn}
  /\ corpus \in [Configs -> IF "skip_upload" \in args THEN {"none", "part", "full"} ELSE {"none"}]
  /\ cfg = 1 /\ ds = 1 /\ pc = "launch"
  /\ point = 1 /\ rep = 0 /\ best = "none"
  /\ lossy = {} /\ fatal = FALSE /\ dumpFailed = FALSE /\ pending = {} /\ waived = FALSE
  /\ outcome = "running" /\ saved = {}
  /\ measured = {} /\ failed = {} /\ excused = {}

Goto(where) == pc' = where

\* The next pair of the matrix: datasets inside configs.
LastPair == cfg = NConfigs /\ ds = NDatasets
Advance ==
  /\ point' = 1 /\ rep' = 0 /\ best' = "none" /\ lossy' = {}
  /\ fatal' = FALSE /\ dumpFailed' = FALSE /\ pending' = {} /\ waived' = FALSE
  /\ IF LastPair
     THEN outcome' = "ok" /\ Goto("over") /\ UNCHANGED <<cfg, ds>>
     ELSE /\ Goto("launch") /\ UNCHANGED outcome
          /\ ds' = IF ds = NDatasets THEN 1 ELSE ds + 1
          /\ cfg' = IF ds = NDatasets THEN cfg + 1 ELSE cfg

Stop(how) ==
  /\ outcome' = how /\ Goto("over")
  /\ UNCHANGED <<cfg, ds, experiment>>

\* run_single_experiment returns Err: the sweep ends, or goes on without it.
Err ==
  /\ failed' = failed \cup {<<cfg, ds>>}
  /\ IF On("exit_on_error") THEN Stop("err") ELSE Advance

-----------------------------------------------------------------------------
\* The sweep's loop head.

Launch ==
  /\ pc = "launch"
  /\ Goto("prepare")
  /\ UNCHANGED <<args, corpus, cfg, ds, experiment, outcome, saved, history>>

\* The soft --timeout budget: no further experiment is started.
BudgetSpent ==
  /\ pc = "launch" /\ On("timeout")
  /\ excused' = Configs \X Datasets
  /\ Stop("ok")
  /\ UNCHANGED <<args, corpus, saved, measured, failed>>

\* require_workloads, the hybrid preflight or create_engine fails: `?` ends
\* the sweep whatever --exit-on-error says.
LaunchErr ==
  /\ pc = "launch"
  /\ Stop("err")
  /\ UNCHANGED <<args, corpus, saved, history>>

-----------------------------------------------------------------------------
\* run_single_experiment.

\* Mutant: --reset-between-configs is ignored.
KeepDataEveryConfig == On("skip_upload") \/ On("keep_data")

KeepData ==
  \/ On("skip_upload")
  \/ On("keep_data") /\ (cfg = NConfigs \/ ~On("reset_between_configs"))

\* An incompatible pair, or --skip-if-exists: nothing is done.
Skip ==
  /\ pc = "prepare"
  /\ Advance
  /\ excused' = excused \cup {<<cfg, ds>>}
  /\ UNCHANGED <<args, corpus, saved, measured, failed>>

\* The checks before anything touches the server.
Prepare ==
  /\ pc = "prepare"
  /\ \/ /\ Goto(IF On("skip_upload") THEN "reuse" ELSE "configure")
        /\ UNCHANGED <<cfg, ds, experiment, outcome, failed>>
     \/ Err
  /\ UNCHANGED <<args, corpus, saved, measured, excused>>

\* configure drops what the config's namespace held and creates the index.
Configure ==
  /\ pc = "configure"
  /\ corpus' = [corpus EXCEPT ![cfg] = "part"]
  /\ Goto("upload")
  /\ UNCHANGED <<args, cfg, ds, experiment, outcome, saved, history>>

\* It may fail before or after the drop.
ConfigureErr ==
  /\ pc = "configure"
  /\ corpus' \in {corpus, [corpus EXCEPT ![cfg] = "none"]}
  /\ Err
  /\ UNCHANGED <<args, saved, measured, excused>>

Upload ==
  /\ pc = "upload"
  /\ corpus' = [corpus EXCEPT ![cfg] = "full"]
  /\ Goto("save_upload")
  /\ UNCHANGED <<args, cfg, ds, experiment, outcome, saved, history>>

UploadErr ==
  /\ pc = "upload"
  /\ Err
  /\ UNCHANGED <<args, corpus, saved, measured, excused>>

SaveUpload ==
  /\ pc = "save_upload"
  /\ Goto("layout")
  /\ UNCHANGED <<args, corpus, cfg, ds, experiment, outcome, saved, history>>

SaveUploadErr ==
  /\ pc = "save_upload"
  /\ Err
  /\ UNCHANGED <<args, corpus, saved, measured, excused>>

\* classify_reuse_precondition and the policy on its verdict: does the run go
\* on, and is what it measures then unverified?
Verdict(count, sizeKnown) ==
  CASE count = "none"            -> "unverified"
    [] count # "none" /\ ~sizeKnown -> "corpus_size_unknown"
    [] count # "none" /\ sizeKnown /\ corpus[cfg] = "full" -> "verified"
    [] count # "none" /\ sizeKnown /\ corpus[cfg] # "full" -> "short"

\* Mutant: an unknown corpus size only warns (#290).
RejectsKnown(count, sizeKnown) ==
  Verdict(count, sizeKnown) = "short" /\ count = "exact"

Rejects(count, sizeKnown) ==
  \/ Verdict(count, sizeKnown) = "corpus_size_unknown"
  \/ Verdict(count, sizeKnown) = "short" /\ count = "exact"

\* check_corpus_reuse_precondition.  The corpus counts as waived only where
\* the code says so: a flag, an estimate, or no count to compare with.
ReuseCheck ==
  /\ pc = "reuse"
  /\ \/ /\ On("skip_search")
        /\ Goto("layout")
        /\ UNCHANGED <<cfg, ds, experiment, outcome, failed>>
     \/ /\ ~On("skip_search")                      \* the probe fails
        /\ IF On("allow_partial_corpus")
           THEN /\ waived' = TRUE /\ Goto("layout")
                /\ UNCHANGED <<cfg, ds, point, rep, best, lossy, fatal, dumpFailed,
                               pending, outcome, failed>>
           ELSE Err
     \/ /\ ~On("skip_search")
        /\ \E count \in {"none", "exact", "estimate"}, sizeKnown \in BOOLEAN :
             IF Rejects(count, sizeKnown) /\ ~On("allow_partial_corpus")
             THEN Err
             ELSE /\ waived' = (On("allow_partial_corpus") \/ count # "exact")
                  /\ Goto("layout")
                  /\ UNCHANGED <<cfg, ds, point, rep, best, lossy, fatal, dumpFailed,
                                 pending, outcome, failed>>
  /\ UNCHANGED <<args, corpus, saved, measured, excused>>

\* check_index_layout, then the search phase unless it is skipped.
Layout ==
  /\ pc = "layout"
  /\ \/ /\ Goto(IF On("skip_search") THEN "save" ELSE "warmup")
        /\ UNCHANGED <<cfg, ds, experiment, outcome, failed>>
     \/ Err
  /\ UNCHANGED <<args, corpus, saved, measured, excused>>

WarmUp ==
  /\ pc = "warmup"
  /\ Goto("rep")
  /\ UNCHANGED <<args, corpus, cfg, ds, experiment, outcome, saved, history>>

\* A failed warm-up returns on the spot.
WarmUpErr ==
  /\ pc = "warmup" /\ On("warmup")
  /\ Err
  /\ excused' = excused \cup {<<cfg, ds>>}
  /\ UNCHANGED <<args, corpus, saved, measured>>

\* One repetition: the search (and its update-attribution gate) succeeds, with
\* or without losing queries, and may be the best so far; or it fails.
Repetition ==
  /\ pc = "rep" /\ rep < Reps
  /\ rep' = rep + 1
  /\ \/ \E result \in {"clean", "lossy"} :
          /\ best' \in IF best = "none" THEN {result} ELSE {best, result}
          /\ measured' = measured \cup {<<cfg, ds, point>>}
     \/ UNCHANGED <<best, measured>>
  /\ UNCHANGED <<args, corpus, cfg, ds, pc, point, lossy, fatal, dumpFailed, pending,
                 waived, outcome, saved, failed, excused>>

\* The monitor thread's process::exit(3) while a search is in flight.
Watchdog ==
  /\ pc \in {"warmup", "rep"} /\ On("search_timeout")
  /\ Stop("watchdog")
  /\ UNCHANGED <<args, corpus, saved, history>>

NextPoint ==
  IF point = NPoints
  THEN Goto("save") /\ UNCHANGED <<point, rep, best>>
  ELSE Goto("warmup") /\ point' = point + 1 /\ rep' = 0 /\ best' = "none"

PointDone ==
  /\ pc = "rep" /\ rep = Reps /\ best # "none"
  /\ pending' = pending \cup {point}
  /\ lossy' = IF best = "lossy" THEN lossy \cup {point} ELSE lossy
  /\ NextPoint
  /\ UNCHANGED <<args, corpus, cfg, ds, fatal, dumpFailed, waived, outcome, saved, history>>

\* Mutant: a point that failed is left out, whatever --exit-on-error says.
PointFailedQuietly ==
  /\ pc = "rep" /\ rep = Reps /\ best = "none"
  /\ NextPoint
  /\ UNCHANGED <<args, corpus, cfg, ds, lossy, fatal, dumpFailed, pending, waived,
                 outcome, saved, history>>

\* Mutant: the failure is returned on the spot.
PointFailedAtOnce ==
  /\ pc = "rep" /\ rep = Reps /\ best = "none"
  /\ Err
  /\ UNCHANGED <<args, corpus, saved, measured, excused>>

\* Every repetition failed: remember it and stop searching, or drop the point.
PointFailed ==
  /\ pc = "rep" /\ rep = Reps /\ best = "none"
  /\ IF On("exit_on_error")
     THEN fatal' = TRUE /\ Goto("save") /\ UNCHANGED <<point, rep, best>>
     ELSE NextPoint /\ UNCHANGED fatal
  /\ UNCHANGED <<args, corpus, cfg, ds, lossy, dumpFailed, pending, waived, outcome,
                 saved, history>>

\* save_search_results for every completed point, then the dumps.
SaveAll ==
  /\ pc = "save"
  /\ saved' = saved \cup {<<cfg, ds, p, corpus[cfg], waived>> : p \in pending}
  /\ dumpFailed' \in BOOLEAN
  /\ Goto("verdict")
  /\ UNCHANGED <<args, corpus, cfg, ds, point, rep, best, lossy, fatal, pending, waived,
                 outcome, history>>

\* A result file cannot be written: the later ones are not either.
SaveErr ==
  /\ pc = "save"
  /\ \E some \in SUBSET pending :
       /\ some # pending
       /\ saved' = saved \cup {<<cfg, ds, p, corpus[cfg], waived>> : p \in some}
  /\ excused' = excused \cup {<<cfg, ds>>}
  /\ Err
  /\ UNCHANGED <<args, corpus, measured>>

\* A hard search failure, or lost queries under --fail-on-dropped-queries.
MustFail == fatal \/ (On("fail_on_dropped_queries") /\ lossy # {})

ReturnVerdict ==
  /\ pc = "verdict"
  /\ IF MustFail THEN Err
     ELSE Goto("cleanup") /\ UNCHANGED <<cfg, ds, experiment, outcome, failed>>
  /\ UNCHANGED <<args, corpus, saved, measured, excused>>

\* The summary file, then cleanup; a failed dump is reported last.
Cleanup ==
  /\ pc = "cleanup"
  /\ corpus' = IF KeepData THEN corpus ELSE [corpus EXCEPT ![cfg] = "none"]
  /\ IF dumpFailed THEN Err ELSE Advance /\ UNCHANGED failed
  /\ UNCHANGED <<args, saved, measured, excused>>

\* The summary cannot be saved, or engine.delete() fails.
CleanupErr ==
  /\ pc = "cleanup"
  /\ Err
  /\ UNCHANGED <<args, corpus, saved, measured, excused>>

Over == pc = "over" /\ UNCHANGED vars

Step ==
  \/ Launch \/ BudgetSpent \/ LaunchErr \/ Skip \/ Prepare
  \/ Configure \/ ConfigureErr \/ Upload \/ UploadErr \/ SaveUpload \/ SaveUploadErr
  \/ ReuseCheck \/ Layout \/ WarmUp \/ WarmUpErr \/ Repetition \/ Watchdog
  \/ PointDone \/ PointFailed \/ SaveAll \/ SaveErr \/ ReturnVerdict
  \/ Cleanup \/ CleanupErr

Next == Step \/ Over

\* One thread.  Nothing is said of progress: an engine call may hang, and only a
\* search under --search-timeout is ended by the watchdog.
Spec == Init /\ [][Next]_vars

-----------------------------------------------------------------------------
\* Properties.

TypeOK ==
  /\ args \subseteq FlagNames
  /\ corpus \in [Configs -> {"none", "part", "full"}]
  /\ cfg \in Configs /\ ds \in Datasets
  /\ pc \in {"launch", "prepare", "configure", "upload", "save_upload", "reuse", "layout",
            "warmup", "rep", "save", "verdict", "cleanup", "over"}
  /\ point \in Points /\ rep \in 0..Reps /\ best \in {"none", "clean", "lossy"}
  /\ lossy \subseteq pending /\ pending \subseteq Points
  /\ fatal \in BOOLEAN /\ dumpFailed \in BOOLEAN /\ waived \in BOOLEAN
  /\ outcome \in {"running", "ok", "err", "watchdog"}
  /\ (outcome = "running") <=> (pc # "over")
  /\ failed \subseteq Configs \X Datasets /\ excused \subseteq Configs \X Datasets
  /\ measured \subseteq Configs \X Datasets \X Points

\* A result file whose corpus was not whole exists only where the reuse check
\* could not know or was waived (#238, #290).
NoShortCorpusPublished ==
  \A r \in saved : r[4] = "full" \/ r[5]

\* "Results files are still written before the run fails": every point that
\* was measured is on disk once its experiment has ended, unless a file could
\* not be written, its warm-up failed, or the watchdog ended the process.
SavedPoints == {<<r[1], r[2], r[3]>> : r \in saved}
Ended(c, d) == pc = "over" \/ c < cfg \/ (c = cfg /\ d < ds)
EvidenceSurvives ==
  \A m \in measured :
    Ended(m[1], m[2]) /\ <<m[1], m[2]>> \notin excused /\ outcome # "watchdog"
      => m \in SavedPoints

\* A sweep that exits 0 under --exit-on-error published every point it owed.
OkMeansMeasured ==
  outcome = "ok" /\ On("exit_on_error") /\ ~On("skip_search") =>
    \A c \in Configs, d \in Datasets :
      <<c, d>> \in excused \/ \A p \in Points : <<c, d, p>> \in SavedPoints

\* Without a failure no corpus outlives what the flags ask to keep: none after
\* a plain sweep, and under --reset-between-configs never two at a time.
Resident == {c \in Configs : corpus[c] # "none"}
NoCorpusLeaks ==
  failed = {} /\ ~On("skip_upload") =>
    /\ On("keep_data") /\ On("reset_between_configs") => Cardinality(Resident) <= 1
    /\ outcome = "ok" /\ ~On("keep_data") => Resident = {}

=============================================================================
