---------------------------- MODULE SweepProofs -----------------------------
(***************************************************************************)
(* For every matrix of configurations and datasets, every number of points *)
(* and repetitions and every set of flags: which result files exist, what  *)
(* becomes of the corpora, and what exit code 0 means.                     *)
(***************************************************************************)
EXTENDS Sweep, FiniteSetTheorems, TLAPS

\* The experiments before the one running, and those with it.
Past(c, d) == c < cfg \/ (c = cfg /\ d < ds)
Begun(c, d) == Past(c, d) \/ (c = cfg /\ d = ds)
Saved(p) == <<cfg, ds, p>> \in SavedPoints

\* A search runs on a whole corpus, or on one that was waived.
Backed == corpus[cfg] = "full" \/ waived
Corpora ==
  /\ pc = "save_upload" => corpus[cfg] = "full"
  /\ pc = "layout" => On("skip_search") \/ Backed
  /\ pc \in {"warmup", "rep"} => Backed
  /\ pc = "save" /\ pending # {} => Backed
  /\ pc \in {"launch", "prepare", "configure", "upload", "save_upload", "reuse", "layout"}
       => pending = {}

\* Where the measurement of a point is: in the repetition going on, among the
\* deferred saves, or on disk; and never before its experiment has begun.
Evidence ==
  /\ \A c \in Configs, d \in Datasets, p \in Points :
       <<c, d, p>> \in measured =>
         /\ Begun(c, d)
         /\ Past(c, d) => <<c, d>> \in excused \/ <<c, d, p>> \in SavedPoints
  /\ \A p \in Points :
       <<cfg, ds, p>> \in measured =>
         /\ pc \in {"warmup", "rep", "save", "verdict", "cleanup", "over"}
         /\ pc \in {"warmup", "save"} => p \in pending
         /\ pc = "rep" => p \in pending \/ (p = point /\ best # "none")
         /\ pc \in {"verdict", "cleanup"} => Saved(p)

\* Under --exit-on-error a point that is left behind is pending or fatal.
Strict == On("exit_on_error") /\ ~On("skip_search")
Owed ==
  Strict =>
    /\ \A c \in Configs, d \in Datasets :
         Past(c, d) => <<c, d>> \in excused \/ \A p \in Points : <<c, d, p>> \in SavedPoints
    /\ pc \in {"launch", "prepare", "configure", "upload", "save_upload", "reuse", "layout"}
         => point = 1
    /\ pc \in {"warmup", "rep"} => \A p \in Points : p < point => p \in pending
    /\ pc = "save" => fatal \/ pending = Points
    /\ pc = "verdict" => fatal \/ \A p \in Points : Saved(p)
    /\ pc = "cleanup" => \A p \in Points : Saved(p)

\* While nothing failed, only the configuration at work has a corpus, and before
\* it is configured only one that the flags keep.
Residence ==
  failed = {} /\ ~On("skip_upload") /\ (On("keep_data") => On("reset_between_configs")) =>
    /\ \A c \in Configs : c # cfg => corpus[c] = "none"
    /\ pc \in {"launch", "prepare", "configure"} /\ (On("keep_data") => cfg < NConfigs)
         => corpus[cfg] = "none"
    /\ outcome = "ok" /\ ~On("keep_data") => corpus[cfg] = "none"

IInv ==
  /\ TypeOK /\ Corpora /\ NoShortCorpusPublished
  /\ Evidence /\ EvidenceSurvives /\ Owed /\ OkMeansMeasured /\ Residence

-----------------------------------------------------------------------------
\* How an experiment ends, and the order of the matrix.

EndStep ==
  \/ pc' = "over" /\ UNCHANGED <<cfg, ds>>
  \/ /\ pc' = "launch" /\ ~LastPair /\ point' = 1 /\ pending' = {}
     /\ ds' = IF ds = NDatasets THEN 1 ELSE ds + 1
     /\ cfg' = IF ds = NDatasets THEN cfg + 1 ELSE cfg

LEMMA Ends == (Advance => EndStep) /\ (Err => EndStep) /\ \A how : Stop(how) => EndStep
BY DEF Advance, Err, Stop, EndStep, Goto

LEMMA Order ==
  ASSUME TypeOK, EndStep, NEW c \in Configs, NEW d \in Datasets
  PROVE  /\ Begun(c, d) => Begun(c, d)'
         /\ pc' = "launch" => /\ Past(c, d)' <=> Begun(c, d)
                              /\ Begun(c, d) => ~(c = cfg' /\ d = ds')
         /\ pc' = "over" => (Past(c, d)' <=> Past(c, d)) /\ (Begun(c, d)' <=> Begun(c, d))
<1>1. /\ cfg \in Nat /\ ds \in 1..NDatasets /\ NDatasets \in Nat /\ c \in Nat
      /\ d \in 1..NDatasets
  BY SweepAssumption DEF TypeOK, Configs, Datasets
<1>2. CASE pc' = "over" /\ UNCHANGED <<cfg, ds>>
  BY <1>2 DEF Past, Begun
<1>3. CASE /\ pc' = "launch" /\ ~LastPair
           /\ ds' = IF ds = NDatasets THEN 1 ELSE ds + 1
           /\ cfg' = IF ds = NDatasets THEN cfg + 1 ELSE cfg
  BY <1>1, <1>3 DEF Past, Begun
<1> QED
  BY <1>2, <1>3 DEF EndStep

\* The last pair of the matrix has every other before it.
LEMMA LastIsLast ==
  ASSUME TypeOK, LastPair, NEW c \in Configs, NEW d \in Datasets
  PROVE  Begun(c, d)
BY SweepAssumption DEF TypeOK, LastPair, Configs, Datasets, Begun, Past

LEMMA TypeInit == Init => TypeOK
<1> SUFFICES ASSUME Init PROVE TypeOK
  OBVIOUS
<1>1. args \subseteq FlagNames
  BY SweepAssumption DEF Init
<1>2. corpus \in [Configs -> {"none", "part", "full"}]
  BY DEF Init
<1>3. cfg \in Configs /\ ds \in Datasets /\ point \in Points /\ rep \in 0..Reps
  BY SweepAssumption DEF Init, Configs, Datasets, Points
<1> QED
  BY <1>1, <1>2, <1>3 DEF Init, TypeOK

\* The part of the types that ending an experiment has a hand in.
LEMMA TypeEnds ==
  ASSUME TypeOK, pc # "over", Advance \/ Stop("ok") \/ Stop("err") \/ Stop("watchdog")
  PROVE  /\ cfg' \in Configs /\ ds' \in Datasets /\ pc' \in {"launch", "over"}
         /\ point' \in Points /\ rep' \in 0..Reps /\ best' \in {"none", "clean", "lossy"}
         /\ lossy' \subseteq pending' /\ pending' \subseteq Points
         /\ fatal' \in BOOLEAN /\ dumpFailed' \in BOOLEAN /\ waived' \in BOOLEAN
         /\ outcome' \in {"running", "ok", "err", "watchdog"}
         /\ (outcome' = "running") <=> (pc' # "over")
<1>1. outcome = "running"
  BY DEF TypeOK
<1>2. CASE Advance
  <2>1. cfg' \in Configs /\ ds' \in Datasets
    BY <1>2, SweepAssumption DEF Advance, TypeOK, Configs, Datasets, LastPair
  <2>2. 1 \in Points /\ 0 \in 0..Reps
    BY SweepAssumption DEF Points
  <2> QED
    BY <1>1, <1>2, <2>1, <2>2 DEF Advance, Goto
<1>3. CASE Stop("ok") \/ Stop("err") \/ Stop("watchdog")
  BY <1>1, <1>3 DEF Stop, Goto, experiment, TypeOK
<1> QED
  BY <1>2, <1>3

LEMMA TypeStep == ASSUME TypeOK, Step PROVE TypeOK'
<1> USE DEF Goto, experiment, history
<1>1. cfg \in Configs /\ ds \in Datasets /\ <<cfg, ds>> \in Configs \X Datasets
  BY DEF TypeOK
<1>2. Err => /\ failed' \subseteq Configs \X Datasets
             /\ Advance \/ Stop("err")
  BY <1>1 DEF Err, TypeOK
<1>3. CASE Launch \/ Configure \/ Upload \/ SaveUpload \/ WarmUp
  <2>1. corpus' \in [Configs -> {"none", "part", "full"}]
    BY <1>3 DEF TypeOK, Launch, Configure, Upload, SaveUpload, WarmUp
  <2> QED
    BY <1>3, <2>1 DEF TypeOK, Launch, Configure, Upload, SaveUpload, WarmUp
<1>4. CASE BudgetSpent
  BY <1>4, TypeEnds DEF BudgetSpent, TypeOK
<1>5. CASE LaunchErr
  BY <1>5, TypeEnds DEF LaunchErr, TypeOK
<1>6. CASE Skip
  BY <1>1, <1>6, TypeEnds DEF Skip, TypeOK
<1>7. CASE Prepare
  <2>1. CASE Err
    BY <1>2, <1>7, <2>1, TypeEnds DEF Prepare, TypeOK
  <2>2. CASE ~Err
    BY <1>7, <2>2 DEF Prepare, TypeOK
  <2> QED
    BY <2>1, <2>2
<1>8. CASE ConfigureErr
  <2>1. corpus' \in [Configs -> {"none", "part", "full"}]
    BY <1>8 DEF TypeOK, ConfigureErr
  <2> QED
    BY <1>2, <1>8, <2>1, TypeEnds DEF ConfigureErr, TypeOK
<1>9. CASE UploadErr
  BY <1>2, <1>9, TypeEnds DEF UploadErr, TypeOK
<1>10. CASE SaveUploadErr
  BY <1>2, <1>10, TypeEnds DEF SaveUploadErr, TypeOK
<1>11. CASE ReuseCheck
  <2>1. CASE Err
    BY <1>2, <1>11, <2>1, TypeEnds DEF ReuseCheck, TypeOK
  <2>2. CASE ~Err
    <3>1. waived' \in BOOLEAN
      BY <1>11, <2>2 DEF ReuseCheck, TypeOK
    <3> QED
      BY <1>11, <2>2, <3>1 DEF ReuseCheck, TypeOK
  <2> QED
    BY <2>1, <2>2
<1>12. CASE Layout
  <2>1. CASE Err
    BY <1>2, <1>12, <2>1, TypeEnds DEF Layout, TypeOK
  <2>2. CASE ~Err
    BY <1>12, <2>2 DEF Layout, TypeOK
  <2> QED
    BY <2>1, <2>2
<1>13. CASE WarmUpErr
  BY <1>1, <1>2, <1>13, TypeEnds DEF WarmUpErr, TypeOK
<1>14. CASE Repetition
  <2>1. rep' \in 0..Reps
    BY <1>14, SweepAssumption DEF Repetition, TypeOK
  <2>2. best' \in {"none", "clean", "lossy"}
    BY <1>14 DEF Repetition, TypeOK
  <2>3. measured' \subseteq Configs \X Datasets \X Points
    BY <1>14 DEF Repetition, TypeOK
  <2> QED
    BY <1>14, <2>1, <2>2, <2>3 DEF Repetition, TypeOK
<1>15. CASE Watchdog
  BY <1>15, TypeEnds DEF Watchdog, TypeOK
<1>16. NextPoint => /\ point' \in Points /\ rep' \in 0..Reps
                    /\ best' \in {"none", "clean", "lossy"} /\ pc' \in {"save", "warmup"}
  BY SweepAssumption DEF NextPoint, TypeOK, Points
<1>17. CASE PointDone
  BY <1>16, <1>17 DEF PointDone, TypeOK
<1>18. CASE PointFailed
  <2>1. CASE On("exit_on_error")
    BY <1>18, <2>1 DEF PointFailed, TypeOK
  <2>2. CASE ~On("exit_on_error")
    BY <1>16, <1>18, <2>2 DEF PointFailed, TypeOK
  <2> QED
    BY <2>1, <2>2
<1>19. CASE SaveAll
  BY <1>19 DEF SaveAll, TypeOK
<1>20. CASE SaveErr
  BY <1>1, <1>2, <1>20, TypeEnds DEF SaveErr, TypeOK
<1>21. CASE ReturnVerdict
  <2>1. CASE MustFail
    BY <1>2, <1>21, <2>1, TypeEnds DEF ReturnVerdict, TypeOK
  <2>2. CASE ~MustFail
    BY <1>21, <2>2 DEF ReturnVerdict, TypeOK
  <2> QED
    BY <2>1, <2>2
<1>22. CASE Cleanup
  <2>1. corpus' \in [Configs -> {"none", "part", "full"}]
    BY <1>22 DEF TypeOK, Cleanup
  <2>2. failed' \subseteq Configs \X Datasets /\ (Advance \/ Stop("err"))
    BY <1>2, <1>22 DEF Cleanup, TypeOK
  <2> QED
    BY <1>22, <2>1, <2>2, TypeEnds DEF Cleanup, TypeOK
<1>23. CASE CleanupErr
  BY <1>2, <1>23, TypeEnds DEF CleanupErr, TypeOK
<1> QED
  BY <1>3, <1>4, <1>5, <1>6, <1>7, <1>8, <1>9, <1>10, <1>11, <1>12, <1>13, <1>14, <1>15,
     <1>17, <1>18, <1>19, <1>20, <1>21, <1>22, <1>23 DEF Step

-----------------------------------------------------------------------------
\* Result files of short corpora.

LEMMA CorporaStep ==
  ASSUME TypeOK, Corpora, NoShortCorpusPublished, Step
  PROVE  Corpora' /\ NoShortCorpusPublished'
<1> USE DEF Goto, experiment, history
<1>1. Advance => pc' \in {"launch", "over"} /\ pending' = {}
  BY DEF Advance
<1>2. (\E how : Stop(how)) => pc' = "over"
  BY DEF Stop
<1>3. Err => pc' = "over" \/ (pc' = "launch" /\ pending' = {})
  BY <1>1, <1>2 DEF Err
<1>4. pc' = "over" \/ (pc' = "launch" /\ pending' = {}) => Corpora'
  BY DEF Corpora
<1>5. saved' = saved => NoShortCorpusPublished'
  BY DEF NoShortCorpusPublished
<1>6. corpus \in [Configs -> {"none", "part", "full"}] /\ cfg \in Configs
  BY DEF TypeOK
<1>7. CASE Launch \/ SaveUpload \/ WarmUp
  BY <1>5, <1>7 DEF Launch, SaveUpload, WarmUp, Corpora, Backed, On
<1>8. CASE Configure \/ Upload
  BY <1>5, <1>6, <1>8 DEF Configure, Upload, Corpora
<1>9. CASE BudgetSpent \/ LaunchErr \/ Skip \/ ConfigureErr \/ UploadErr \/ SaveUploadErr
           \/ WarmUpErr \/ Watchdog \/ Cleanup \/ CleanupErr
  BY <1>1, <1>2, <1>3, <1>4, <1>5, <1>9 DEF BudgetSpent, LaunchErr, Skip, ConfigureErr,
     UploadErr, SaveUploadErr, WarmUpErr, Watchdog, Cleanup, CleanupErr
<1>10. CASE Prepare
  <2>1. CASE Err
    BY <1>3, <1>4, <1>5, <1>10, <2>1 DEF Prepare
  <2>2. CASE ~Err
    BY <1>5, <1>10, <2>2 DEF Prepare, Corpora
  <2> QED
    BY <2>1, <2>2
<1>11. CASE ReuseCheck
  <2>1. CASE Err
    BY <1>3, <1>4, <1>5, <1>11, <2>1 DEF ReuseCheck
  <2>2. CASE On("skip_search") /\ pc' = "layout" /\ UNCHANGED experiment
    BY <1>5, <1>11, <2>2 DEF ReuseCheck, Corpora, On
  <2>3. CASE waived' = TRUE /\ pc' = "layout" /\ UNCHANGED pending
    BY <1>5, <1>11, <2>3 DEF ReuseCheck, Corpora, Backed, On
  <2>4. ASSUME NEW count \in {"none", "exact", "estimate"}, NEW sizeKnown \in BOOLEAN,
               ~(Rejects(count, sizeKnown) /\ ~On("allow_partial_corpus")),
               waived' = (On("allow_partial_corpus") \/ count # "exact"),
               pc' = "layout", UNCHANGED pending
        PROVE  Corpora' /\ NoShortCorpusPublished'
    <3>1. count = "exact" /\ ~Rejects(count, sizeKnown) => corpus[cfg] = "full"
      BY DEF Rejects, Verdict
    <3>2. UNCHANGED <<corpus, args, saved>> /\ pc = "reuse"
      BY <1>11 DEF ReuseCheck
    <3>3. waived' \/ corpus[cfg] = "full"
      BY <2>4, <3>1
    <3>4. CASE waived'
      BY <1>5, <2>4, <3>2, <3>4 DEF Corpora, Backed, On
    <3>5. CASE corpus[cfg] = "full" /\ ~waived'
      <4>1. cfg' = cfg
        BY <1>11, <3>5, <2>4 DEF ReuseCheck, Err, Advance, Stop
      <4> QED
        BY <1>5, <2>4, <3>2, <3>5, <4>1 DEF Corpora, Backed, On
    <3> QED
      BY <3>3, <3>4, <3>5
  <2> QED
    BY <1>11, <2>1, <2>2, <2>3, <2>4 DEF ReuseCheck
<1>12. CASE Layout
  <2>1. CASE Err
    BY <1>3, <1>4, <1>5, <1>12, <2>1 DEF Layout
  <2>2. CASE ~Err
    BY <1>5, <1>12, <2>2 DEF Layout, Corpora, Backed
  <2> QED
    BY <2>1, <2>2
<1>13. CASE Repetition
  BY <1>5, <1>13 DEF Repetition, Corpora, Backed
<1>14. CASE PointDone
  BY <1>5, <1>14 DEF PointDone, NextPoint, Corpora, Backed
<1>15. CASE PointFailed
  BY <1>5, <1>15 DEF PointFailed, NextPoint, Corpora, Backed
<1>16. ASSUME NEW some \in SUBSET pending, pc = "save",
              saved' = saved \cup {<<cfg, ds, p, corpus[cfg], waived>> : p \in some}
       PROVE  NoShortCorpusPublished'
  <2> SUFFICES ASSUME NEW p \in some
               PROVE  LET r == <<cfg, ds, p, corpus[cfg], waived>> IN r[4] = "full" \/ r[5]
    BY <1>16 DEF NoShortCorpusPublished
  <2> QED
    BY <1>16 DEF Corpora, Backed
<1>17. CASE SaveAll
  BY <1>16, <1>17 DEF SaveAll, Corpora
<1>18. CASE SaveErr
  BY <1>3, <1>4, <1>16, <1>18 DEF SaveErr
<1>19. CASE ReturnVerdict
  <2>1. CASE MustFail
    BY <1>3, <1>4, <1>5, <1>19, <2>1 DEF ReturnVerdict
  <2>2. CASE ~MustFail
    BY <1>5, <1>19, <2>2 DEF ReturnVerdict, Corpora
  <2> QED
    BY <2>1, <2>2
<1> QED
  BY <1>7, <1>8, <1>9, <1>10, <1>11, <1>12, <1>13, <1>14, <1>15, <1>17, <1>18, <1>19 DEF Step

-----------------------------------------------------------------------------
\* Measurements.

\* An experiment ends with its measurements on disk, excused, or cut off by the
\* watchdog.
LEMMA EvidenceEnds ==
  ASSUME TypeOK, TypeOK', Evidence, EndStep, UNCHANGED measured,
         excused \subseteq excused', saved \subseteq saved',
         outcome' = "watchdog" => pc' = "over",
         \A p \in Points : <<cfg, ds, p>> \in measured =>
           <<cfg, ds>> \in excused' \/ <<cfg, ds, p>> \in SavedPoints' \/ outcome' = "watchdog"
  PROVE  Evidence' /\ EvidenceSurvives'
<1>1. SavedPoints \subseteq SavedPoints'
  BY DEF SavedPoints
<1>2. pc' \in {"launch", "over"} /\ (pc' = "launch" => outcome' # "watchdog")
  BY DEF EndStep
<1>3. ASSUME NEW c \in Configs, NEW d \in Datasets, NEW p \in Points, <<c, d, p>> \in measured
      PROVE  Begun(c, d) /\
             (<<c, d>> \in excused' \/ <<c, d, p>> \in SavedPoints' \/ outcome' = "watchdog")
  <2>1. Begun(c, d) /\ (Past(c, d) => <<c, d>> \in excused \/ <<c, d, p>> \in SavedPoints)
    BY <1>3 DEF Evidence
  <2>2. CASE Past(c, d)
    BY <1>1, <2>1, <2>2
  <2>3. CASE c = cfg /\ d = ds
    BY <1>3, <2>1, <2>3
  <2> QED
    BY <2>1, <2>2, <2>3 DEF Begun
<1>4. cfg' \in Configs /\ ds' \in Datasets
  BY DEF TypeOK
<1>5. Evidence'
  <2>1. ASSUME NEW c \in Configs, NEW d \in Datasets, NEW p \in Points, <<c, d, p>> \in measured'
        PROVE  /\ Begun(c, d)'
               /\ Past(c, d)' => <<c, d>> \in excused' \/ <<c, d, p>> \in SavedPoints'
    <3>1. Begun(c, d)'
      BY <1>3, <2>1, Order
    <3>2. CASE pc' = "launch"
      BY <1>2, <1>3, <2>1, <3>1, <3>2
    <3>3. CASE pc' = "over"
      BY <1>1, <2>1, <3>1, <3>3, Order DEF Evidence
    <3> QED
      BY <1>2, <3>1, <3>2, <3>3
  <2>2. ASSUME NEW p \in Points, <<cfg', ds', p>> \in measured' PROVE pc' = "over"
    BY <1>2, <1>3, <1>4, <2>2, Order
  <2>3. \A c \in Configs, d \in Datasets, p \in Points : (<<c, d, p>> \in measured)' =>
          /\ Begun(c, d)'
          /\ Past(c, d)' => <<c, d>> \in excused' \/ <<c, d, p>> \in SavedPoints'
    BY <2>1
  <2> QED
    BY <2>2, <2>3 DEF Evidence
<1>6. EvidenceSurvives'
  <2> SUFFICES ASSUME NEW m \in measured, Ended(m[1], m[2])', <<m[1], m[2]>> \notin excused',
                      outcome' # "watchdog"
               PROVE  m \in SavedPoints'
    BY DEF EvidenceSurvives
  <2>1. PICK c \in Configs, d \in Datasets, p \in Points : m = <<c, d, p>>
    BY DEF TypeOK
  <2> QED
    BY <1>3, <2>1
<1> QED
  BY <1>5, <1>6

\* Inside an experiment only its own measurements can be affected.
LEMMA EvidenceGoesOn ==
  ASSUME TypeOK, TypeOK', Evidence, EvidenceSurvives, UNCHANGED <<cfg, ds>>,
         pc # "over", pc' # "over",
         excused \subseteq excused', saved \subseteq saved',
         measured \subseteq measured', measured' \subseteq measured \cup {<<cfg, ds, point>>},
         \A p \in Points : <<cfg, ds, p>> \in measured' =>
           /\ pc' \in {"warmup", "rep", "save", "verdict", "cleanup"}
           /\ pc' \in {"warmup", "save"} => p \in pending'
           /\ pc' = "rep" => p \in pending' \/ (p = point' /\ best' # "none")
           /\ pc' \in {"verdict", "cleanup"} => <<cfg, ds, p>> \in SavedPoints'
  PROVE  Evidence' /\ EvidenceSurvives'
<1>1. SavedPoints \subseteq SavedPoints'
  BY DEF SavedPoints
<1>2. /\ cfg \in Nat /\ ds \in Nat /\ cfg \in Configs /\ ds \in Datasets
      /\ Configs \subseteq Nat /\ Datasets \subseteq Nat
  BY SweepAssumption DEF TypeOK, Configs, Datasets
<1>3. ASSUME NEW c \in Configs, NEW d \in Datasets, NEW p \in Points, <<c, d, p>> \in measured'
      PROVE  /\ Begun(c, d) /\ (Past(c, d) => <<c, d>> \in excused' \/ <<c, d, p>> \in SavedPoints')
  <2>1. CASE <<c, d, p>> \in measured
    BY <1>1, <2>1 DEF Evidence
  <2>2. CASE c = cfg /\ d = ds
    BY <1>2, <2>2 DEF Begun, Past
  <2> QED
    BY <1>3, <2>1, <2>2
<1>4. \A c, d : (Begun(c, d)' <=> Begun(c, d)) /\ (Past(c, d)' <=> Past(c, d))
  BY DEF Begun, Past
<1>5. Evidence'
  BY <1>3, <1>4 DEF Evidence, Saved
<1>6. EvidenceSurvives'
  <2> SUFFICES ASSUME NEW m \in measured', Ended(m[1], m[2])', <<m[1], m[2]>> \notin excused'
               PROVE  m \in SavedPoints'
    BY DEF EvidenceSurvives
  <2>1. PICK c \in Configs, d \in Datasets, p \in Points : m = <<c, d, p>>
    BY DEF TypeOK
  <2>2. Past(c, d)
    BY <2>1 DEF Ended, Past
  <2> QED
    BY <1>3, <2>1, <2>2
<1> QED
  BY <1>5, <1>6

\* Writing files adds points on disk.
LEMMA SavingAdds ==
  ASSUME NEW some, saved' = saved \cup {<<cfg, ds, p, corpus[cfg], waived>> : p \in some}
  PROVE  saved \subseteq saved' /\ \A p \in some : <<cfg, ds, p>> \in SavedPoints'
<1>1. \A p \in some : LET r == <<cfg, ds, p, corpus[cfg], waived>> IN
                        r \in saved' /\ <<r[1], r[2], r[3]>> = <<cfg, ds, p>>
  OBVIOUS
<1> QED
  BY <1>1 DEF SavedPoints

LEMMA EvidenceStep ==
  ASSUME TypeOK, TypeOK', Evidence, EvidenceSurvives, Step
  PROVE  Evidence' /\ EvidenceSurvives'
<1> USE DEF Goto, experiment, history
<1>1. \A p \in Points : <<cfg, ds, p>> \in measured =>
        /\ pc \in {"warmup", "rep", "save", "verdict", "cleanup", "over"}
        /\ pc \in {"warmup", "save"} => p \in pending
        /\ pc = "rep" => p \in pending \/ (p = point /\ best # "none")
        /\ pc \in {"verdict", "cleanup"} => <<cfg, ds, p>> \in SavedPoints
  BY DEF Evidence, Saved
<1>2. saved' = saved => SavedPoints' = SavedPoints
  BY DEF SavedPoints
<1>3. (outcome' = "watchdog" => pc' = "over") /\ pc # "over"
  BY DEF TypeOK, Step, Launch, BudgetSpent, LaunchErr, Skip, Prepare, Configure, ConfigureErr,
         Upload, UploadErr, SaveUpload, SaveUploadErr, ReuseCheck, Layout, WarmUp, WarmUpErr,
         Repetition, Watchdog, PointDone, PointFailed, SaveAll, SaveErr, ReturnVerdict,
         Cleanup, CleanupErr
<1>4. CASE Launch \/ Configure \/ Upload \/ SaveUpload \/ WarmUp
  BY <1>1, <1>3, <1>4, EvidenceGoesOn DEF Launch, Configure, Upload, SaveUpload, WarmUp
<1>5. CASE BudgetSpent
  <2>1. <<cfg, ds>> \in excused' /\ excused \subseteq excused'
    BY <1>5 DEF BudgetSpent, TypeOK
  <2> QED
    BY <1>3, <1>5, <2>1, Ends, EvidenceEnds DEF BudgetSpent
<1>6. CASE LaunchErr \/ Watchdog
  BY <1>1, <1>3, <1>6, Ends, EvidenceEnds DEF LaunchErr, Watchdog, Stop
<1>7. CASE Skip
  BY <1>3, <1>7, Ends, EvidenceEnds DEF Skip
<1>8. CASE ConfigureErr \/ UploadErr \/ SaveUploadErr \/ WarmUpErr \/ CleanupErr
  <2>1. EndStep /\ UNCHANGED <<measured, saved>> /\ excused \subseteq excused'
    BY <1>8, Ends DEF ConfigureErr, UploadErr, SaveUploadErr, WarmUpErr, CleanupErr
  <2>2. \A p \in Points : <<cfg, ds, p>> \in measured =>
          <<cfg, ds>> \in excused' \/ <<cfg, ds, p>> \in SavedPoints'
    BY <1>1, <1>2, <1>8 DEF ConfigureErr, UploadErr, SaveUploadErr, WarmUpErr, CleanupErr
  <2> QED
    BY <1>3, <2>1, <2>2, EvidenceEnds
<1>9. CASE Prepare
  <2>1. CASE Err
    BY <1>1, <1>3, <1>9, <2>1, Ends, EvidenceEnds DEF Prepare
  <2>2. CASE ~Err
    BY <1>1, <1>3, <1>9, <2>2, EvidenceGoesOn DEF Prepare
  <2> QED
    BY <2>1, <2>2
<1>10. CASE ReuseCheck
  <2>1. CASE Err
    BY <1>1, <1>3, <1>10, <2>1, Ends, EvidenceEnds DEF ReuseCheck
  <2>2. CASE ~Err
    <3>1. pc = "reuse" /\ pc' = "layout" /\ UNCHANGED <<cfg, ds, measured, excused, saved>>
      BY <1>10, <2>2 DEF ReuseCheck
    <3> QED
      BY <1>1, <3>1, EvidenceGoesOn
  <2> QED
    BY <2>1, <2>2
<1>11. CASE Layout
  <2>1. CASE Err
    BY <1>1, <1>3, <1>11, <2>1, Ends, EvidenceEnds DEF Layout
  <2>2. CASE ~Err
    BY <1>1, <1>3, <1>11, <2>2, EvidenceGoesOn DEF Layout
  <2> QED
    BY <2>1, <2>2
<1>12. CASE Repetition
  <2>1. /\ pc = "rep" /\ pc' = "rep" /\ UNCHANGED <<cfg, ds, excused, saved, pending, point>>
        /\ measured \subseteq measured' /\ measured' \subseteq measured \cup {<<cfg, ds, point>>}
        /\ best # "none" => best' # "none"
        /\ measured' = measured \/ best' # "none"
    BY <1>12 DEF Repetition
  <2>2. \A p \in Points : <<cfg, ds, p>> \in measured' =>
          p \in pending' \/ (p = point' /\ best' # "none")
    BY <1>1, <2>1
  <2> QED
    BY <2>1, <2>2, EvidenceGoesOn
<1>13. CASE PointDone
  <2>1. /\ pc = "rep" /\ pc' \in {"save", "warmup"} /\ pending' = pending \cup {point}
        /\ UNCHANGED <<cfg, ds, excused, saved, measured>>
    BY <1>13 DEF PointDone, NextPoint
  <2> QED
    BY <1>1, <2>1, EvidenceGoesOn
<1>14. CASE PointFailed
  <2>1. /\ pc = "rep" /\ pc' \in {"save", "warmup"} /\ best = "none"
        /\ UNCHANGED <<cfg, ds, excused, saved, measured, pending>>
    BY <1>14 DEF PointFailed, NextPoint
  <2> QED
    BY <1>1, <2>1, EvidenceGoesOn
<1>15. CASE SaveAll
  <2>1. saved \subseteq saved' /\ \A p \in pending : <<cfg, ds, p>> \in SavedPoints'
    BY <1>15, SavingAdds DEF SaveAll
  <2>2. pc = "save" /\ pc' = "verdict" /\ UNCHANGED <<cfg, ds, excused, measured>>
    BY <1>15 DEF SaveAll
  <2> QED
    BY <1>1, <2>1, <2>2, EvidenceGoesOn
<1>16. CASE SaveErr
  <2>1. saved \subseteq saved' /\ <<cfg, ds>> \in excused' /\ excused \subseteq excused'
    BY <1>16 DEF SaveErr
  <2> QED
    BY <1>3, <1>16, <2>1, Ends, EvidenceEnds DEF SaveErr
<1>17. CASE ReturnVerdict
  <2>1. CASE MustFail
    BY <1>1, <1>2, <1>3, <1>17, <2>1, Ends, EvidenceEnds DEF ReturnVerdict
  <2>2. CASE ~MustFail
    BY <1>1, <1>2, <1>3, <1>17, <2>2, EvidenceGoesOn DEF ReturnVerdict
  <2> QED
    BY <2>1, <2>2
<1>18. CASE Cleanup
  <2>1. EndStep /\ pc = "cleanup" /\ UNCHANGED <<saved, measured, excused>>
    BY <1>18, Ends DEF Cleanup
  <2> QED
    BY <1>1, <1>2, <1>3, <2>1, EvidenceEnds
<1> QED
  BY <1>4, <1>5, <1>6, <1>7, <1>8, <1>9, <1>10, <1>11, <1>12, <1>13, <1>14, <1>15, <1>16,
     <1>17, <1>18 DEF Step

-----------------------------------------------------------------------------
\* What exit code 0 means.

LEMMA OwedEnds ==
  ASSUME TypeOK, TypeOK', Owed, EndStep, UNCHANGED args,
         excused \subseteq excused', saved \subseteq saved',
         Strict => \/ outcome' \in {"err", "watchdog"}
                   \/ <<cfg, ds>> \in excused' \/ \A p \in Points : <<cfg, ds, p>> \in SavedPoints',
         outcome' = "ok" => LastPair
  PROVE  Owed' /\ OkMeansMeasured'
<1>1. SavedPoints \subseteq SavedPoints' /\ (Strict' <=> Strict)
  BY DEF SavedPoints, Strict, On
<1>2. pc' \in {"launch", "over"} /\ (pc' = "launch" => point' = 1 /\ outcome' = "running")
  BY DEF EndStep, TypeOK
<1>3. ASSUME Strict, NEW c \in Configs, NEW d \in Datasets, Past(c, d)
      PROVE  <<c, d>> \in excused' \/ \A p \in Points : <<c, d, p>> \in SavedPoints'
  BY <1>1, <1>3 DEF Owed
<1>4. ASSUME Strict, outcome' \notin {"err", "watchdog"},
             NEW c \in Configs, NEW d \in Datasets, Begun(c, d)
      PROVE  <<c, d>> \in excused' \/ \A p \in Points : <<c, d, p>> \in SavedPoints'
  BY <1>3, <1>4 DEF Begun
<1>5. ASSUME Strict, NEW c \in Configs, NEW d \in Datasets, Past(c, d)'
      PROVE  <<c, d>> \in excused' \/ \A p \in Points : <<c, d, p>> \in SavedPoints'
  <2>1. CASE pc' = "launch"
    BY <1>2, <1>4, <1>5, <2>1, Order
  <2>2. CASE pc' = "over"
    BY <1>3, <1>5, <2>2, Order
  <2> QED
    BY <1>2, <2>1, <2>2
<1>6. Owed'
  BY <1>1, <1>2, <1>5 DEF Owed
<1>7. OkMeansMeasured'
  <2> SUFFICES ASSUME outcome' = "ok", Strict, NEW c \in Configs, NEW d \in Datasets
               PROVE  <<c, d>> \in excused' \/ \A p \in Points : <<c, d, p>> \in SavedPoints'
    BY <1>1 DEF OkMeansMeasured, Strict
  <2> QED
    BY <1>4, LastIsLast
<1> QED
  BY <1>6, <1>7

\* Inside an experiment the pairs behind it are what they were.
LEMMA OwedGoesOn ==
  ASSUME TypeOK, TypeOK', Owed, UNCHANGED <<args, cfg, ds>>, pc' # "over",
         excused \subseteq excused', saved \subseteq saved',
         Strict =>
           /\ pc' \in {"launch", "prepare", "configure", "upload", "save_upload", "reuse", "layout"}
                => point' = 1
           /\ pc' \in {"warmup", "rep"} => \A p \in Points : p < point' => p \in pending'
           /\ pc' = "save" => fatal' \/ pending' = Points
           /\ pc' = "verdict" => fatal' \/ \A p \in Points : <<cfg, ds, p>> \in SavedPoints'
           /\ pc' = "cleanup" => \A p \in Points : <<cfg, ds, p>> \in SavedPoints'
  PROVE  Owed' /\ OkMeansMeasured'
<1>1. SavedPoints \subseteq SavedPoints' /\ (Strict' <=> Strict)
  BY DEF SavedPoints, Strict, On
<1>2. \A c, d : Past(c, d)' <=> Past(c, d)
  BY DEF Past
<1>3. Owed'
  BY <1>1, <1>2 DEF Owed, Saved
<1>4. OkMeansMeasured'
  BY DEF OkMeansMeasured, TypeOK
<1> QED
  BY <1>3, <1>4

LEMMA OwedStep ==
  ASSUME TypeOK, TypeOK', Owed, Step
  PROVE  Owed' /\ OkMeansMeasured'
<1> USE DEF Goto, experiment, history
<1>1. Strict =>
        /\ pc \in {"launch", "prepare", "configure", "upload", "save_upload", "reuse", "layout"}
             => point = 1
        /\ pc \in {"warmup", "rep"} => \A p \in Points : p < point => p \in pending
        /\ pc = "save" => fatal \/ pending = Points
        /\ pc = "verdict" => fatal \/ \A p \in Points : <<cfg, ds, p>> \in SavedPoints
        /\ pc = "cleanup" => \A p \in Points : <<cfg, ds, p>> \in SavedPoints
  BY DEF Owed, Saved
<1>2. saved' = saved => SavedPoints' = SavedPoints
  BY DEF SavedPoints
<1>3. Points \subseteq Nat /\ point \in Nat /\ \A p \in Points : p >= 1 /\ p <= NPoints
  BY SweepAssumption DEF TypeOK, Points
<1>4. pc # "over" /\ outcome = "running"
  BY DEF TypeOK, Step, Launch, BudgetSpent, LaunchErr, Skip, Prepare, Configure, ConfigureErr,
         Upload, UploadErr, SaveUpload, SaveUploadErr, ReuseCheck, Layout, WarmUp, WarmUpErr,
         Repetition, Watchdog, PointDone, PointFailed, SaveAll, SaveErr, ReturnVerdict,
         Cleanup, CleanupErr
<1>5. Advance => outcome' \in {"running", "ok"} /\ (outcome' = "ok" => LastPair)
  BY <1>4 DEF Advance
<1>6. Err => /\ EndStep /\ (outcome' = "ok" => LastPair)
             /\ Strict => outcome' = "err"
  BY <1>5, Ends DEF Err, Stop, Strict
<1>7. CASE Launch \/ Configure \/ Upload \/ SaveUpload \/ WarmUp
  <2>1. UNCHANGED <<args, cfg, ds, point, pending, excused, saved>>
    BY <1>7 DEF Launch, Configure, Upload, SaveUpload, WarmUp
  <2>2. \/ pc \in {"launch", "configure", "upload", "save_upload"}
           /\ pc' \in {"prepare", "upload", "save_upload", "layout"}
        \/ pc = "warmup" /\ pc' = "rep"
    BY <1>7 DEF Launch, Configure, Upload, SaveUpload, WarmUp
  <2> QED
    BY <1>1, <2>1, <2>2, OwedGoesOn
<1>8. CASE BudgetSpent
  <2>1. excused' = Configs \X Datasets /\ UNCHANGED <<args, saved, cfg, ds>> /\ pc' = "over"
    BY <1>8 DEF BudgetSpent, Stop
  <2>2. \A c \in Configs, d \in Datasets : <<c, d>> \in excused'
    BY <2>1
  <2>3. Owed'
    BY <2>1, <2>2 DEF Owed
  <2>4. OkMeansMeasured'
    BY <2>2 DEF OkMeansMeasured
  <2> QED
    BY <2>3, <2>4
<1>9. CASE LaunchErr \/ Watchdog
  <2>1. /\ EndStep /\ UNCHANGED <<args, excused, saved>> /\ outcome' \in {"err", "watchdog"}
    BY <1>9, Ends DEF LaunchErr, Watchdog, Stop
  <2> QED
    BY <2>1, OwedEnds
<1>10. CASE Skip
  <2>1. /\ EndStep /\ UNCHANGED <<args, saved>> /\ excused \subseteq excused'
        /\ <<cfg, ds>> \in excused'
    BY <1>10, Ends DEF Skip
  <2> QED
    BY <1>5, <1>10, <2>1, OwedEnds DEF Skip
<1>11. ASSUME Err, UNCHANGED args, excused \subseteq excused', saved \subseteq saved'
       PROVE  Owed' /\ OkMeansMeasured'
  BY <1>6, <1>11, OwedEnds
<1>12. CASE ConfigureErr \/ UploadErr \/ SaveUploadErr \/ WarmUpErr \/ CleanupErr \/ SaveErr
  BY <1>11, <1>12 DEF ConfigureErr, UploadErr, SaveUploadErr, WarmUpErr, CleanupErr, SaveErr
<1>13. CASE Prepare
  <2>1. CASE Err
    BY <1>11, <1>13, <2>1 DEF Prepare
  <2>2. CASE ~Err
    BY <1>1, <1>13, <2>2, OwedGoesOn DEF Prepare
  <2> QED
    BY <2>1, <2>2
<1>14. CASE ReuseCheck
  <2>1. CASE Err
    BY <1>11, <1>14, <2>1 DEF ReuseCheck
  <2>2. CASE ~Err
    <3>1. pc = "reuse" /\ pc' = "layout" /\ UNCHANGED <<args, cfg, ds, excused, saved, point>>
      BY <1>14, <2>2 DEF ReuseCheck
    <3> QED
      BY <1>1, <3>1, OwedGoesOn
  <2> QED
    BY <2>1, <2>2
<1>15. CASE Layout
  <2>1. CASE Err
    BY <1>11, <1>15, <2>1 DEF Layout
  <2>2. CASE ~Err
    <3>1. /\ pc = "layout" /\ pc' = IF On("skip_search") THEN "save" ELSE "warmup"
          /\ UNCHANGED <<args, cfg, ds, excused, saved, point, pending>>
      BY <1>15, <2>2 DEF Layout
    <3>2. Strict => pc' = "warmup" /\ \A p \in Points : ~(p < point)
      BY <1>1, <1>3, <3>1 DEF Strict
    <3>3. pc' \in {"save", "warmup"}
      BY <3>1
    <3> QED
      BY <3>1, <3>2, <3>3, OwedGoesOn
  <2> QED
    BY <2>1, <2>2
<1>16. CASE Repetition
  BY <1>1, <1>16, OwedGoesOn DEF Repetition
<1>17. CASE PointDone
  <2>1. /\ pc = "rep" /\ pending' = pending \cup {point}
        /\ UNCHANGED <<args, cfg, ds, excused, saved>>
        /\ \/ point = NPoints /\ pc' = "save"
           \/ point' = point + 1 /\ pc' = "warmup"
    BY <1>17 DEF PointDone, NextPoint
  <2>2. Strict => \A p \in Points : p <= point => p \in pending'
    BY <1>1, <1>3, <2>1
  <2>3. pending' \subseteq Points
    BY DEF TypeOK
  <2>4. CASE point = NPoints /\ pc' = "save"
    <3>1. Strict => pending' = Points
      BY <1>3, <2>2, <2>3, <2>4
    <3> QED
      BY <2>1, <2>4, <3>1, OwedGoesOn
  <2>5. CASE point' = point + 1 /\ pc' = "warmup"
    <3>1. Strict => \A p \in Points : p < point' => p \in pending'
      BY <1>3, <2>2, <2>5
    <3> QED
      BY <2>1, <2>5, <3>1, OwedGoesOn
  <2> QED
    BY <2>1, <2>4, <2>5
<1>18. CASE PointFailed
  <2>1. CASE On("exit_on_error")
    BY <1>18, <2>1, OwedGoesOn DEF PointFailed
  <2>2. CASE ~On("exit_on_error")
    <3>1. ~Strict /\ pc' \in {"save", "warmup"} /\ UNCHANGED <<args, cfg, ds, excused, saved>>
      BY <1>18, <2>2 DEF PointFailed, NextPoint, Strict
    <3> QED
      BY <3>1, OwedGoesOn
  <2> QED
    BY <2>1, <2>2
<1>19. CASE SaveAll
  <2>1. saved \subseteq saved' /\ \A p \in pending : <<cfg, ds, p>> \in SavedPoints'
    BY <1>19, SavingAdds DEF SaveAll
  <2>2. pc = "save" /\ pc' = "verdict" /\ UNCHANGED <<args, cfg, ds, excused, fatal>>
    BY <1>19 DEF SaveAll
  <2> QED
    BY <1>1, <2>1, <2>2, OwedGoesOn
<1>20. CASE ReturnVerdict
  <2>1. CASE MustFail
    BY <1>11, <1>20, <2>1 DEF ReturnVerdict
  <2>2. CASE ~MustFail
    <3>1. /\ pc = "verdict" /\ pc' = "cleanup" /\ ~fatal
          /\ UNCHANGED <<args, cfg, ds, excused, saved>>
      BY <1>20, <2>2 DEF ReturnVerdict, MustFail
    <3> QED
      BY <1>1, <1>2, <3>1, OwedGoesOn
  <2> QED
    BY <2>1, <2>2
<1>21. CASE Cleanup
  <2>1. CASE Err
    BY <1>11, <1>21, <2>1 DEF Cleanup
  <2>2. CASE Advance
    <3>1. EndStep /\ pc = "cleanup" /\ UNCHANGED <<args, saved, excused>>
      BY <1>21, <2>2, Ends DEF Cleanup
    <3> QED
      BY <1>1, <1>2, <1>5, <2>2, <3>1, OwedEnds
  <2> QED
    BY <1>21, <2>1, <2>2 DEF Cleanup
<1> QED
  BY <1>7, <1>8, <1>9, <1>10, <1>12, <1>13, <1>14, <1>15, <1>16, <1>17, <1>18, <1>19, <1>20,
     <1>21 DEF Step

-----------------------------------------------------------------------------
\* Corpora left behind.

LEMMA ResidenceStep ==
  ASSUME TypeOK, TypeOK', Residence, Step
  PROVE  Residence'
<1> USE DEF Goto, experiment, history
<1>1. Err => failed' # {}
  BY DEF Err
<1>2. failed' # {} => Residence'
  BY DEF Residence
<1>3. corpus \in [Configs -> {"none", "part", "full"}] /\ cfg \in Configs /\ cfg' \in Configs
  BY DEF TypeOK
<1>4. cfg \in Nat /\ NConfigs \in Nat /\ cfg <= NConfigs /\ cfg' \in Nat
  BY <1>3, SweepAssumption DEF Configs
<1>5. (outcome' = "running") <=> (pc' # "over")
  BY DEF TypeOK
<1>6. CASE Launch \/ Configure \/ Upload \/ SaveUpload \/ WarmUp
  <2>1. /\ UNCHANGED <<args, cfg, failed, outcome>> /\ \A c \in Configs : c # cfg => corpus'[c] = corpus[c]
        /\ \/ pc = "launch" /\ pc' = "prepare" /\ UNCHANGED corpus
           \/ pc' \in {"upload", "save_upload", "layout", "rep"}
    BY <1>3, <1>6 DEF Launch, Configure, Upload, SaveUpload, WarmUp
  <2> QED
    BY <1>5, <2>1 DEF Residence, On
<1>7. CASE BudgetSpent \/ LaunchErr
  <2>1. /\ UNCHANGED <<args, cfg, failed, corpus>> /\ pc = "launch" /\ pc' = "over"
    BY <1>7 DEF BudgetSpent, LaunchErr, Stop
  <2> QED
    BY <2>1 DEF Residence, On
<1>8. CASE Watchdog
  <2>1. /\ UNCHANGED <<args, cfg, failed, corpus>> /\ pc' = "over" /\ outcome' = "watchdog"
    BY <1>8 DEF Watchdog, Stop
  <2> QED
    BY <2>1 DEF Residence, On
<1>9. ASSUME Advance, UNCHANGED <<args, failed>>,
             failed = {} /\ ~On("skip_upload") /\ (On("keep_data") => On("reset_between_configs")) =>
               /\ \A c \in Configs : c # cfg => corpus'[c] = "none"
               /\ (On("keep_data") => cfg < NConfigs) => corpus'[cfg] = "none"
      PROVE  Residence'
  <2> SUFFICES ASSUME failed = {}, ~On("skip_upload"), On("keep_data") => On("reset_between_configs")
               PROVE  /\ \A c \in Configs : c # cfg' => corpus'[c] = "none"
                      /\ pc' \in {"launch", "prepare", "configure"} /\ (On("keep_data") => cfg' < NConfigs)
                           => corpus'[cfg'] = "none"
                      /\ outcome' = "ok" /\ ~On("keep_data") => corpus'[cfg'] = "none"
    BY <1>9 DEF Residence, On
  <2>1. CASE cfg' = cfg
    BY <1>9, <2>1
  <2>2. CASE cfg' # cfg
    <3>1. cfg' = cfg + 1 /\ cfg < NConfigs
      BY <1>3, <1>4, <1>9, <2>2, SweepAssumption DEF Advance, Configs
    <3>2. \A c \in Configs : corpus'[c] = "none"
      BY <1>9, <3>1
    <3> QED
      BY <1>3, <3>2
  <2> QED
    BY <2>1, <2>2
<1>10. CASE Skip
  <2>1. Advance /\ pc = "prepare" /\ UNCHANGED <<args, failed, corpus>>
    BY <1>10 DEF Skip
  <2> QED
    BY <1>9, <2>1 DEF Residence
<1>11. CASE ConfigureErr \/ UploadErr \/ SaveUploadErr \/ WarmUpErr \/ CleanupErr \/ SaveErr
  BY <1>1, <1>2, <1>11 DEF ConfigureErr, UploadErr, SaveUploadErr, WarmUpErr, CleanupErr, SaveErr
<1>12. ASSUME ~Err, Prepare \/ ReuseCheck \/ Layout \/ Repetition \/ PointDone \/ PointFailed
                    \/ SaveAll \/ ReturnVerdict
       PROVE  Residence'
  <2>1. /\ UNCHANGED <<args, cfg, failed, corpus, outcome>>
        /\ pc' \in {"launch", "prepare", "configure"} => pc = "prepare"
    BY <1>12 DEF Prepare, ReuseCheck, Layout, Repetition, PointDone, PointFailed, NextPoint,
                 SaveAll, ReturnVerdict
  <2> QED
    BY <2>1 DEF Residence, On
<1>13. CASE Err
  BY <1>1, <1>2, <1>13
<1>14. CASE Cleanup /\ ~Err
  <2>1. Advance /\ UNCHANGED <<args, failed>>
    BY <1>14 DEF Cleanup
  <2>2. ASSUME failed = {}, ~On("skip_upload"), On("keep_data") => On("reset_between_configs")
        PROVE  /\ \A c \in Configs : c # cfg => corpus'[c] = "none"
               /\ (On("keep_data") => cfg < NConfigs) => corpus'[cfg] = "none"
    <3>1. \A c \in Configs : c # cfg => corpus[c] = "none"
      BY <2>2 DEF Residence
    <3>2. (On("keep_data") => cfg < NConfigs) => ~KeepData
      BY <1>4, <2>2 DEF KeepData
    <3>3. /\ \A c \in Configs : c # cfg => corpus'[c] = corpus[c]
          /\ ~KeepData => corpus'[cfg] = "none"
      BY <1>3, <1>14 DEF Cleanup
    <3> QED
      BY <3>1, <3>2, <3>3
  <2> QED
    BY <1>9, <2>1, <2>2
<1> QED
  BY <1>6, <1>7, <1>8, <1>10, <1>11, <1>12, <1>13, <1>14 DEF Step

-----------------------------------------------------------------------------
\* The invariant, and what follows from it.

LEMMA InitIInv == Init => IInv
<1> SUFFICES ASSUME Init PROVE IInv
  OBVIOUS
<1>1. TypeOK
  BY TypeInit
<1>2. Corpora /\ NoShortCorpusPublished
  BY DEF Init, Corpora, NoShortCorpusPublished
<1>3. Evidence /\ EvidenceSurvives
  BY DEF Init, Evidence, EvidenceSurvives
<1>4. ~Past(1, 1) /\ \A c \in Configs, d \in Datasets : ~Past(c, d)
  BY SweepAssumption DEF Init, Past, Configs, Datasets
<1>5. Owed /\ OkMeansMeasured
  BY <1>4 DEF Init, Owed, OkMeansMeasured
<1>6. Residence
  <2>1. ~On("skip_upload") => \A c \in Configs : corpus[c] = "none"
    BY DEF Init, On
  <2> QED
    BY <1>1, <2>1 DEF Residence, TypeOK
<1> QED
  BY <1>1, <1>2, <1>3, <1>5, <1>6 DEF IInv

LEMMA NextIInv == IInv /\ [Next]_vars => IInv'
<1> SUFFICES ASSUME IInv, [Next]_vars PROVE IInv'
  OBVIOUS
<1>1. CASE UNCHANGED vars
  <2>1. /\ UNCHANGED <<args, corpus, cfg, ds, pc, point, rep, best, lossy, fatal, dumpFailed>>
        /\ UNCHANGED <<pending, waived, outcome, saved, measured, failed, excused>>
    BY <1>1 DEF vars, experiment, history
  <2>2. TypeOK' /\ Corpora' /\ NoShortCorpusPublished'
    BY <2>1 DEF IInv, TypeOK, Corpora, Backed, NoShortCorpusPublished, On
  <2>3. SavedPoints' = SavedPoints
    BY <2>1 DEF SavedPoints
  <2>4. Evidence' /\ EvidenceSurvives'
    BY <2>1, <2>3 DEF IInv, Evidence, EvidenceSurvives, Begun, Past, Saved, Ended
  <2>5. Owed' /\ OkMeansMeasured'
    BY <2>1, <2>3 DEF IInv, Owed, OkMeansMeasured, Strict, On, Past, Saved
  <2>6. Residence'
    BY <2>1 DEF IInv, Residence, On
  <2> QED
    BY <2>2, <2>4, <2>5, <2>6 DEF IInv
<1>2. CASE Step
  <2>1. TypeOK'
    BY <1>2, TypeStep DEF IInv
  <2> QED
    BY <1>2, <2>1, CorporaStep, EvidenceStep, OwedStep, ResidenceStep DEF IInv
<1> QED
  BY <1>1, <1>2 DEF Next, Over

\* The invariant holds in every reachable state of every sweep.
THEOREM SweepInvariance == Spec => []IInv
BY InitIInv, NextIInv, PTL DEF Spec

\* check_corpus_reuse_precondition keeps short corpora out of the result files
\* that run_single_experiment defers to the end.
THEOREM WholeCorporaPublished == Spec => []NoShortCorpusPublished
<1>1. IInv => NoShortCorpusPublished
  BY DEF IInv
<1> QED
  BY <1>1, SweepInvariance, PTL

\* However an experiment ends, pending_saves has been written first.
THEOREM EvidenceIsKept == Spec => []EvidenceSurvives
<1>1. IInv => EvidenceSurvives
  BY DEF IInv
<1> QED
  BY <1>1, SweepInvariance, PTL

\* Exit code 0 under --exit-on-error: nothing that was owed is missing.
THEOREM OkIsMeasured == Spec => []OkMeansMeasured
<1>1. IInv => OkMeansMeasured
  BY DEF IInv
<1> QED
  BY <1>1, SweepInvariance, PTL

\* Cleanup leaves what --keep-data and --reset-between-configs ask for.
THEOREM NothingLeaks == Spec => []NoCorpusLeaks
<1>1. IInv => NoCorpusLeaks
  <2> SUFFICES ASSUME IInv, failed = {}, ~On("skip_upload")
               PROVE  /\ On("keep_data") /\ On("reset_between_configs") => Cardinality(Resident) <= 1
                      /\ outcome = "ok" /\ ~On("keep_data") => Resident = {}
    BY DEF NoCorpusLeaks
  <2>1. CASE On("keep_data") => On("reset_between_configs")
    <3>1. Resident \subseteq {cfg} /\ (outcome = "ok" /\ ~On("keep_data") => Resident = {})
      BY <2>1 DEF IInv, Residence, Resident
    <3>2. IsFiniteSet({cfg}) /\ Cardinality({cfg}) = 1
      BY FS_Singleton
    <3>3. Cardinality(Resident) <= Cardinality({cfg})
      BY <3>1, <3>2, FS_Subset
    <3> QED
      BY <3>1, <3>2, <3>3
  <2>2. CASE ~(On("keep_data") => On("reset_between_configs"))
    BY <2>2
  <2> QED
    BY <2>1, <2>2
<1> QED
  BY <1>1, SweepInvariance, PTL

=============================================================================
