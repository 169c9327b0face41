-------------------------- MODULE ProvenanceProofs --------------------------
(***************************************************************************)
(* The plan of a sweep, for every set of configurations and of unreadable  *)
(* files, every environment and every order in which the experiments are   *)
(* taken: the sweep that was asked for is the one that ran.  Initially the *)
(* inputs are any values at all.  And the artifacts of it, for every       *)
(* engine, declared key, variable and host among the model's texts: each   *)
(* explains its own experiment and carries no credential.                  *)
(*                                                                         *)
(* And what is made of them: the summary of a sweep, for every row that     *)
(* can be measured, and the comparison of two runs' dumps, for every two     *)
(* runs and every moment at which they stop or are compared.                *)
(***************************************************************************)
EXTENDS MCArtifacts, FiniteSetTheorems, TLAPS

\* The files whose configurations are missing.
Missing == {c.file : c \in configs} \intersect broken

\* The plan is shared out between the configurations begun and those to come.
Shared ==
    /\ stage \in {"load", "guard"} => begun = {}
    /\ stage \notin {"load", "refused"} => begun \union todo = Runnable /\ skipped = Missing
    /\ stage = "ok" => budget \/ todo = {}

\* Past the guard no two configurations of the plan work on one index, under the names
\* the experiments have.
Apart(cs) ==
    \A c, d \in cs : c.engine = d.engine /\ c.engine \in Destructive /\ Addressed(c) = Addressed(d) => c = d
Guarded ==
    /\ Apart(begun)
    /\ stage \notin {"load", "guard", "refused"} => Apart(begun \union todo)

\* A refused experiment is on the list, and on the list of every summary; none is refused
\* while a summary is the last thing written.
Reported ==
    /\ refusals \subseteq rejected
    /\ stage \in {"load", "guard", "shards", "upload"} => artifact = {}
    /\ \A a \in artifact : a.phase = "run" => a.skipped = Missing /\ refusals \subseteq a.rejected

PlanIInv == Shared /\ Guarded /\ Reported

\* What no step changes.
LEMMA InputsKept ==
    ASSUME UNCHANGED inputs
    PROVE  /\ Missing' = Missing /\ Runnable' = Runnable /\ budget' = budget
           /\ \A c : Addressed(c)' = Addressed(c)
BY DEF inputs, Missing, Runnable, Selected, Unbroken, Addressed, IndexName, Raw

\* Names that differ before the renaming, or engines that do, are enough.
LEMMA GuardIsEnough ==
    ASSUME NEW cs, validate_engine_selection(cs), NoSharedIndex(cs)
    PROVE  Apart(cs)
<1> SUFFICES ASSUME NEW c \in cs, NEW d \in cs, c.engine = d.engine, c.engine \in Destructive,
                    Addressed(c) = Addressed(d)
             PROVE  c = d
    BY DEF Apart
<1>1. CASE scalar BY <1>1 DEF validate_engine_selection
<1>2. CASE ~scalar BY <1>2 DEF NoSharedIndex, Addressed
<1> QED BY <1>1, <1>2

\* Nothing is loaded, and no one has begun.
LEMMA InitPlan == Unstarted => PlanIInv
BY DEF Unstarted, PlanIInv, Shared, Guarded, Reported, Apart

\* A step of an experiment that goes on, ends or stops the run.
LEMMA ExperimentStep ==
    ASSUME PlanIInv, UNCHANGED <<inputs, skipped, todo, begun>>,
           stage \notin {"load", "guard", "ok", "refused"}, stage' \notin {"load", "guard", "ok"}
    PROVE  Shared' /\ Guarded'
<1>1. Missing' = Missing /\ Runnable' = Runnable /\ budget' = budget /\ \A c : Addressed(c)' = Addressed(c) BY InputsKept
<1>2. Shared' BY <1>1 DEF PlanIInv, Shared
<1>3. Guarded' BY <1>1 DEF PlanIInv, Guarded, Apart
<1> QED BY <1>2, <1>3

\* The load plans what was selected, without the files it cannot read.
LEMMA LoadKeeps == ASSUME PlanIInv, RunLoad PROVE PlanIInv'
<1>1. /\ stage = "load" /\ begun = {} /\ artifact = {}
      /\ UNCHANGED <<inputs, begun, artifact, refusals, rejected>>
    BY DEF RunLoad, Load, PlanIInv, Shared, Reported
<1>2. Missing' = Missing /\ Runnable' = Runnable BY <1>1, InputsKept
<1>3. \/ stage' = "guard" /\ skipped' = Missing /\ todo' = Runnable
      \/ stage' = "refused"
    BY DEF RunLoad, Load, Missing
<1>4. Shared' BY <1>1, <1>2, <1>3 DEF Shared
<1>5. Guarded' /\ Reported' BY <1>1, <1>3 DEF PlanIInv, Guarded, Reported, Apart
<1> QED BY <1>4, <1>5 DEF PlanIInv

\* The guard lets a plan through only if no index is shared.
LEMMA GuardKeeps == ASSUME PlanIInv, run_guard PROVE PlanIInv'
<1>1. /\ stage = "guard" /\ begun = {} /\ artifact = {}
      /\ stage' \in {"next", "refused"} /\ (stage' = "next" => Apart(todo))
      /\ UNCHANGED <<inputs, skipped, todo, begun, artifact, refusals, rejected>>
    BY GuardIsEnough DEF run_guard, CheckPlan, PlanIInv, Shared, Reported
<1>2. Missing' = Missing /\ Runnable' = Runnable /\ budget' = budget /\ \A c : Addressed(c)' = Addressed(c) BY <1>1, InputsKept
<1>3. Shared' BY <1>1, <1>2 DEF PlanIInv, Shared
<1>4. Guarded' BY <1>1, <1>2 DEF Guarded, Apart
<1>5. Reported' BY <1>1 DEF PlanIInv, Reported
<1> QED BY <1>3, <1>4, <1>5 DEF PlanIInv

\* An experiment moves from those to come to those begun.
LEMMA BeginKeeps == ASSUME PlanIInv, NEW c \in todo, Begin(c) PROVE PlanIInv'
<1>1. /\ stage = "next" /\ stage' \in {"shards", "refused"} /\ todo' = todo \ {c} /\ begun' = begun \union {c}
      /\ artifact' = {} /\ UNCHANGED <<inputs, skipped, rejected, refusals>>
    BY DEF Begin, Take
<1>2. Missing' = Missing /\ Runnable' = Runnable /\ \A d : Addressed(d)' = Addressed(d) BY <1>1, InputsKept
<1>3. begun' \union todo' = begun \union todo /\ begun' \subseteq begun \union todo BY <1>1
<1>4. Shared' BY <1>1, <1>2, <1>3 DEF PlanIInv, Shared
<1>5. Guarded'
    <2>1. Apart(begun \union todo) BY <1>1 DEF PlanIInv, Guarded
    <2>2. \A d, e \in begun' \union todo' :
            d.engine = e.engine /\ d.engine \in Destructive /\ Addressed(d)' = Addressed(e)' => d = e
        BY <1>2, <1>3, <2>1 DEF Apart
    <2> QED BY <1>3, <2>2 DEF Guarded, Apart
<1>6. Reported' BY <1>1 DEF PlanIInv, Reported
<1> QED BY <1>4, <1>5, <1>6 DEF PlanIInv

\* Files are written with both lists as they are at that moment.
LEMMA SaveKeeps == ASSUME PlanIInv, SaveUpload \/ SaveSearches \/ SaveSummary PROVE PlanIInv'
<1>1. /\ stage \in {"uploaded", "search", "summary"} /\ stage' \in {"refused", "search", "summary", "next"}
      /\ UNCHANGED <<inputs, skipped, todo, begun, rejected, refusals>>
    BY DEF SaveUpload, SaveSearches, SaveSummary
<1>2. \A a \in artifact' : a.skipped = skipped /\ a.rejected = rejected
    BY DEF SaveUpload, SaveSearches, SaveSummary, Save
<1>3. Shared' /\ Guarded' BY <1>1, ExperimentStep
<1>4. Missing' = Missing /\ skipped = Missing BY <1>1, InputsKept DEF PlanIInv, Shared
<1>5. Reported' BY <1>1, <1>2, <1>4 DEF PlanIInv, Reported
<1> QED BY <1>3, <1>5 DEF PlanIInv

\* A rejected experiment is on the list from then on.
LEMMA RejectKeeps == ASSUME PlanIInv, Reject PROVE PlanIInv'
<1>1. /\ stage = "upload" /\ stage' \in {"next", "refused"} /\ artifact = {}
      /\ rejected' = rejected \union {cur} /\ refusals' = refusals \union {cur}
      /\ UNCHANGED <<inputs, skipped, todo, begun, artifact>>
    BY DEF Reject, record_rejected_experiment, PlanIInv, Reported
<1>2. Shared' /\ Guarded' BY <1>1, ExperimentStep
<1>3. Reported' BY <1>1 DEF PlanIInv, Reported
<1> QED BY <1>2, <1>3 DEF PlanIInv

\* The steps of an experiment that leave both lists alone and write no file.
LEMMA WorkKeeps ==
    ASSUME PlanIInv, Shards \/ Upload \/ (\E p \in pending : Search(p)) \/ Fail
    PROVE  PlanIInv'
<1>1. /\ stage \in {"shards", "upload", "uploaded", "search", "summary"}
      /\ stage' \in {"upload", "uploaded", "search", "next", "refused"}
      /\ UNCHANGED <<inputs, skipped, todo, begun, rejected, refusals>>
      /\ artifact' = {} \/ (artifact' = artifact /\ stage \in {"shards", "upload"})
    BY DEF Shards, Upload, Search, Fail
<1>2. Shared' /\ Guarded' BY <1>1, ExperimentStep
<1>3. Missing' = Missing /\ artifact' = {} BY <1>1, InputsKept DEF PlanIInv, Reported
<1>4. Reported' BY <1>1, <1>3 DEF PlanIInv, Reported
<1> QED BY <1>2, <1>4 DEF PlanIInv

\* The sweep ends when none is to come, or when the budget is spent.
LEMMA FinishKeeps == ASSUME PlanIInv, Finish \/ OutOfBudget PROVE PlanIInv'
<1>1. /\ stage = "next" /\ stage' = "ok" /\ (budget \/ todo = {}) /\ artifact' = {}
      /\ UNCHANGED <<inputs, skipped, todo, begun, rejected, refusals>>
    BY DEF Finish, OutOfBudget
<1>2. Missing' = Missing /\ Runnable' = Runnable /\ budget' = budget /\ \A c : Addressed(c)' = Addressed(c) BY <1>1, InputsKept
<1>3. Shared'
    <2>1. begun' \union todo' = Runnable' /\ skipped' = Missing' BY <1>1, <1>2 DEF PlanIInv, Shared
    <2>2. budget' \/ todo' = {} BY <1>1, <1>2, Zenon
    <2> QED BY <1>1, <2>1, <2>2 DEF Shared
<1>4. Guarded' BY <1>1, <1>2 DEF PlanIInv, Guarded, Apart
<1>5. Reported' BY <1>1 DEF PlanIInv, Reported
<1> QED BY <1>3, <1>4, <1>5 DEF PlanIInv

\* Any files, any command line, any environment.
THEOREM PlanInvariance == Spec => []PlanIInv
<1>1. ASSUME PlanIInv, [Next]_vars PROVE PlanIInv'
    <2>1. CASE RunLoad BY <1>1, <2>1, LoadKeeps
    <2>2. CASE run_guard BY <1>1, <2>2, GuardKeeps
    <2>3. CASE \E c \in todo : Begin(c) BY <1>1, <2>3, BeginKeeps
    <2>4. CASE SaveUpload \/ SaveSearches \/ SaveSummary BY <1>1, <2>4, SaveKeeps
    <2>5. CASE Reject BY <1>1, <2>5, RejectKeeps
    <2>6. CASE Shards \/ Upload \/ (\E p \in pending : Search(p)) \/ Fail BY <1>1, <2>6, WorkKeeps
    <2>7. CASE Finish \/ OutOfBudget BY <1>1, <2>7, FinishKeeps
    <2>8. CASE UNCHANGED vars
        <3>1. UNCHANGED <<inputs, stage, skipped, todo, begun, artifact, refusals, rejected>>
            BY <2>8 DEF vars, planVars, inputs
        <3>2. Missing' = Missing /\ Runnable' = Runnable /\ budget' = budget /\ \A c : Addressed(c)' = Addressed(c) BY <3>1, InputsKept
        <3>3. Shared'
            <4>1. stage = "ok" => budget \/ todo = {} BY <1>1 DEF PlanIInv, Shared
            <4>2. stage' = "ok" => budget' \/ todo' = {} BY <3>1, <3>2, <4>1, Zenon
            <4>3. /\ stage' \in {"load", "guard"} => begun' = {}
                  /\ stage' \notin {"load", "refused"} => begun' \union todo' = Runnable' /\ skipped' = Missing'
                BY <1>1, <3>1, <3>2 DEF PlanIInv, Shared
            <4> QED BY <4>2, <4>3 DEF Shared
        <3>4. Guarded' BY <1>1, <3>1, <3>2 DEF PlanIInv, Guarded, Apart
        <3>5. Reported' BY <1>1, <3>1, <3>2 DEF PlanIInv, Reported
        <3> QED BY <3>3, <3>4, <3>5 DEF PlanIInv
    <2> QED BY <1>1, <2>1, <2>2, <2>3, <2>4, <2>5, <2>6, <2>7, <2>8 DEF Next
<1> QED BY InitPlan, <1>1, PTL DEF Spec

\* A sweep never shrinks in silence (by a file, by a refusal, or by an experiment that never
\* began without --timeout), and no configuration of it works on another's index, however
\* many configurations there are and whichever share a name, a token or a file.
THEOREM SweepIsAsPlanned == Spec => []PlanKept
<1>1. PlanIInv => PlanKept
    <2> SUFFICES ASSUME PlanIInv PROVE NoSilentShrink /\ OwnNamespace BY DEF PlanKept
    <2>1. ASSUME stage = "ok"
          PROVE  begun \subseteq Announced(skipped) /\ (~budget => begun = Announced(skipped))
        <3>1. begun \union todo = Runnable /\ skipped = Missing /\ (budget \/ todo = {})
            BY <2>1 DEF PlanIInv, Shared
        <3>2. \A c \in configs : c.file \notin Missing <=> c.file \notin broken BY DEF Missing
        <3>3. Announced(Missing) = Runnable BY <3>2 DEF Announced, Runnable, Selected, Unbroken
        <3> QED BY <3>1, <3>3
    <2>2. NoSilentShrink BY <2>1 DEF NoSilentShrink, PlanIInv, Reported, Missing
    <2>3. OwnNamespace BY DEF OwnNamespace, PlanIInv, Guarded, Apart
    <2> QED BY <2>2, <2>3
<1> QED BY <1>1, PlanInvariance, PTL

-----------------------------------------------------------------------------
\* The artifacts.

\* What a setting may be, once resolved; a token only under a credential's name.
Values == Texts \union {"one", "off", "default", "null"}
Fit(name, x) ==
    /\ x \in Values
    /\ x = "tok" => is_secret(name)
    /\ x = "unset" => ~is_secret(name)

Knobs(c) == create_engine[c.engine]
Use(c, k) == [var |-> Var(c.engine, k.name), how |-> k.how, val |-> Out(c, k).val]

KnownConfig(c) ==
    /\ c.engine \in supported_engines
    /\ c.decl \in {"unset", "one"} /\ c.policies \subseteq {"none", "one", "two"}
    /\ c.extra = [key |-> c.extra.key, val |-> c.extra.val]
    /\ c.extra.key \in {"none", "api_key", "unknown", "unread", "hnsw.dsn", "number_of_shards"}
    /\ c.extra.val \in Texts /\ (c.extra.val = "tok" => is_secret(c.extra.key))

\* The recorder r, in the experiment of c that has resolved us so far.

Shaped(r) ==
    r = [declared |-> r.declared, invocation |-> r.invocation, phase |-> r.phase, env |-> r.env,
         effective |-> r.effective, overridden |-> r.overridden, ignored |-> r.ignored,
         from_default |-> r.from_default]

\* It was begun for c.
Begun(r, c) ==
    /\ r.declared = {[key |-> "parallel", val |-> c.decl], c.extra}
    /\ r.invocation \in {"plain", "dsn"}
    /\ r.ignored \subseteq {"unread", "hnsw.dsn"}

\* It says nothing that was not resolved: the value of a setting is that of a reader that
\* records it, the text of a variable is the environment's, and of a reader that looks.
Grounded(r, c, us) ==
    /\ \A v \in DOMAIN r.effective : \E u \in us :
        /\ u.var = v /\ u.val = r.effective[v]
        /\ \/ u.how \in {"shards", "policy"} /\ v[2] \in {"number_of_shards", "hybrid_policy"}
           \/ \E k \in Knobs(c) : u = Use(c, k) /\ Out(c, k).recorded
    /\ \A v \in DOMAIN r.env :
        /\ r.env[v] = Raw(v)
        /\ \E k \in Knobs(c) : v = Var(c.engine, k.name) /\ Observes(k, c) /\ Use(c, k) \in us

\* It leaves nothing out that a reader records or looks at.
Complete(r, c, us) ==
    \A u \in us :
        /\ Fit(u.var[2], u.val)
        /\ \/ u.how \in {"shards", "policy"} /\ u.var \in DOMAIN r.effective
           \/ \E k \in Knobs(c) :
                /\ u = Use(c, k)
                /\ Out(c, k).recorded => u.var \in DOMAIN r.effective
                /\ Observes(k, c) => u.var \in DOMAIN r.env

\* A credential is a default where it says so.
Defaults(r) ==
    \A v \in DOMAIN r.effective : is_secret(v[2]) => (v \in r.from_default <=> r.effective[v] = "default")

Overrides(r) ==
    \A o \in r.overridden :
        o.key \notin {"tok", "dsn", "hnsw.dsn"} /\ Fit(o.key, o.declared) /\ Fit(o.key, o.effective)

RecorderOK(r, c, us) ==
    Shaped(r) /\ Begun(r, c) /\ Grounded(r, c, us) /\ Complete(r, c, us) /\ Defaults(r) /\ Overrides(r)

-----------------------------------------------------------------------------
\* The table.

\* What every engine constructor reads, and how.
LEMMA KnobFacts ==
    ASSUME NEW c, KnownConfig(c), NEW k \in Knobs(c)
    PROVE  /\ k.how \in Readers
           /\ \A l \in Knobs(c) : Var(c.engine, l.name) = Var(c.engine, k.name) => l = k
           /\ Var(c.engine, k.name)[2] = k.name
           /\ is_secret(k.name) => k.how \in {"raw", "required", "or", "opt"}
           /\ k.name \notin {"number_of_shards", "hybrid_policy", "tok", "dsn", "hnsw.dsn"}
<1>1. \A n : Var(c.engine, n)[2] = n BY DEF Var
<1> QED BY <1>1, KnobsAssumption DEF KnownConfig, Knobs

\* What a reader resolves, records and looks at.
LEMMA OutFacts ==
    ASSUME NEW c, KnownConfig(c), NEW k, k.how \in Readers, KnownTexts
    PROVE  LET raw == Raw(Var(c.engine, k.name))
               o == Out(c, k)
           IN  /\ o.val \in Values \ {"unset"} /\ (o.val = "tok" => raw = "tok")
               /\ o.recorded <=> \/ k.how \notin {"raw", "required", "secs", "config", "connection"}
                                 \/ k.how = "secs" /\ raw # "unset"
               /\ k.how \in {"raw", "required", "or"} => o.val = IF raw = "unset" THEN "default" ELSE raw
               /\ k.how = "secs" /\ raw = "unset" => o.val = "default"
               /\ k.how = "opt" => o.val # "default"
               /\ k.how = "config" => o.val = IF c.decl = "unset" THEN "default" ELSE c.decl
<1> DEFINE raw == Raw(Var(c.engine, k.name))
<1>1. raw \in Texts /\ c.decl \in {"unset", "one"} BY DEF KnownTexts, Raw, KnownConfig, Texts
<1> USE <1>1 DEF Out, Resolve, Outcome, Texts, Values, Parses, DeclaredOr
<1>2. CASE k.how \in {"parsed", "wait"} BY <1>2 DEF env_parsed
<1>3. CASE k.how = "or" BY <1>3 DEF env_or
<1>4. CASE k.how = "flag" BY <1>4 DEF env_flag
<1>5. CASE k.how = "present" BY <1>5 DEF env_present
<1>6. CASE k.how = "opt" BY <1>6 DEF env_opt
<1>7. CASE k.how = "raw" BY <1>7 DEF env_var
<1>8. CASE k.how = "required" BY <1>8 DEF env_var
<1>9. CASE k.how = "choice" BY <1>9 DEF env_or
<1>10. CASE k.how = "secs" BY <1>10 DEF parse_env_secs
<1>11. CASE k.how = "env_first" BY <1>11
<1>12. CASE k.how = "config_first" BY <1>12
<1>13. CASE k.how = "strict_config_first" BY <1>13
<1>14. CASE k.how \in {"config", "connection"} BY <1>14
<1>15. CASE k.how = "clamped" BY <1>15
<1> QED BY <1>2, <1>3, <1>4, <1>5, <1>6, <1>7, <1>8, <1>9, <1>10, <1>11, <1>12, <1>13, <1>14, <1>15 DEF Readers

-----------------------------------------------------------------------------
\* The recorder.

\* What recording the settings ks makes of each field.
RecordedAs(q, r, c, ks) ==
    LET kept == {k \in ks : Out(c, k).recorded}
        looked == {k \in ks : Observes(k, c)}
        lost == {l \in ks : Loses(l.how, Raw(Var(c.engine, l.name)))}
        note(k) == [key |-> Var(c.engine, k.name)[2], declared |-> Raw(Var(c.engine, k.name)),
                    effective |-> Out(c, k).val]
    IN  /\ Shaped(q)
        /\ q.declared = r.declared /\ q.invocation = r.invocation /\ q.ignored = r.ignored
        /\ DOMAIN q.env = DOMAIN r.env \union Vars(c, looked)
        /\ \A v \in DOMAIN q.env : q.env[v] = IF v \in DOMAIN r.env THEN r.env[v] ELSE Raw(v)
        /\ DOMAIN q.effective = DOMAIN r.effective \union Vars(c, kept)
        /\ \A v \in DOMAIN q.effective \ Vars(c, kept) : q.effective[v] = r.effective[v]
        /\ \A k \in kept : q.effective[Var(c.engine, k.name)] = Out(c, k).val
        /\ q.from_default = (r.from_default \ Vars(c, kept)) \union
                Vars(c, {k \in kept : k.how = "or" /\ Raw(Var(c.engine, k.name)) = "unset"})
        /\ q.overridden = r.overridden \union {note(k) : k \in lost}

\* What a pass over the knobs leaves in a record.
LEMMA RecordedFields ==
    ASSUME NEW c, KnownConfig(c), NEW ks, ks \subseteq Knobs(c), NEW r, Shaped(r)
    PROVE  RecordedAs(Recorded(r, c, ks), r, c, ks)
<1> DEFINE q == Recorded(r, c, ks)
           kept == {k \in ks : Out(c, k).recorded}
           looked == {k \in ks : Observes(k, c)}
           new == [v \in Vars(c, kept) |-> Value(c, v, kept)]
           dflt == (r.from_default \ Vars(c, kept)) \union
                        Vars(c, {k \in kept : k.how = "or" /\ Raw(Var(c.engine, k.name)) = "unset"})
           notes == {[key |-> Var(c.engine, k.name)[2], declared |-> Raw(Var(c.engine, k.name)),
                      effective |-> Out(c, k).val] : k \in {l \in ks : Loses(l.how, Raw(Var(c.engine, l.name)))}}
           seen == observe_env(r, Vars(c, looked))
           eff == record_effective(r, new)
           over == note_override(r, notes)
<1>1. /\ Shaped(q)
      /\ q.declared = r.declared /\ q.invocation = r.invocation /\ q.ignored = r.ignored
      /\ q.env = seen /\ q.effective = eff /\ q.from_default = dflt /\ q.overridden = over
    <2>1. q = [r EXCEPT !.env = seen, !.effective = eff, !.from_default = dflt, !.overridden = over]
        BY Zenon DEF Recorded
    <2> HIDE DEF seen, eff, dflt, over
    <2>2. q = [declared |-> r.declared, invocation |-> r.invocation, phase |-> r.phase, env |-> seen,
               effective |-> eff, overridden |-> over, ignored |-> r.ignored, from_default |-> dflt]
        BY <2>1 DEF Shaped
    <2> HIDE DEF q
    <2> QED BY <2>2 DEF Shaped
<1>2. ASSUME NEW k \in kept PROVE Value(c, Var(c.engine, k.name), kept) = Out(c, k).val
    <2> DEFINE l == CHOOSE x \in kept : Var(c.engine, x.name) = Var(c.engine, k.name)
    <2>1. l \in kept /\ Var(c.engine, l.name) = Var(c.engine, k.name) OBVIOUS
    <2>2. l = k BY <2>1, KnobFacts
    <2> QED BY <2>2 DEF Value
<1>3. \A k \in kept : Var(c.engine, k.name) \in Vars(c, kept) BY DEF Vars
<1>4. /\ DOMAIN q.env = DOMAIN r.env \union Vars(c, looked)
      /\ \A v \in DOMAIN q.env : q.env[v] = IF v \in DOMAIN r.env THEN r.env[v] ELSE Raw(v)
    BY <1>1 DEF observe_env
<1>5. /\ DOMAIN q.effective = DOMAIN r.effective \union Vars(c, kept)
      /\ \A v \in DOMAIN q.effective \ Vars(c, kept) : q.effective[v] = r.effective[v]
      /\ \A v \in Vars(c, kept) : q.effective[v] = Value(c, v, kept)
    BY <1>1 DEF record_effective
<1>6. \A k \in kept : q.effective[Var(c.engine, k.name)] = Out(c, k).val BY <1>2, <1>3, <1>5
<1> HIDE DEF q
<1> QED BY <1>1, <1>4, <1>5, <1>6 DEF note_override, RecordedAs, q

\* Reading any of an engine's settings leaves the recorder in order.
LEMMA RecordedOK ==
    ASSUME NEW c, KnownConfig(c), KnownTexts, NEW ks, ks \subseteq Knobs(c), NEW r, NEW us, RecorderOK(r, c, us)
    PROVE  RecorderOK(Recorded(r, c, ks), c, us \union Uses(c, ks))
<1> DEFINE q == Recorded(r, c, ks)
           ws == us \union Uses(c, ks)
           kept == {k \in ks : Out(c, k).recorded}
           looked == {k \in ks : Observes(k, c)}
           lost == {l \in ks : Loses(l.how, Raw(Var(c.engine, l.name)))}
           note(k) == [key |-> Var(c.engine, k.name)[2], declared |-> Raw(Var(c.engine, k.name)),
                       effective |-> Out(c, k).val]
<1>0. RecordedAs(q, r, c, ks) BY RecordedFields DEF RecorderOK
<1> HIDE DEF q
<1>1. /\ Shaped(q)
      /\ q.declared = r.declared /\ q.invocation = r.invocation /\ q.ignored = r.ignored
      /\ DOMAIN q.env = DOMAIN r.env \union Vars(c, looked)
      /\ \A v \in DOMAIN q.env : q.env[v] = IF v \in DOMAIN r.env THEN r.env[v] ELSE Raw(v)
      /\ DOMAIN q.effective = DOMAIN r.effective \union Vars(c, kept)
      /\ \A v \in DOMAIN q.effective \ Vars(c, kept) : q.effective[v] = r.effective[v]
      /\ \A k \in kept : q.effective[Var(c.engine, k.name)] = Out(c, k).val
      /\ q.from_default = (r.from_default \ Vars(c, kept)) \union
                Vars(c, {k \in kept : k.how = "or" /\ Raw(Var(c.engine, k.name)) = "unset"})
      /\ q.overridden = r.overridden \union {note(k) : k \in lost}
    BY <1>0, Zenon DEF RecordedAs
<1>2. \A k \in ks : Use(c, k) \in ws BY DEF Uses, Use
<1>3. \A w \in ws : w \in us \/ \E k \in ks : w = Use(c, k) BY DEF Uses, Use
<1>4. \A S : \A v \in Vars(c, S) : \E k \in S : v = Var(c.engine, k.name) BY DEF Vars
<1>5. \A S : \A k \in S : Var(c.engine, k.name) \in Vars(c, S) BY DEF Vars
<1>6. \A k : Use(c, k).var = Var(c.engine, k.name) /\ Use(c, k).val = Out(c, k).val BY DEF Use
<1>7. ASSUME NEW k \in ks
      PROVE  Fit(Var(c.engine, k.name)[2], Out(c, k).val)
    <2>1. k.how \in Readers /\ Var(c.engine, k.name)[2] = k.name BY KnobFacts
    <2>2. /\ Out(c, k).val \in Values \ {"unset"}
          /\ Out(c, k).val = "tok" => Raw(Var(c.engine, k.name)) = "tok"
        BY <2>1, OutFacts
    <2>3. Raw(Var(c.engine, k.name)) = "tok" => is_secret(Var(c.engine, k.name)[2]) BY DEF KnownTexts, Raw
    <2> QED BY <2>2, <2>3 DEF Fit
<1>8. Begun(q, c) BY <1>1 DEF RecorderOK, Begun
<1>9. Grounded(q, c, ws)
    <2>1. ASSUME NEW v \in DOMAIN q.effective
          PROVE  \E u \in ws :
                    /\ u.var = v /\ u.val = q.effective[v]
                    /\ \/ u.how \in {"shards", "policy"} /\ v[2] \in {"number_of_shards", "hybrid_policy"}
                       \/ \E k \in Knobs(c) : u = Use(c, k) /\ Out(c, k).recorded
        <3>1. CASE v \in Vars(c, kept)
            <4>1. PICK k \in kept : v = Var(c.engine, k.name) BY <3>1, <1>4
            <4>2. q.effective[v] = Out(c, k).val BY <1>1, <4>1
            <4>3. Use(c, k) \in ws /\ k \in Knobs(c) /\ Out(c, k).recorded BY <1>2
            <4> QED BY <4>1, <4>2, <4>3, <1>6
        <3>2. CASE v \notin Vars(c, kept)
            <4>1. v \in DOMAIN r.effective /\ q.effective[v] = r.effective[v] BY <3>2, <1>1
            <4> QED BY <4>1 DEF RecorderOK, Grounded
        <3> QED BY <3>1, <3>2
    <2>2. ASSUME NEW v \in DOMAIN q.env
          PROVE  /\ q.env[v] = Raw(v)
                 /\ \E k \in Knobs(c) : v = Var(c.engine, k.name) /\ Observes(k, c) /\ Use(c, k) \in ws
        <3>1. CASE v \in DOMAIN r.env BY <3>1, <1>1 DEF RecorderOK, Grounded
        <3>2. CASE v \notin DOMAIN r.env
            <4>1. PICK k \in looked : v = Var(c.engine, k.name) BY <3>2, <1>1, <1>4
            <4>2. k \in Knobs(c) /\ Observes(k, c) /\ Use(c, k) \in ws BY <1>2
            <4> QED BY <3>2, <1>1, <4>1, <4>2
        <3> QED BY <3>1, <3>2
    <2> QED BY <2>1, <2>2 DEF Grounded
<1>10. Complete(q, c, ws)
    <2> SUFFICES ASSUME NEW u \in ws
                 PROVE  /\ Fit(u.var[2], u.val)
                        /\ \/ u.how \in {"shards", "policy"} /\ u.var \in DOMAIN q.effective
                           \/ \E k \in Knobs(c) :
                                /\ u = Use(c, k)
                                /\ Out(c, k).recorded => u.var \in DOMAIN q.effective
                                /\ Observes(k, c) => u.var \in DOMAIN q.env
        BY DEF Complete
    <2>1. CASE u \in us
        <3>1. DOMAIN r.effective \subseteq DOMAIN q.effective /\ DOMAIN r.env \subseteq DOMAIN q.env BY <1>1
        <3> QED BY <2>1, <3>1 DEF RecorderOK, Complete
    <2>2. CASE \E k \in ks : u = Use(c, k)
        <3>1. PICK k \in ks : u = Use(c, k) BY <2>2
        <3>2. ASSUME Out(c, k).recorded PROVE u.var \in DOMAIN q.effective
            <4>1. k \in kept BY <3>2
            <4>2. u.var \in Vars(c, kept) BY <3>1, <4>1, <1>5, <1>6
            <4> QED BY <4>2, <1>1
        <3>3. ASSUME Observes(k, c) PROVE u.var \in DOMAIN q.env
            <4>1. k \in looked BY <3>3
            <4>2. u.var \in Vars(c, looked) BY <3>1, <4>1, <1>5, <1>6
            <4> QED BY <4>2, <1>1
        <3>4. Fit(u.var[2], u.val) BY <3>1, <1>6, <1>7
        <3> QED BY <3>1, <3>2, <3>3, <3>4
    <2> QED BY <1>3, <2>1, <2>2
<1>11. Defaults(q)
    <2> SUFFICES ASSUME NEW v \in DOMAIN q.effective, is_secret(v[2])
                 PROVE  v \in q.from_default <=> q.effective[v] = "default"
        BY DEF Defaults
    <2>1. CASE v \notin Vars(c, kept)
        <3>1. v \in DOMAIN r.effective /\ q.effective[v] = r.effective[v] BY <2>1, <1>1
        <3>2. v \in q.from_default <=> v \in r.from_default BY <2>1, <1>1 DEF Vars
        <3> QED BY <3>1, <3>2 DEF RecorderOK, Defaults
    <2>2. CASE v \in Vars(c, kept)
        <3>1. PICK k \in kept : v = Var(c.engine, k.name) BY <2>2, <1>4
        <3>2. q.effective[v] = Out(c, k).val BY <1>1, <3>1
        <3>3. /\ k.how \in Readers /\ v[2] = k.name /\ k.how \in {"raw", "required", "or", "opt"}
              /\ \A l \in Knobs(c) : Var(c.engine, l.name) = v => l = k
            BY <3>1, KnobFacts
        <3>4. v \in q.from_default <=> k.how = "or" /\ Raw(v) = "unset" BY <3>1, <3>3, <1>1, <2>2 DEF Vars
        <3>5. /\ Out(c, k).recorded => k.how \notin {"raw", "required"}
              /\ k.how = "or" => Out(c, k).val = IF Raw(v) = "unset" THEN "default" ELSE Raw(v)
              /\ k.how = "opt" => Out(c, k).val # "default"
            BY <3>1, <3>3, OutFacts
        <3>6. Raw(v) # "default" BY DEF Raw, KnownTexts, Texts
        <3> QED BY <3>1, <3>2, <3>3, <3>4, <3>5, <3>6
    <2> QED BY <2>1, <2>2
<1>12. Overrides(q)
    <2>1. ASSUME NEW k \in lost
          PROVE  LET o == note(k)
                 IN  o.key \notin {"tok", "dsn", "hnsw.dsn"} /\ Fit(o.key, o.declared) /\ Fit(o.key, o.effective)
        <3>1. Var(c.engine, k.name)[2] \notin {"tok", "dsn", "hnsw.dsn"} BY KnobFacts
        <3>2. Raw(Var(c.engine, k.name)) # "unset" BY DEF Loses
        <3>3. Fit(Var(c.engine, k.name)[2], Raw(Var(c.engine, k.name))) BY <3>2 DEF Fit, KnownTexts, Raw, Texts, Values
        <3> QED BY <3>1, <3>3, <1>7
    <2> QED BY <1>1, <2>1 DEF Overrides, RecorderOK
<1> QED BY <1>1, <1>8, <1>9, <1>10, <1>11, <1>12 DEF RecorderOK, q

\* begin_experiment clears what an earlier experiment recorded.
LEMMA BegunOK ==
    ASSUME NEW c, KnownConfig(c), KnownTexts
    PROVE  RecorderOK(begin_experiment(c), c, {})
<1> DEFINE q == begin_experiment(c)
           unread == known_unread_for(c)
           absorbed == IF unread \/ unsupported_keys(c) THEN {c.extra.key} ELSE {}
           notes == IF unread THEN {[key |-> c.extra.key, declared |-> c.extra.val, effective |-> "null"]} ELSE {}
<1>1. q = [declared |-> {[key |-> "parallel", val |-> c.decl]} \union {c.extra}, invocation |-> host,
           phase |-> "none", env |-> <<>>, effective |-> <<>>, overridden |-> {} \union notes,
           ignored |-> {} \union absorbed, from_default |-> {}]
    <2>1. q = [[Recorder EXCEPT !.declared = {[key |-> "parallel", val |-> c.decl]} \union {c.extra},
                                !.ignored = Recorder.ignored \union absorbed,
                                !.overridden = note_override(Recorder, notes)] EXCEPT !.invocation = host]
        BY Zenon DEF begin_experiment, set_declared, begin
    <2> HIDE DEF notes, absorbed
    <2> QED BY <2>1 DEF Recorder, note_override
<1> HIDE DEF q
<1>2. absorbed \subseteq {"unread", "hnsw.dsn"} BY DEF known_unread_for, unsupported_keys
<1>3. \A o \in notes : o.key \notin {"tok", "dsn", "hnsw.dsn"} /\ Fit(o.key, o.declared) /\ Fit(o.key, o.effective)
    BY DEF KnownConfig, known_unread_for, Fit, Values, is_secret
<1> HIDE DEF notes, absorbed
<1>4. Shaped(q) /\ Begun(q, c)
    BY <1>1, <1>2 DEF Shaped, Begun, KnownTexts
<1>5. DOMAIN q.env = {} /\ DOMAIN q.effective = {} BY <1>1
<1>6. Overrides(q) BY <1>1, <1>3 DEF Overrides
<1> QED BY <1>4, <1>5, <1>6 DEF RecorderOK, Grounded, Complete, Defaults, q

\* One value the experiment resolves outside the table, with the notes it makes of it.
NotesOK(notes) ==
    \A o \in notes : o.key \notin {"tok", "dsn", "hnsw.dsn"} /\ Fit(o.key, o.declared) /\ Fit(o.key, o.effective)
Resolved(v, h, x) == [var |-> v, how |-> h, val |-> x]
Separate(v, h, x) ==
    v[2] \in {"number_of_shards", "hybrid_policy"} /\ h \in {"shards", "policy"} /\ Fit(v[2], x)
OneMore(q, r, v, x, notes) ==
    /\ Shaped(q) /\ q.declared = r.declared /\ q.invocation = r.invocation /\ q.env = r.env
    /\ q.effective = record_effective(r, [y \in {v} |-> x]) /\ q.overridden = r.overridden \union notes
    /\ q.ignored = r.ignored /\ q.from_default = r.from_default

\* A value resolved apart from the pass keeps the record one of its configuration.
LEMMA OneMoreOK ==
    ASSUME NEW c, KnownConfig(c), NEW r, NEW us, RecorderOK(r, c, us),
           NEW v, NEW h, NEW x, Separate(v, h, x), NEW notes, NotesOK(notes), NEW q, OneMore(q, r, v, x, notes)
    PROVE  RecorderOK(q, c, us \union {Resolved(v, h, x)})
<1> DEFINE one == Resolved(v, h, x)
           ws == us \union {one}
<1>1. /\ DOMAIN q.effective = DOMAIN r.effective \union {v} /\ q.effective[v] = x
      /\ \A y \in DOMAIN r.effective \ {v} : q.effective[y] = r.effective[y]
    BY DEF record_effective, OneMore
<1>2. one.var = v /\ one.how = h /\ one.val = x BY DEF Resolved
<1> HIDE DEF one
<1> USE DEF Separate
<1>3. Begun(q, c) BY DEF RecorderOK, Begun, OneMore
<1>4. Grounded(q, c, ws)
    <2>1. ASSUME NEW y \in DOMAIN q.effective
          PROVE  \E u \in ws :
                    /\ u.var = y /\ u.val = q.effective[y]
                    /\ \/ u.how \in {"shards", "policy"} /\ y[2] \in {"number_of_shards", "hybrid_policy"}
                       \/ \E k \in Knobs(c) : u = Use(c, k) /\ Out(c, k).recorded
        <3>1. CASE y = v BY <3>1, <1>1, <1>2
        <3>2. CASE y # v BY <3>2, <1>1 DEF RecorderOK, Grounded
        <3> QED BY <3>1, <3>2
    <2> QED BY <2>1 DEF Grounded, RecorderOK, OneMore
<1>5. Complete(q, c, ws) BY <1>1, <1>2 DEF Complete, RecorderOK, OneMore
<1>6. Defaults(q) BY <1>1 DEF Defaults, RecorderOK, OneMore, is_secret
<1>7. Overrides(q) BY DEF Overrides, RecorderOK, OneMore, NotesOK
<1> QED BY <1>3, <1>4, <1>5, <1>6, <1>7 DEF RecorderOK, OneMore, one

-----------------------------------------------------------------------------
\* The block.

Credentials == {"tok", "dsn", "hnsw.dsn"}

\* What ArtifactHonest says of one block b of c's experiment.
BlockExplains(b, c, us) ==
    /\ b.declared = {scrub_declared(d) : d \in {[key |-> "parallel", val |-> c.decl], c.extra}}
    /\ DOMAIN b.effective \subseteq {u.var : u \in us}
    /\ DOMAIN b.env \subseteq {u.var : u \in us}
    /\ \A u \in {x \in us : x.how # "connection"} :
            Concludes(b, u) \in UNION {Shown(w) : w \in {x \in us : x.var = u.var}}
BlockCleared(b) ==
    /\ b.invocation \notin Credentials /\ b.ignored \intersect Credentials = {}
    /\ \A d \in b.declared : d.val \notin Credentials /\ d.key \notin Credentials
    /\ \A v \in DOMAIN b.effective : b.effective[v] \notin Credentials
    /\ \A v \in DOMAIN b.env : b.env[v] \notin Credentials
    /\ \A o \in b.overridden :
            o.key \notin Credentials /\ o.declared \notin Credentials /\ o.effective \notin Credentials
    /\ assert_no_cleartext_secrets(b)

\* One leaf, scrubbed.
LEMMA ScrubFacts ==
    ASSUME NEW x \in Values, NEW secret \in BOOLEAN, x = "tok" => secret
    PROVE  /\ scrub(x, secret) \notin Credentials
           /\ x # "unset" => scrub(x, secret) # "unset" /\ (secret => scrub(x, secret) \in {"null", "redacted"})
           /\ x = "unset" => scrub(x, secret) = "unset"
           /\ x \notin {"unset", "null"} /\ secret => scrub(x, secret) = "redacted"
           /\ x \in {"default", "one"} /\ ~secret => scrub(x, secret) = x
BY DEF scrub, redact_connection_like, is_plain_token, Values, Texts, Credentials

\* The two declared keys, scrubbed.
LEMMA DeclaredFacts ==
    ASSUME NEW c, KnownConfig(c)
    PROVE  /\ scrub_declared([key |-> "parallel", val |-> c.decl]) = [key |-> "parallel", val |-> c.decl]
           /\ LET d == scrub_declared(c.extra)
              IN  /\ d.key \notin Credentials \union {"parallel"} /\ d.val \notin Credentials
                  /\ is_secret(d.key) => d.val = "redacted"
<1> USE DEF KnownConfig, scrub_declared, redact_connection_like, is_plain_token, DECLARED_KEY_ALLOWLIST, is_secret,
            scrub, Credentials, Texts
<1>1. scrub_declared([key |-> "parallel", val |-> c.decl]) = [key |-> "parallel", val |-> c.decl] OBVIOUS
<1> DEFINE d == scrub_declared(c.extra)
<1>2. d.key \notin Credentials \union {"parallel"} OBVIOUS
<1>3. d.val \notin Credentials OBVIOUS
<1>4. is_secret(d.key) => d.val = "redacted" OBVIOUS
<1> QED BY <1>1, <1>2, <1>3, <1>4

\* The fields of the block the recorder r publishes.
BlockOf(b, r) ==
    /\ b.invocation = scrub(r.invocation, FALSE)
    /\ b.declared = {scrub_declared(d) : d \in r.declared}
    /\ DOMAIN b.effective = DOMAIN r.effective
    /\ \A v \in DOMAIN b.effective :
            b.effective[v] = IF is_secret(v[2]) /\ v \in r.from_default THEN "redacted default"
                             ELSE scrub(r.effective[v], is_secret(v[2]))
    /\ DOMAIN b.env = DOMAIN r.env
    /\ \A v \in DOMAIN b.env : b.env[v] = scrub(r.env[v], is_secret(v[2]))
    /\ \A o \in b.overridden : \E n \in r.overridden :
            /\ o.key = redact_connection_like(n.key)
            /\ o.declared = scrub(n.declared, is_secret(n.key))
            /\ o.effective = scrub(n.effective, is_secret(n.key))
    /\ b.ignored = {redact_connection_like(k) : k \in r.ignored}

\* What a snapshot takes from the record.
LEMMA BlockFields ==
    ASSUME NEW r, Shaped(r), NEW p
    PROVE  BlockOf(snapshot(set_phase(r, p)), r)
<1> DEFINE q == set_phase(r, p)
           b == snapshot(q)
<1>1. /\ q.declared = r.declared /\ q.invocation = r.invocation /\ q.env = r.env /\ q.effective = r.effective
      /\ q.overridden = r.overridden /\ q.ignored = r.ignored /\ q.from_default = r.from_default
    BY DEF Shaped, set_phase
<1> HIDE DEF q
<1>2. /\ b.invocation = scrub(q.invocation, FALSE)
      /\ b.declared = {scrub_declared(d) : d \in q.declared}
      /\ b.effective = scrubbed_effective(q)
      /\ b.env = [v \in DOMAIN q.env |-> scrub(q.env[v], is_secret(v[2]))]
      /\ b.ignored = {redact_connection_like(k) : k \in q.ignored}
    BY DEF snapshot
<1>3. b.overridden = {[key |-> redact_connection_like(o.key), declared |-> scrub(o.declared, is_secret(o.key)),
                       effective |-> scrub(o.effective, is_secret(o.key))] : o \in q.overridden}
    BY DEF snapshot
<1> HIDE DEF b
<1>4. \A o \in b.overridden : \E n \in r.overridden :
        /\ o.key = redact_connection_like(n.key)
        /\ o.declared = scrub(n.declared, is_secret(n.key))
        /\ o.effective = scrub(n.effective, is_secret(n.key))
    BY <1>1, <1>3
<1>5. /\ DOMAIN b.effective = DOMAIN r.effective
      /\ \A v \in DOMAIN b.effective :
            b.effective[v] = IF is_secret(v[2]) /\ v \in r.from_default THEN "redacted default"
                             ELSE scrub(r.effective[v], is_secret(v[2]))
    BY <1>1, <1>2 DEF scrubbed_effective
<1>6. /\ DOMAIN b.env = DOMAIN r.env
      /\ \A v \in DOMAIN b.env : b.env[v] = scrub(r.env[v], is_secret(v[2]))
    BY <1>1, <1>2
<1> QED BY <1>1, <1>2, <1>4, <1>5, <1>6 DEF BlockOf, b, q

\* No leaf of the block is a credential, and the last walk over it finds none.
LEMMA BlockIsCleared ==
    ASSUME NEW c, KnownConfig(c), KnownTexts, NEW r, NEW us, RecorderOK(r, c, us), NEW b, BlockOf(b, r)
    PROVE  BlockCleared(b)
<1>1. \A n : is_secret(n) \in BOOLEAN BY DEF is_secret
<1>2. b.invocation \notin Credentials
    BY DEF BlockOf, RecorderOK, Begun, scrub, redact_connection_like, is_plain_token, Credentials
<1>3. b.ignored \intersect Credentials = {}
    <2>1. b.ignored = {redact_connection_like(k) : k \in r.ignored} BY DEF BlockOf
    <2>2. r.ignored \subseteq {"unread", "hnsw.dsn"} BY DEF RecorderOK, Begun
    <2>3. \A k \in {"unread", "hnsw.dsn"} : redact_connection_like(k) \notin Credentials
        BY DEF redact_connection_like, is_plain_token, Credentials
    <2> QED BY <2>1, <2>2, <2>3
<1>4. ASSUME NEW d \in b.declared
      PROVE  d.val \notin Credentials /\ d.key \notin Credentials /\ (is_secret(d.key) => d.val \in {"unset", "redacted"})
    <2>1. b.declared = {scrub_declared([key |-> "parallel", val |-> c.decl]), scrub_declared(c.extra)}
        <3>1. r.declared = {[key |-> "parallel", val |-> c.decl], c.extra} BY DEF RecorderOK, Begun
        <3>2. b.declared = {scrub_declared(x) : x \in r.declared} BY DEF BlockOf
        <3> QED BY <3>1, <3>2
    <2>2. CASE d = scrub_declared(c.extra) BY <2>2, DeclaredFacts
    <2>3. CASE d = scrub_declared([key |-> "parallel", val |-> c.decl])
        BY <2>3, DeclaredFacts DEF KnownConfig, Credentials, is_secret
    <2> QED BY <2>1, <2>2, <2>3
<1>5. ASSUME NEW v \in DOMAIN b.effective
      PROVE  /\ b.effective[v] \notin Credentials
             /\ is_secret(v[2]) => b.effective[v] \in {"null", "redacted", "redacted default"}
    <2>1. v \in DOMAIN r.effective BY DEF BlockOf
    <2>2. PICK u \in us : u.var = v /\ u.val = r.effective[v] BY <2>1 DEF RecorderOK, Grounded
    <2>3. Fit(v[2], r.effective[v]) BY <2>2 DEF RecorderOK, Complete
    <2>4. LET s == scrub(r.effective[v], is_secret(v[2]))
          IN  s \notin Credentials /\ (is_secret(v[2]) => s \in {"null", "redacted"})
        BY <2>3, <1>1, ScrubFacts DEF Fit
    <2>5. CASE is_secret(v[2]) /\ v \in r.from_default BY <2>5 DEF BlockOf, Credentials
    <2>6. CASE ~(is_secret(v[2]) /\ v \in r.from_default) BY <2>4, <2>6 DEF BlockOf
    <2> QED BY <2>5, <2>6
<1>6. ASSUME NEW v \in DOMAIN b.env
      PROVE  b.env[v] \notin Credentials /\ (is_secret(v[2]) => b.env[v] \in {"unset", "redacted"})
    <2>1. r.env[v] = Raw(v) /\ b.env[v] = scrub(Raw(v), is_secret(v[2])) BY DEF BlockOf, RecorderOK, Grounded
    <2>2. Raw(v) \in Texts /\ (Raw(v) = "tok" => is_secret(v[2])) BY DEF Raw, KnownTexts, Texts
    <2>3. Raw(v) \in Values /\ Raw(v) # "null" BY <2>2 DEF Texts, Values
    <2> QED BY <2>1, <2>2, <2>3, <1>1, ScrubFacts
<1>7. ASSUME NEW o \in b.overridden
      PROVE  o.key \notin Credentials /\ o.declared \notin Credentials /\ o.effective \notin Credentials
    <2>1. PICK n \in r.overridden :
            /\ o.key = redact_connection_like(n.key)
            /\ o.declared = scrub(n.declared, is_secret(n.key))
            /\ o.effective = scrub(n.effective, is_secret(n.key))
        BY DEF BlockOf
    <2>2. n.key \notin Credentials /\ Fit(n.key, n.declared) /\ Fit(n.key, n.effective)
        BY DEF RecorderOK, Overrides, Credentials
    <2>3. o.key \notin Credentials BY <2>1, <2>2 DEF redact_connection_like, Credentials
    <2>4. o.declared \notin Credentials /\ o.effective \notin Credentials BY <2>1, <2>2, <1>1, ScrubFacts DEF Fit
    <2> QED BY <2>3, <2>4
<1> QED BY <1>2, <1>3, <1>4, <1>5, <1>6, <1>7 DEF BlockCleared, assert_no_cleartext_secrets

\* From the block a reader concludes what the engine worked with.
LEMMA BlockIsExplained ==
    ASSUME NEW c, KnownConfig(c), KnownTexts, NEW r, NEW us, RecorderOK(r, c, us), NEW b, BlockOf(b, r)
    PROVE  BlockExplains(b, c, us)
<1>1. \A n : is_secret(n) \in BOOLEAN BY DEF is_secret
<1>2. b.declared = {scrub_declared(d) : d \in {[key |-> "parallel", val |-> c.decl], c.extra}}
    BY DEF BlockOf, RecorderOK, Begun
<1>3. DOMAIN b.effective \subseteq {u.var : u \in us}
    <2>1. \A v \in DOMAIN b.effective : \E u \in us : u.var = v BY DEF BlockOf, RecorderOK, Grounded
    <2> QED BY <2>1
<1>4. DOMAIN b.env \subseteq {u.var : u \in us}
    <2>1. \A v \in DOMAIN b.env : \E k \in Knobs(c) : v = Var(c.engine, k.name) /\ Use(c, k) \in us
        BY DEF BlockOf, RecorderOK, Grounded
    <2>2. \A k : Use(c, k).var = Var(c.engine, k.name) BY DEF Use
    <2> QED BY <2>1, <2>2
<1>5. ASSUME NEW u \in us, u.how # "connection"
      PROVE  \E w \in us : w.var = u.var /\ Concludes(b, u) \in Shown(w)
    <2> DEFINE v == u.var
               secret == is_secret(v[2])
    <2>1. CASE v \in DOMAIN b.effective
        <3>1. v \in DOMAIN r.effective BY <2>1 DEF BlockOf
        <3>2. PICK w \in us : w.var = v /\ w.val = r.effective[v] BY <3>1 DEF RecorderOK, Grounded
        <3>3. Concludes(b, u) = b.effective[v] BY <2>1 DEF Concludes
        <3>4. secret => (v \in r.from_default <=> w.val = "default") BY <3>1, <3>2 DEF RecorderOK, Defaults
        <3>5. b.effective[v] = IF secret /\ v \in r.from_default THEN "redacted default" ELSE scrub(w.val, secret)
            BY <2>1, <3>2 DEF BlockOf
        <3>6. b.effective[v] \in Shown(w) BY <3>2, <3>4, <3>5 DEF Shown
        <3> QED BY <3>2, <3>3, <3>6
    <2>2. CASE v \notin DOMAIN b.effective
        <3>1. v \notin DOMAIN r.effective BY <2>2 DEF BlockOf
        <3>2. PICK k \in Knobs(c) :
                /\ u = Use(c, k) /\ ~Out(c, k).recorded
                /\ Observes(k, c) => v \in DOMAIN r.env
            BY <3>1 DEF RecorderOK, Complete
        <3>3. v = Var(c.engine, k.name) /\ u.how = k.how /\ u.val = Out(c, k).val BY <3>2 DEF Use
        <3>4. /\ k.how \in Readers /\ v[2] = k.name
              /\ \A l \in Knobs(c) : Var(c.engine, l.name) = v => l = k
              /\ secret => k.how \in {"raw", "required", "or", "opt"}
            BY <3>3, KnobFacts
        <3>5. /\ Raw(v) \in Values \ {"default", "null"} /\ (Raw(v) = "tok" => secret)
            BY DEF Raw, KnownTexts, Texts, Values
        <3>6. \/ k.how \in {"raw", "required"} \/ (k.how = "secs" /\ Raw(v) = "unset") \/ k.how = "config"
            BY <1>5, <3>2, <3>3, <3>4, OutFacts
        <3>7. CASE k.how # "config"
            <4>1. u.val = IF Raw(v) = "unset" THEN "default" ELSE Raw(v) BY <3>3, <3>4, <3>6, <3>7, OutFacts
            <4>2. v \in DOMAIN b.env BY <3>2, <3>6, <3>7 DEF Observes, BlockOf
            <4>3. b.env[v] = scrub(Raw(v), secret) BY <4>2 DEF BlockOf, RecorderOK, Grounded
            <4>4. CASE Raw(v) = "unset"
                <5>1. b.env[v] = "unset" BY <4>3, <4>4, <1>1, <3>5, ScrubFacts
                <5>2. Concludes(b, u) = "default" BY <5>1, <2>2, <3>3, <3>7 DEF Concludes
                <5>3. u.val = "default" BY <4>1, <4>4
                <5>4. "default" \in Values BY DEF Values
                <5>5. ~secret => scrub("default", secret) = "default" BY <1>1, <5>4, ScrubFacts
                <5>6. "default" \in Shown(u) BY <5>3, <5>5 DEF Shown
                <5> QED BY <5>2, <5>6
            <4>5. CASE Raw(v) # "unset"
                <5>1. b.env[v] # "unset" BY <4>3, <4>5, <1>1, <3>5, ScrubFacts
                <5>2. Concludes(b, u) = scrub(Raw(v), secret) BY <5>1, <2>2, <4>2, <4>3 DEF Concludes
                <5>3. u.val = Raw(v) /\ u.val # "default" BY <4>1, <4>5, <3>5
                <5>4. scrub(Raw(v), secret) \in Shown(u) BY <5>3 DEF Shown
                <5> QED BY <5>2, <5>4
            <4> QED BY <4>4, <4>5
        <3>8. CASE k.how = "config"
            <4>1. v \notin DOMAIN b.env
                <5>1. \A l \in Knobs(c) : Var(c.engine, l.name) = v => ~Observes(l, c) BY <3>4, <3>8 DEF Observes
                <5> QED BY <5>1 DEF BlockOf, RecorderOK, Grounded
            <4>2. {d.val : d \in {x \in b.declared : x.key = "parallel"}} = {c.decl}
                <5> DEFINE d1 == scrub_declared([key |-> "parallel", val |-> c.decl])
                           d2 == scrub_declared(c.extra)
                <5>1. d1.key = "parallel" /\ d1.val = c.decl /\ d2.key # "parallel" BY DeclaredFacts
                <5>2. b.declared = {d1, d2} BY <1>2
                <5> HIDE DEF d1, d2
                <5> QED BY <5>1, <5>2
            <4>3. Concludes(b, u) = IF c.decl # "unset" THEN c.decl ELSE "default"
                <5>1. u.how = "config" BY <3>3, <3>8
                <5>2. {c.decl} # {"unset"} <=> c.decl # "unset" OBVIOUS
                <5>3. (CHOOSE d \in {c.decl} : TRUE) = c.decl OBVIOUS
                <5>4. Concludes(b, u) = IF {c.decl} # {"unset"} THEN CHOOSE d \in {c.decl} : TRUE ELSE "default"
                    BY <2>2, <4>1, <4>2, <5>1 DEF Concludes
                <5> QED BY <5>2, <5>3, <5>4
            <4>4. u.val = (IF c.decl = "unset" THEN "default" ELSE c.decl) /\ c.decl \in {"unset", "one"}
                BY <3>3, <3>4, <3>8, OutFacts DEF KnownConfig
            <4>5. ~secret BY <3>4, <3>8
            <4>6. scrub("default", FALSE) = "default" /\ scrub("one", FALSE) = "one"
                BY DEF scrub, redact_connection_like, is_plain_token
            <4>7. u.val \in Shown(u) BY <4>4, <4>5, <4>6, <1>1 DEF Shown
            <4> QED BY <4>3, <4>4, <4>7
        <3> QED BY <3>7, <3>8
    <2> QED BY <2>1, <2>2
<1>6. \A u \in {x \in us : x.how # "connection"} :
        Concludes(b, u) \in UNION {Shown(w) : w \in {x \in us : x.var = u.var}}
    <2> SUFFICES ASSUME NEW u \in us, u.how # "connection"
                 PROVE  Concludes(b, u) \in UNION {Shown(w) : w \in {x \in us : x.var = u.var}}
        OBVIOUS
    <2>1. PICK w \in us : w.var = u.var /\ Concludes(b, u) \in Shown(w) BY <1>5
    <2> QED BY <2>1
<1> QED BY <1>2, <1>3, <1>4, <1>6 DEF BlockExplains

-----------------------------------------------------------------------------
\* The invariant.

Working == {"shards", "upload", "uploaded", "search", "summary"}

\* While an experiment runs the recorder is its own and in order; what was last written is
\* about the experiment that wrote it.
InOrder ==
    stage \in Working =>
        \A r, c, us : r = rec /\ c = cur /\ us = used => KnownConfig(c) /\ RecorderOK(r, c, us)
Written ==
    \A c, us : c = cur /\ us = used => \A a \in artifact : BlockExplains(a.block, c, us) /\ BlockCleared(a.block)
KnownPolicies == stage \in {"uploaded", "search"} => pending \subseteq {"none", "one", "two"}

ArtifactIInv == KnownTexts /\ InOrder /\ Written /\ KnownPolicies

\* The inputs are what they were.
LEMMA TextsKept ==
    ASSUME UNCHANGED <<inputs, host>>
    PROVE  /\ KnownTexts' <=> KnownTexts
           /\ \A r, c, us : RecorderOK(r, c, us)' <=> RecorderOK(r, c, us)
<1>1. KnownTexts' <=> KnownTexts BY DEF inputs, KnownTexts
<1>2. \A v : Raw(v)' = Raw(v) BY DEF inputs, Raw
<1>3. \A c, k : Out(c, k)' = Out(c, k) BY <1>2 DEF Out
<1>4. \A c, k : Use(c, k)' = Use(c, k) BY <1>3 DEF Use
<1>5. \A r, c, us : Grounded(r, c, us)' <=> Grounded(r, c, us) BY <1>2, <1>3, <1>4 DEF Grounded
<1>6. \A r, c, us : Complete(r, c, us)' <=> Complete(r, c, us) BY <1>3, <1>4 DEF Complete
<1>7. \A r, c, us : RecorderOK(r, c, us)' <=> RecorderOK(r, c, us) BY <1>5, <1>6 DEF RecorderOK
<1> QED BY <1>1, <1>7

\* A step after which no experiment runs and that writes nothing.
LEMMA IdleStep ==
    ASSUME ArtifactIInv, UNCHANGED <<inputs, host>>, stage' \notin Working,
           artifact' = {} \/ UNCHANGED <<artifact, cur, used>>
    PROVE  ArtifactIInv'
<1>1. KnownTexts' BY TextsKept DEF ArtifactIInv
<1>2. InOrder' BY DEF InOrder
<1>3. Written' BY DEF ArtifactIInv, Written
<1>4. KnownPolicies' BY DEF KnownPolicies, Working
<1> QED BY <1>1, <1>2, <1>3, <1>4 DEF ArtifactIInv

\* A step after which the experiment runs on with its recorder in order, and nothing is
\* written.
LEMMA WorkStep ==
    ASSUME ArtifactIInv, UNCHANGED <<inputs, host>>, artifact' = {},
           KnownConfig(cur'), RecorderOK(rec', cur', used'), KnownPolicies'
    PROVE  ArtifactIInv'
<1>1. KnownTexts' BY TextsKept DEF ArtifactIInv
<1>2. InOrder' BY TextsKept DEF InOrder
<1>3. Written' BY DEF Written
<1> QED BY <1>1, <1>2, <1>3 DEF ArtifactIInv

\* Each step of an experiment, by what it records.
LEMMA BeginHonest == ASSUME PlanIInv, ArtifactIInv, NEW c \in todo, Begin(c) PROVE ArtifactIInv'
<1>1. /\ stage = "next" /\ stage' \in {"shards", "refused"} /\ cur' = c /\ artifact' = {}
      /\ rec' = Recorded(begin_experiment(c), c, Read(c, "new")) /\ used' = Uses(c, Read(c, "new"))
      /\ UNCHANGED <<inputs, host>>
    BY DEF Begin, Take
<1>2. c \in configs /\ c.engine \in supported_engines BY <1>1 DEF PlanIInv, Shared, Runnable, Selected, Unbroken
<1>3. KnownConfig(c) /\ KnownTexts BY <1>2 DEF ArtifactIInv, KnownTexts, KnownConfig
<1>4. RecorderOK(rec', c, {} \union Uses(c, Read(c, "new")))
    <2>1. Read(c, "new") \subseteq Knobs(c) BY DEF Read, Knobs
    <2>2. RecorderOK(begin_experiment(c), c, {}) BY <1>3, BegunOK
    <2> QED BY <1>1, <1>3, <2>1, <2>2, RecordedOK
<1>5. used' = {} \union Uses(c, Read(c, "new")) BY <1>1
<1>6. RecorderOK(rec', cur', used') BY <1>1, <1>4, <1>5
<1>7. KnownPolicies' BY <1>1 DEF KnownPolicies
<1> QED BY <1>1, <1>3, <1>6, <1>7, WorkStep

\* The shard count is resolved after the pass, and from the same texts.
LEMMA ShardsHonest == ASSUME PlanIInv, ArtifactIInv, Shards PROVE ArtifactIInv'
<1> DEFINE v == <<cur.engine, "number_of_shards">>
           declared == cur.extra.key = "number_of_shards"
           val == IF cur.engine = "opensearch" /\ declared THEN cur.extra.val ELSE "default"
           notes == IF cur.engine = "elasticsearch" /\ declared
                    THEN {[key |-> "number_of_shards", declared |-> cur.extra.val, effective |-> val]} ELSE {}
<1>1. stage = "shards" /\ stage' = "upload" /\ UNCHANGED <<inputs, host, cur>> /\ artifact' = {}
    BY DEF Shards, PlanIInv, Reported
<1>2. KnownConfig(cur) /\ RecorderOK(rec, cur, used) BY <1>1 DEF ArtifactIInv, InOrder, Working
<1>3. KnownPolicies' BY <1>1 DEF KnownPolicies
<1>4. CASE cur.engine \notin {"opensearch", "elasticsearch"}
    <2>1. UNCHANGED <<rec, used>> BY <1>4 DEF Shards
    <2> QED BY <1>1, <1>2, <1>3, <2>1, WorkStep
<1>5. CASE cur.engine \in {"opensearch", "elasticsearch"}
    <2>1. /\ rec' = [rec EXCEPT !.effective = record_effective(rec, [x \in {v} |-> val]),
                                !.overridden = note_override(rec, notes)]
          /\ used' = used \union {Resolved(v, "shards", val)}
        BY <1>5, Zenon DEF Shards, Resolved
    <2>2. Separate(v, "shards", val) BY <1>2 DEF Separate, KnownConfig, Fit, Values, Texts, is_secret
    <2>3. NotesOK(notes) BY <1>2, <2>2 DEF NotesOK, KnownConfig, Fit, Values, Texts, is_secret
    <2> HIDE DEF v, val, notes
    <2>4. OneMore(rec', rec, v, val, notes)
        <3> DEFINE eff == record_effective(rec, [x \in {v} |-> val])
        <3>1. rec' = [rec EXCEPT !.effective = eff, !.overridden = note_override(rec, notes)] BY <2>1
        <3> HIDE DEF eff
        <3>2. Shaped(rec) BY <1>2 DEF RecorderOK
        <3>3. rec' = [declared |-> rec.declared, invocation |-> rec.invocation, phase |-> rec.phase, env |-> rec.env,
                      effective |-> eff, overridden |-> rec.overridden \union notes, ignored |-> rec.ignored,
                      from_default |-> rec.from_default]
            BY <3>1, <3>2 DEF Shaped, note_override
        <3> QED BY <3>3 DEF OneMore, Shaped, eff
    <2>5. RecorderOK(rec', cur, used \union {Resolved(v, "shards", val)})
        BY <1>2, <2>2, <2>3, <2>4, OneMoreOK
    <2> QED BY <1>1, <1>2, <1>3, <2>1, <2>5, WorkStep
<1> QED BY <1>4, <1>5

\* An upload's reads of the environment are recorded.
LEMMA UploadHonest == ASSUME PlanIInv, ArtifactIInv, Upload PROVE ArtifactIInv'
<1>1. /\ stage = "upload" /\ stage' = "uploaded" /\ UNCHANGED <<inputs, host, cur>> /\ artifact' = {}
      /\ rec' = Recorded(rec, cur, Read(cur, "upload")) /\ used' = used \union Uses(cur, Read(cur, "upload"))
      /\ pending' = cur.policies
    BY DEF Upload, PlanIInv, Reported
<1>2. KnownConfig(cur) /\ RecorderOK(rec, cur, used) BY <1>1 DEF ArtifactIInv, InOrder, Working
<1>3. KnownPolicies' BY <1>1, <1>2 DEF KnownPolicies, KnownConfig
<1>4. Read(cur, "upload") \subseteq Knobs(cur) BY DEF Read, Knobs
<1>5. RecorderOK(rec', cur', used') BY <1>1, <1>2, <1>4, RecordedOK DEF ArtifactIInv
<1> QED BY <1>1, <1>2, <1>3, <1>5, WorkStep

\* A search's reads are recorded, and the policy it resolved.
LEMMA SearchHonest == ASSUME ArtifactIInv, NEW p \in pending, Search(p) PROVE ArtifactIInv'
<1> DEFINE v == <<"redis", "hybrid_policy">>
           read == Recorded(rec, cur, Read(cur, "search"))
           ws == used \union Uses(cur, Read(cur, "search"))
<1>1. /\ stage = "search" /\ stage' = "search" /\ UNCHANGED <<inputs, host, cur>> /\ artifact' = {}
      /\ pending' \subseteq pending
    BY DEF Search
<1>2. KnownConfig(cur) /\ RecorderOK(rec, cur, used) BY <1>1 DEF ArtifactIInv, InOrder, Working
<1>3. KnownPolicies' BY <1>1 DEF KnownPolicies, ArtifactIInv
<1>4. Read(cur, "search") \subseteq Knobs(cur) BY DEF Read, Knobs
<1>5. RecorderOK(read, cur, ws) BY <1>1, <1>2, <1>4, RecordedOK DEF ArtifactIInv
<1>6. CASE p = "none"
    <2>1. rec' = read /\ used' = ws BY <1>6 DEF Search
    <2> QED BY <1>1, <1>2, <1>3, <1>5, <2>1, WorkStep
<1>7. CASE p # "none"
    <2>1. /\ rec' = [read EXCEPT !.effective = record_effective(read, [x \in {v} |-> p])]
          /\ used' = ws \union {Resolved(v, "policy", p)}
        BY <1>7, Zenon DEF Search, Resolved
    <2>2. Separate(v, "policy", p) BY <1>1, <1>7 DEF Separate, ArtifactIInv, KnownPolicies, Fit, Values, Texts
    <2> HIDE DEF v, read, ws
    <2>3. OneMore(rec', read, v, p, {})
        <3> DEFINE eff == record_effective(read, [x \in {v} |-> p])
        <3>1. rec' = [read EXCEPT !.effective = eff] BY <2>1
        <3> HIDE DEF eff
        <3>2. Shaped(read) BY <1>5 DEF RecorderOK
        <3>3. rec' = [declared |-> read.declared, invocation |-> read.invocation, phase |-> read.phase, env |-> read.env,
                      effective |-> eff, overridden |-> read.overridden, ignored |-> read.ignored,
                      from_default |-> read.from_default]
            BY <3>1, <3>2 DEF Shaped
        <3> QED BY <3>3 DEF OneMore, Shaped, eff
    <2>4. RecorderOK(rec', cur, ws \union {Resolved(v, "policy", p)})
        <3>1. NotesOK({}) BY DEF NotesOK
        <3> QED BY <1>2, <1>5, <2>2, <2>3, <3>1, OneMoreOK
    <2> QED BY <1>1, <1>2, <1>3, <2>1, <2>4, WorkStep
<1> QED BY <1>6, <1>7

\* set_phase touches nothing a block explains.
LEMMA PhaseOK ==
    ASSUME NEW r, NEW c, NEW us, RecorderOK(r, c, us), NEW p
    PROVE  RecorderOK(set_phase(r, p), c, us)
<1> DEFINE q == set_phase(r, p)
<1>1. /\ Shaped(q) /\ q.declared = r.declared /\ q.invocation = r.invocation /\ q.env = r.env
      /\ q.effective = r.effective /\ q.overridden = r.overridden /\ q.ignored = r.ignored
      /\ q.from_default = r.from_default
    BY DEF RecorderOK, Shaped, set_phase
<1> HIDE DEF q
<1> QED BY <1>1 DEF RecorderOK, Begun, Grounded, Complete, Defaults, Overrides, q

\* What is written is the block of a recorder in order.
LEMMA SaveHonest ==
    ASSUME ArtifactIInv, SaveUpload \/ SaveSearches \/ SaveSummary
    PROVE  ArtifactIInv'
<1>1. PICK p, files : Save(p, files) BY DEF SaveUpload, SaveSearches, SaveSummary
<1>2. /\ stage \in {"uploaded", "search", "summary"} /\ stage' \in {"search", "summary", "next", "refused"}
      /\ UNCHANGED <<inputs, host, cur, used, pending>>
      /\ stage' = "search" => stage = "uploaded"
    BY DEF SaveUpload, SaveSearches, SaveSummary
<1>3. rec' = set_phase(rec, p) /\ \A a \in artifact' : a.block = snapshot(set_phase(rec, p)) BY <1>1 DEF Save
<1>4. KnownTexts /\ KnownConfig(cur) /\ RecorderOK(rec, cur, used) BY <1>2 DEF ArtifactIInv, InOrder, Working
<1>5. RecorderOK(rec', cur, used) BY <1>3, <1>4, PhaseOK
<1>6. KnownTexts' BY <1>2, <1>4, TextsKept
<1>7. InOrder' BY <1>2, <1>4, <1>5, TextsKept DEF InOrder
<1>8. KnownPolicies' BY <1>2 DEF ArtifactIInv, KnownPolicies
<1>9. Written'
    <2> DEFINE b == snapshot(set_phase(rec, p))
    <2>1. BlockOf(b, rec) BY <1>4, BlockFields DEF RecorderOK
    <2>2. BlockExplains(b, cur, used) /\ BlockCleared(b) BY <1>4, <2>1, BlockIsExplained, BlockIsCleared
    <2> HIDE DEF b
    <2>3. \A a \in artifact' : a.block = b BY <1>3 DEF b
    <2> QED BY <1>2, <2>2, <2>3 DEF Written
<1> QED BY <1>6, <1>7, <1>8, <1>9 DEF ArtifactIInv

\* Nothing is recorded.
LEMMA InitHonest == Unstarted /\ KnownTexts => ArtifactIInv
BY DEF Unstarted, ArtifactIInv, InOrder, Written, KnownPolicies, Working

\* No step writes an artifact of another experiment or one with a credential.
LEMMA StepHonest == ASSUME PlanIInv, ArtifactIInv, [Next]_vars PROVE ArtifactIInv'
<1>1. CASE RunLoad \/ run_guard
    <2>1. stage' \notin Working /\ UNCHANGED <<inputs, host, artifact, cur, used>>
        BY <1>1 DEF RunLoad, Load, run_guard, CheckPlan, Working
    <2> QED BY <2>1, IdleStep
<1>2. CASE Reject \/ Fail \/ Finish \/ OutOfBudget
    <2>1. stage' \notin Working /\ UNCHANGED <<inputs, host>> /\ (artifact' = {} \/ UNCHANGED <<artifact, cur, used>>)
        BY <1>2 DEF Reject, Fail, Finish, OutOfBudget, Working
    <2> QED BY <2>1, IdleStep
<1>3. CASE \E c \in todo : Begin(c) BY <1>3, BeginHonest
<1>4. CASE Shards BY <1>4, ShardsHonest
<1>5. CASE Upload BY <1>5, UploadHonest
<1>6. CASE \E p \in pending : Search(p) BY <1>6, SearchHonest
<1>7. CASE SaveUpload \/ SaveSearches \/ SaveSummary BY <1>7, SaveHonest
<1>8. CASE UNCHANGED vars
    <2>1. UNCHANGED <<inputs, host, stage, rec, cur, used, pending, artifact>> BY <1>8 DEF vars, planVars, inputs
    <2>2. KnownTexts' BY <2>1, TextsKept DEF ArtifactIInv
    <2>3. InOrder' BY <2>1, TextsKept DEF ArtifactIInv, InOrder
    <2>4. Written' BY <2>1 DEF ArtifactIInv, Written
    <2>5. KnownPolicies' BY <2>1 DEF ArtifactIInv, KnownPolicies
    <2> QED BY <2>2, <2>3, <2>4, <2>5 DEF ArtifactIInv
<1> QED BY <1>1, <1>2, <1>3, <1>4, <1>5, <1>6, <1>7, <1>8 DEF Next

\* Every block the recorder of effective_config.rs hands to a saved file explains the
\* experiment that wrote it and carries no credential, whichever engine, declared key,
\* environment variable, host and order of experiments, and however many experiments the
\* process ran before.
THEOREM ArtifactsAreHonest == Spec /\ KnownTexts => []ArtifactHonest
<1>1. ArtifactIInv => ArtifactHonest
    <2> SUFFICES ASSUME ArtifactIInv PROVE ArtifactExplainsRun /\ NoCredentialPublished BY DEF ArtifactHonest
    <2>1. \A a \in artifact : BlockExplains(a.block, cur, used) /\ BlockCleared(a.block)
        BY DEF ArtifactIInv, Written
    <2>2. ArtifactExplainsRun BY <2>1 DEF ArtifactExplainsRun, BlockExplains
    <2>3. NoCredentialPublished
        <3> SUFFICES ASSUME NEW a \in artifact
                     PROVE  LET b == a.block
                                leaves == {b.invocation} \union {d.val : d \in b.declared}
                                          \union {d.key : d \in b.declared}
                                          \union {b.effective[v] : v \in DOMAIN b.effective}
                                          \union {b.env[v] : v \in DOMAIN b.env}
                                          \union (UNION {{o.key, o.declared, o.effective} : o \in b.overridden})
                                          \union b.ignored
                            IN  leaves \intersect {"tok", "dsn", "hnsw.dsn"} = {} /\ assert_no_cleartext_secrets(b)
            BY DEF NoCredentialPublished
        <3>1. BlockCleared(a.block) BY <2>1
        <3> DEFINE b == a.block
                   notes == UNION {{o.key, o.declared, o.effective} : o \in b.overridden}
        <3>2. notes \intersect Credentials = {}
            <4>1. \A x \in notes : \E o \in b.overridden : x \in {o.key, o.declared, o.effective} OBVIOUS
            <4> QED BY <3>1, <4>1 DEF BlockCleared
        <3>3. /\ {d.val : d \in b.declared} \intersect Credentials = {}
              /\ {d.key : d \in b.declared} \intersect Credentials = {}
              /\ {b.effective[v] : v \in DOMAIN b.effective} \intersect Credentials = {}
              /\ {b.env[v] : v \in DOMAIN b.env} \intersect Credentials = {}
            BY <3>1 DEF BlockCleared
        <3>4. b.invocation \notin Credentials /\ b.ignored \intersect Credentials = {} BY <3>1 DEF BlockCleared
        <3>5. assert_no_cleartext_secrets(b) BY <3>1 DEF BlockCleared
        <3> HIDE DEF notes
        <3>6. ({b.invocation} \union {d.val : d \in b.declared} \union {d.key : d \in b.declared}
               \union {b.effective[v] : v \in DOMAIN b.effective} \union {b.env[v] : v \in DOMAIN b.env}
               \union notes \union b.ignored) \intersect Credentials = {}
            BY <3>2, <3>3, <3>4
        <3> QED BY <3>5, <3>6 DEF notes, Credentials
    <2> QED BY <2>2, <2>3
<1> QED BY <1>1, InitHonest, StepHonest, PlanInvariance, PTL DEF Spec

-----------------------------------------------------------------------------
\* The summary.

\* A set of numbers has a smallest one.
LEMMA Smallest ==
    ASSUME NEW S, S \subseteq Nat, S # {}
    PROVE  \E n \in S : \A m \in S : n <= m
<1> DEFINE C == {1..n : n \in S}  A == Nat
<1>1. C \subseteq FiniteSubsetsOf(A)
    <2> SUFFICES ASSUME NEW n \in S PROVE (1..n) \in FiniteSubsetsOf(A)
        OBVIOUS
    <2>1. n \in Nat OBVIOUS
    <2>2. (1..n) \subseteq Nat BY <2>1
    <2>3. IsFiniteSet(1..n)
        <3>1. 1 \in Int /\ n \in Int BY <2>1
        <3> QED BY <3>1, FS_Interval
    <2> QED BY <2>2, <2>3 DEF FiniteSubsetsOf
<1>2. PICK T \in C : \A U \in C : <<U, T>> \notin StrictSubsetOrdering(A)
    <2>1. C # {} OBVIOUS
    <2> HIDE DEF C, A
    <2>2. IsWellFoundedOn(StrictSubsetOrdering(A), FiniteSubsetsOf(A)) BY FS_StrictSubsetOrderingWellFounded
    <2> QED BY <1>1, <2>1, <2>2, WFMin
<1>3. PICK n \in S : T = 1..n OBVIOUS
<1>4. ASSUME NEW m \in S PROVE n <= m
    <2>1. m \in Nat /\ n \in Nat OBVIOUS
    <2>2. SUFFICES ASSUME m < n PROVE FALSE BY <2>1
    <2>3. (1..m) \in C /\ (1..m) \subseteq 1..n /\ n \in 1..n /\ n \notin 1..m BY <2>1, <2>2
    <2>4. (1..m) \in SUBSET Nat /\ T \in SUBSET Nat BY <2>1, <1>3
    <2>5. <<1..m, T>> \in StrictSubsetOrdering(A) BY <2>3, <2>4, <1>3 DEF StrictSubsetOrdering
    <2> QED BY <1>2, <2>3, <2>5
<1> QED BY <1>4

Replaces(rows, keys, h, n) == n \in DOMAIN keys /\ (keys[n] \in DOMAIN h => Better(rows[n], h[keys[n]]))
Held(rows, keys, h, n) ==
    IF Replaces(rows, keys, h, n)
    THEN [k \in DOMAIN h \union {keys[n]} |-> IF k = keys[n] THEN rows[n] ELSE h[k]]
    ELSE h

\* F is what the loop holds after each of the first n rows.
Holds(rows, keys, F, n) ==
    /\ F[0] = [k \in {} |-> 0]
    /\ \A m \in 1..n : F[m] = Held(rows, keys, F[m - 1], m)

\* The loop over the rows ends with what its last turn holds.
LEMMA BestHolds ==
    ASSUME NEW rows, Len(rows) \in Nat, NEW keys
    PROVE  \E F : Holds(rows, keys, F, Len(rows)) /\ Best(rows, keys) = F[Len(rows)]
<1> DEFINE N == Len(rows)
           Turn(f, n) == IF n = 0 THEN [k \in {} |-> 0]
                         ELSE IF n \notin DOMAIN keys \/ (keys[n] \in DOMAIN f[n - 1] /\ ~Better(rows[n], f[n - 1][keys[n]]))
                              THEN f[n - 1]
                              ELSE [k \in DOMAIN f[n - 1] \union {keys[n]} |-> IF k = keys[n] THEN rows[n] ELSE f[n - 1][k]]
           Table(n) == \E f : f = [m \in 0..n |-> Turn(f, m)]
           f0 == CHOOSE f : f = [m \in 0..N |-> Turn(f, m)]
<1>1. Best(rows, keys) = f0[N] BY DEF Best
<1>2. \A n \in 0..N : Table(n)
    <2> DEFINE Bad == {n \in 0..N : ~Table(n)}
    <2> SUFFICES ASSUME Bad # {} PROVE FALSE OBVIOUS
    <2>1. Bad \subseteq Nat OBVIOUS
    <2>2. PICK n \in Bad : \A m \in Bad : n <= m
        <3> HIDE DEF Bad
        <3> QED BY <2>1, Smallest
    <2>3. n \in 0..N /\ ~Table(n) /\ n \in Nat BY <2>1
    <2>4. CASE n = 0
        <3> DEFINE g == [m \in {0} |-> [k \in {} |-> 0]]
        <3>1. 0..n = {0} BY <2>4
        <3>2. g = [m \in 0..n |-> Turn(g, m)] BY <3>1
        <3> QED BY <2>3, <3>2
    <2>5. CASE n # 0
        <3>1. n - 1 \in 0..N /\ n - 1 \in Nat /\ ~(n <= n - 1) BY <2>3, <2>5
        <3>2. Table(n - 1)
            <4> HIDE DEF Table
            <4>1. n - 1 \notin Bad
                <5> HIDE DEF Bad
                <5> QED BY <2>2, <3>1
            <4> QED BY <4>1, <3>1
        <3>3. PICK f : f = [m \in 0..(n - 1) |-> Turn(f, m)] BY <3>2
        <3> DEFINE g == [m \in 0..n |-> IF m = n THEN Turn(f, n) ELSE f[m]]
        <3> HIDE DEF Turn
        <3>4. ASSUME NEW m \in 0..n PROVE g[m] = Turn(g, m)
            <4>1. CASE m = 0
                <5>1. g[m] = f[m] /\ m \in 0..(n - 1) BY <4>1, <2>3, <2>5
                <5>2. f[m] = Turn(f, m) BY <5>1, <3>3
                <5>3. Turn(f, m) = Turn(g, m) BY <4>1 DEF Turn
                <5> QED BY <5>1, <5>2, <5>3
            <4>2. CASE m # 0
                <5>1. m - 1 \in 0..(n - 1) /\ m - 1 \in 0..n /\ m - 1 # n BY <4>2, <2>3
                <5>2. g[m - 1] = f[m - 1] BY <5>1
                <5>3. Turn(g, m) = Turn(f, m)
                    <6> HIDE DEF g
                    <6> QED BY <5>2, <4>2 DEF Turn
                <5>4. g[m] = Turn(f, m)
                    <6>1. CASE m = n BY <6>1
                    <6>2. CASE m # n
                        <7>1. m \in 0..(n - 1) BY <6>2, <2>3
                        <7>2. f[m] = Turn(f, m) BY <7>1, <3>3
                        <7> QED BY <7>2, <6>2
                    <6> QED BY <6>1, <6>2
                <5> QED BY <5>3, <5>4
            <4> QED BY <4>1, <4>2
        <3>5. g = [m \in 0..n |-> Turn(g, m)]
            <4>1. g = [m \in 0..n |-> g[m]] OBVIOUS
            <4> HIDE DEF g
            <4> QED BY <3>4, <4>1
        <3> QED BY <2>3, <3>5
    <2> QED BY <2>4, <2>5
<1>3. f0 = [m \in 0..N |-> Turn(f0, m)]
    <2>1. N \in 0..N OBVIOUS
    <2>2. Table(N) BY <1>2, <2>1
    <2> HIDE DEF Turn, N
    <2> QED BY <2>2
<1> HIDE DEF f0
<1>4. Holds(rows, keys, f0, N)
    <2>1. \A m \in 0..N : f0[m] = Turn(f0, m)
        <3> HIDE DEF Turn
        <3> QED BY <1>3
    <2>2. f0[0] = [k \in {} |-> 0]
        <3>1. 0 \in 0..N OBVIOUS
        <3>2. f0[0] = Turn(f0, 0) BY <2>1, <3>1
        <3> QED BY <3>2
    <2>3. ASSUME NEW m \in 1..N PROVE f0[m] = Held(rows, keys, f0[m - 1], m)
        <3>1. m \in 0..N /\ m # 0 OBVIOUS
        <3>2. f0[m] = Turn(f0, m) BY <2>1, <3>1
        <3> HIDE DEF N
        <3> QED BY <3>1, <3>2 DEF Held, Replaces
    <2> QED BY <2>2, <2>3 DEF Holds
<1> QED BY <1>1, <1>4

\* What is held after n rows: each keys of those n, with a row that none of them beats.
BestOf(rows, keys, h, n) ==
    /\ DOMAIN h = {keys[i] : i \in DOMAIN keys \intersect 1..n}
    /\ \A k \in DOMAIN h :
          \E i \in DOMAIN keys \intersect 1..n :
             /\ keys[i] = k /\ h[k] = rows[i]
             /\ \A j \in DOMAIN keys \intersect 1..n : keys[j] = k => ~Better(rows[j], rows[i])

\* Among rows that are not saturated, and among saturated ones, more queries per second is
\* better, and the first are better than the second.
LEMMA BetterIsOrder ==
    ASSUME NEW a, NEW b, NEW c, a.qps \in Nat, b.qps \in Nat, c.qps \in Nat,
           a.saturated \in BOOLEAN, b.saturated \in BOOLEAN, c.saturated \in BOOLEAN
    PROVE  /\ ~Better(a, a)
           /\ Better(a, b) /\ ~Better(c, b) => ~Better(c, a)
           /\ ~Better(a, b) => (b.saturated => a.saturated) /\ (a.saturated = b.saturated => a.qps <= b.qps)
BY DEF Better

\* A turn of the loop keeps the best of the rows so far.
LEMMA HeldIsBest ==
    ASSUME NEW rows, NEW keys, NEW h, NEW n \in Nat, n > 0, BestOf(rows, keys, h, n - 1),
           \A i \in 1..n : rows[i].qps \in Nat /\ rows[i].saturated \in BOOLEAN
    PROVE  BestOf(rows, keys, Held(rows, keys, h, n), n)
<1> DEFINE old == DOMAIN keys \intersect 1..(n - 1)  new == DOMAIN keys \intersect 1..n
<1>1. n \in 1..n /\ \A i : i \in 1..n <=> i \in 1..(n - 1) \/ i = n OBVIOUS
<1>2. n \notin 1..(n - 1) OBVIOUS
<1>3. CASE n \notin DOMAIN keys
    <2>1. new = old BY <1>1, <1>3
    <2>2. Held(rows, keys, h, n) = h BY <1>3 DEF Held, Replaces
    <2> QED BY <2>1, <2>2 DEF BestOf
<1>4. CASE n \in DOMAIN keys /\ ~Replaces(rows, keys, h, n)
    <2>1. new = old \union {n} BY <1>1, <1>4
    <2>2. Held(rows, keys, h, n) = h /\ keys[n] \in DOMAIN h /\ ~Better(rows[n], h[keys[n]]) BY <1>4 DEF Held, Replaces
    <2> HIDE DEF old, new
    <2>3. DOMAIN h = {keys[i] : i \in new}
        <3>1. DOMAIN h = {keys[i] : i \in old} BY DEF BestOf, old
        <3> QED BY <2>1, <2>2, <3>1
    <2>4. ASSUME NEW k \in DOMAIN h
          PROVE  \E i \in new : /\ keys[i] = k /\ h[k] = rows[i]
                                /\ \A j \in new : keys[j] = k => ~Better(rows[j], rows[i])
        <3>1. PICK i \in old : /\ keys[i] = k /\ h[k] = rows[i]
                               /\ \A j \in old : keys[j] = k => ~Better(rows[j], rows[i])
            BY DEF BestOf, old
        <3>2. \A j \in new : keys[j] = k => ~Better(rows[j], rows[i]) BY <2>1, <2>2, <3>1
        <3> QED BY <2>1, <3>1, <3>2
    <2> QED BY <2>2, <2>3, <2>4 DEF BestOf, new
<1>5. CASE Replaces(rows, keys, h, n)
    <2> DEFINE g == Held(rows, keys, h, n)
    <2>0. n \in DOMAIN keys BY <1>5 DEF Replaces
    <2>1. new = old \union {n} BY <1>1, <2>0
    <2>2. g = [k \in DOMAIN h \union {keys[n]} |-> IF k = keys[n] THEN rows[n] ELSE h[k]] BY <1>5 DEF Held
    <2>3. \A i \in new : rows[i].qps \in Nat /\ rows[i].saturated \in BOOLEAN OBVIOUS
    <2> HIDE DEF old, new, g
    <2>4. DOMAIN g = {keys[i] : i \in new}
        <3>1. DOMAIN h = {keys[i] : i \in old} BY DEF BestOf, old
        <3> QED BY <2>1, <2>2, <3>1
    <2>5. ASSUME NEW k \in DOMAIN g, k = keys[n]
          PROVE  \A j \in new : keys[j] = k => ~Better(rows[j], rows[n])
        <3>1. n \in new /\ ~Better(rows[n], rows[n]) BY <2>1, <2>3, BetterIsOrder
        <3>2. CASE k \in DOMAIN h
            <4>1. PICK i \in old : /\ keys[i] = k /\ h[k] = rows[i]
                                   /\ \A j \in old : keys[j] = k => ~Better(rows[j], rows[i])
                BY <3>2 DEF BestOf, old
            <4>2. Better(rows[n], rows[i]) BY <1>5, <2>5, <3>2, <4>1 DEF Replaces
            <4>3. ASSUME NEW j \in old, keys[j] = k PROVE ~Better(rows[j], rows[n])
                <5>1. ~Better(rows[j], rows[i]) BY <4>1, <4>3
                <5>2. i \in new /\ j \in new BY <2>1
                <5> QED BY <2>3, <3>1, <4>2, <5>1, <5>2, BetterIsOrder
            <4> QED BY <2>1, <3>1, <4>3
        <3>3. CASE k \notin DOMAIN h
            <4>1. \A j \in old : keys[j] # k BY <3>3 DEF BestOf, old
            <4> QED BY <2>1, <3>1, <4>1
        <3> QED BY <3>2, <3>3
    <2>6. ASSUME NEW k \in DOMAIN g
          PROVE  \E i \in new : /\ keys[i] = k /\ g[k] = rows[i]
                                /\ \A j \in new : keys[j] = k => ~Better(rows[j], rows[i])
        <3>1. CASE k = keys[n]
            <4>1. g[k] = rows[n] /\ n \in new BY <2>1, <2>2, <3>1
            <4> QED BY <2>5, <3>1, <4>1
        <3>2. CASE k # keys[n]
            <4>1. k \in DOMAIN h /\ g[k] = h[k] BY <2>2, <3>2
            <4>2. PICK i \in old : /\ keys[i] = k /\ h[k] = rows[i]
                                   /\ \A j \in old : keys[j] = k => ~Better(rows[j], rows[i])
                BY <4>1 DEF BestOf, old
            <4> QED BY <2>1, <3>2, <4>1, <4>2
        <3> QED BY <3>1, <3>2
    <2> QED BY <2>4, <2>6 DEF BestOf, new, g
<1> QED BY <1>3, <1>4, <1>5 DEF Replaces

\* The loop holds the best row of every keys.
LEMMA BestIsBest ==
    ASSUME NEW rows, Len(rows) \in Nat, NEW keys, DOMAIN keys \subseteq 1..Len(rows),
           \A i \in 1..Len(rows) : rows[i].qps \in Nat /\ rows[i].saturated \in BOOLEAN
    PROVE  LET h == Best(rows, keys)
           IN  /\ DOMAIN h = {keys[i] : i \in DOMAIN keys}
               /\ \A k \in DOMAIN h :
                     \E i \in DOMAIN keys :
                        /\ keys[i] = k /\ h[k] = rows[i]
                        /\ \A j \in DOMAIN keys : keys[j] = k => ~Better(rows[j], rows[i])
<1> DEFINE N == Len(rows)
<1>1. PICK F : Holds(rows, keys, F, N) /\ Best(rows, keys) = F[N] BY BestHolds
<1> DEFINE Bad == {n \in 0..N : ~BestOf(rows, keys, F[n], n)}
<1>2. Bad = {}
    <2> SUFFICES ASSUME Bad # {} PROVE FALSE OBVIOUS
    <2>1. Bad \subseteq Nat OBVIOUS
    <2>2. PICK n \in Bad : \A m \in Bad : n <= m
        <3> HIDE DEF Bad
        <3> QED BY <2>1, Smallest
    <2>3. n \in 0..N /\ ~BestOf(rows, keys, F[n], n) /\ n \in Nat BY <2>1
    <2>4. CASE n = 0
        <3>1. F[0] = [k \in {} |-> 0] BY <1>1 DEF Holds
        <3>2. DOMAIN F[0] = {} /\ 1..0 = {} BY <3>1
        <3>3. BestOf(rows, keys, F[0], 0) BY <3>2 DEF BestOf
        <3> QED BY <2>3, <2>4, <3>3
    <2>5. CASE n # 0
        <3>1. n - 1 \in 0..N /\ ~(n <= n - 1) /\ n > 0 /\ n \in 1..N BY <2>3, <2>5
        <3>2. n - 1 \notin Bad
            <4> HIDE DEF Bad
            <4> QED BY <2>2, <3>1
        <3>3. BestOf(rows, keys, F[n - 1], n - 1) BY <3>1, <3>2
        <3>4. F[n] = Held(rows, keys, F[n - 1], n) BY <1>1, <3>1 DEF Holds
        <3>5. \A i \in 1..n : i \in 1..N BY <3>1
        <3>6. \A i \in 1..n : rows[i].qps \in Nat /\ rows[i].saturated \in BOOLEAN BY <3>5
        <3>7. BestOf(rows, keys, F[n], n) BY <2>3, <3>1, <3>3, <3>4, <3>6, HeldIsBest
        <3> QED BY <2>3, <3>7
    <2> QED BY <2>4, <2>5
<1>3. BestOf(rows, keys, Best(rows, keys), N)
    <2>1. N \in 0..N OBVIOUS
    <2> QED BY <1>1, <1>2, <2>1
<1>4. DOMAIN keys \intersect 1..N = DOMAIN keys OBVIOUS
<1> QED BY <1>3, <1>4 DEF BestOf

\* A finite set of numbers has a largest one.
LEMMA Largest ==
    ASSUME NEW T, T \subseteq Nat, T # {}, IsFiniteSet(T)
    PROVE  \E n \in T : \A m \in T : m <= n
<1> DEFINE Bad == {U \in SUBSET T : U # {} /\ ~\E n \in U : \A m \in U : m <= n}
<1> SUFFICES ASSUME Bad # {} PROVE FALSE
    <2> HIDE DEF Bad
    <2>1. T \in SUBSET T /\ T \notin Bad BY DEF Bad
    <2> QED BY <2>1 DEF Bad
<1>1. Bad \subseteq FiniteSubsetsOf(T) BY FS_Subset DEF FiniteSubsetsOf
<1>2. PICK U \in Bad : \A V \in Bad : <<V, U>> \notin StrictSubsetOrdering(T)
    <2> HIDE DEF Bad
    <2>1. IsWellFoundedOn(StrictSubsetOrdering(T), FiniteSubsetsOf(T)) BY FS_StrictSubsetOrderingWellFounded
    <2> QED BY <1>1, <2>1, WFMin
<1>3. PICK a \in U : TRUE OBVIOUS
<1> DEFINE V == U \ {a}
<1>4. V \in SUBSET T /\ V # U /\ <<V, U>> \in StrictSubsetOrdering(T) BY <1>3 DEF StrictSubsetOrdering
<1>5. V \notin Bad
    <2> HIDE DEF Bad
    <2> QED BY <1>2, <1>4
<1>6. CASE V = {}
    <2>1. \A m \in U : m = a /\ m \in Nat BY <1>6
    <2>2. \A m \in U : m <= a BY <2>1
    <2> QED BY <2>2
<1>7. CASE V # {}
    <2>1. PICK b \in V : \A m \in V : m <= b BY <1>4, <1>5, <1>7
    <2>2. a \in Nat /\ b \in Nat /\ \A m \in U : m \in Nat /\ (m = a \/ m \in V) BY <1>3, <1>4
    <2>3. CASE a <= b
        <3>1. \A m \in U : m <= b BY <2>1, <2>2, <2>3
        <3> QED BY <2>1, <3>1
    <2>4. CASE ~(a <= b)
        <3>1. \A m \in U : m <= a BY <2>1, <2>2, <2>4
        <3> QED BY <1>3, <3>1
    <2> QED BY <2>3, <2>4
<1> QED BY <1>6, <1>7

Highest(points, p) ==
    \A q \in DOMAIN points : points[p].qps > points[q].qps \/ (points[p].qps = points[q].qps /\ p <= q)

\* A curve has a peak, and past its knee no level was faster.
LEMMA PeakIsFastest ==
    ASSUME NEW points, IsFiniteSet(DOMAIN points), DOMAIN points # {}, DOMAIN points \subseteq Nat,
           \A p \in DOMAIN points : points[p].qps \in Nat
    PROVE  \A k \in Curve(points).knee :
              \A p \in DOMAIN points : points[p].qps <= points[k].qps /\ \E q \in DOMAIN points : q > k
<1> DEFINE L == DOMAIN points  Q == {points[p].qps : p \in L}
<1>1. PICK n \in Q : \A m \in Q : m <= n
    <2>1. IsFiniteSet(Q)
        <3> HIDE DEF L
        <3>1. IsFiniteSet(L) BY DEF L
        <3> DEFINE f == [q \in L |-> points[q].qps]
        <3>2. f \in Surjection(L, Q) BY DEF Surjection
        <3> HIDE DEF f, Q
        <3> QED BY <3>1, <3>2, FS_Surjection
    <2>2. Q \subseteq Nat /\ Q # {} OBVIOUS
    <2> HIDE DEF Q
    <2> QED BY <2>1, <2>2, Largest
<1>2. PICK p \in {q \in L : points[q].qps = n} : \A q \in {r \in L : points[r].qps = n} : p <= q
    <2> DEFINE S == {q \in L : points[q].qps = n}
    <2>1. S # {} /\ S \subseteq Nat OBVIOUS
    <2> HIDE DEF S
    <2>2. \E x \in S : \A y \in S : x <= y BY <2>1, Smallest
    <2> QED BY <2>2 DEF S
<1>3. Highest(points, p)
    <2> SUFFICES ASSUME NEW q \in L
                 PROVE  points[p].qps > points[q].qps \/ (points[p].qps = points[q].qps /\ p <= q)
        BY DEF Highest
    <2>1. points[p].qps = n /\ points[q].qps <= n /\ points[q].qps \in Nat /\ n \in Nat BY <1>1, <1>2
    <2>2. CASE points[q].qps = n BY <1>2, <2>1, <2>2
    <2>3. CASE points[q].qps # n BY <2>1, <2>3
    <2> QED BY <2>2, <2>3
<1> DEFINE peak == CHOOSE x \in L : Highest(points, x)
<1>4. peak \in L /\ Highest(points, peak) BY <1>2, <1>3
<1>5. Curve(points).knee = {peak} \intersect {x \in L : \E y \in L : x < y} BY DEF Curve, Highest
<1> HIDE DEF peak
<1>6. \A x \in L : points[x].qps <= points[peak].qps
    <2> TAKE x \in L
    <2>1. points[x].qps \in Nat /\ points[peak].qps \in Nat BY <1>4
    <2>2. points[peak].qps > points[x].qps \/ points[peak].qps = points[x].qps BY <1>4 DEF Highest
    <2> QED BY <2>1, <2>2
<1>7. \A x, y \in L : x < y => y > x OBVIOUS
<1> QED BY <1>4, <1>5, <1>6, <1>7

-----------------------------------------------------------------------------
\* What is in a summary is made of the rows that ended before it.
SummaryIInv ==
    /\ entries \in Seq(SummaryRows)
    /\ summary # NoSummary =>
          /\ summary.headline = PrecisionSummary(entries)
          /\ summary.curves = concurrency_curves(entries, QualityRows(entries))

\* No search has ended.
LEMMA SummaryStarts == SummaryInit => SummaryIInv
BY DEF SummaryInit, SummaryIInv

\* The rows are collected until the summary is written, and not after it.
LEMMA SummaryKeeps == ASSUME SummaryIInv, [SummaryNext]_summaryVars PROVE SummaryIInv'
<1>1. ASSUME NEW r \in SummaryRows, EndSearch(r) PROVE SummaryIInv'
    <2>1. summary = NoSummary /\ summary' = summary /\ entries' = Append(entries, r) BY <1>1 DEF EndSearch
    <2>2. entries' \in Seq(SummaryRows) BY <2>1 DEF SummaryIInv
    <2> QED BY <2>1, <2>2 DEF SummaryIInv
<1>2. CASE save_summary
    <2>1. /\ entries' = entries
          /\ summary'.headline = PrecisionSummary(entries)
          /\ summary'.curves = concurrency_curves(entries, QualityRows(entries))
        BY <1>2 DEF save_summary
    <2> QED BY <2>1 DEF SummaryIInv
<1>3. CASE UNCHANGED summaryVars BY <1>3 DEF summaryVars, SummaryIInv
<1> QED BY <1>1, <1>2, <1>3 DEF SummaryNext

\* The rows that are scored against the nearest neighbours.
Scored == {i \in DOMAIN entries : entries[i].workload \in {"vector", "hybrid"}}

\* They are what a summary has a headline of, mixed or not.
LEMMA QualityIsScored ==
    ASSUME SummaryIInv
    PROVE  IF Workloads(entries) \in {{"filter-only"}, {"fulltext"}} THEN Scored = {}
           ELSE Scored = {i \in QualityRows(entries) : entries[i].workload \notin {"fulltext", "hybrid-rrf"}}
<1>1. \A i \in DOMAIN entries : /\ entries[i].workload \in {"vector", "filter-only", "fulltext", "hybrid", "hybrid-rrf"}
                                /\ entries[i].workload \in Workloads(entries)
    <2>1. \A i \in DOMAIN entries : entries[i] \in SummaryRows BY DEF SummaryIInv
    <2> QED BY <2>1, SummaryAssumption DEF Workloads
<1>2. CASE Workloads(entries) \in {{"filter-only"}, {"fulltext"}}
    <2>1. \A i \in DOMAIN entries : entries[i].workload \in {"filter-only", "fulltext"} BY <1>1, <1>2
    <2> QED BY <1>2, <2>1 DEF Scored
<1>3. CASE Workloads(entries) \notin {{"filter-only"}, {"fulltext"}}
    <2>1. ASSUME NEW i \in DOMAIN entries
          PROVE  entries[i].workload \in {"vector", "hybrid"}
                    <=> i \in QualityRows(entries) /\ entries[i].workload \notin {"fulltext", "hybrid-rrf"}
        <3>1. CASE entries[i].workload \in {"vector", "hybrid"} BY <3>1 DEF QualityRows, has_ground_truth
        <3>2. CASE entries[i].workload \in {"fulltext", "hybrid-rrf"} BY <3>2
        <3>3. CASE entries[i].workload = "filter-only"
            <4>1. Workloads(entries) # {"filter-only"} /\ "filter-only" \in Workloads(entries) BY <1>1, <1>3, <3>3
            <4>2. PICK w \in Workloads(entries) : w # "filter-only" BY <4>1
            <4>3. Mixed(entries) BY <4>1, <4>2 DEF Mixed
            <4> QED BY <3>3, <4>3 DEF QualityRows, has_ground_truth
        <3> QED BY <1>1, <3>1, <3>2, <3>3
    <2> QED BY <1>3, <2>1 DEF Scored, QualityRows
<1> QED BY <1>2, <1>3

\* What holds of an entry.
LEMMA EntryTypes ==
    ASSUME SummaryIInv
    PROVE  /\ Len(entries) \in Nat /\ DOMAIN entries = 1..Len(entries)
           /\ \A i \in 1..Len(entries) :
                 entries[i].qps \in Nat /\ entries[i].saturated \in BOOLEAN /\ entries[i].parallel \in Nat
<1>1. Len(entries) \in Nat /\ DOMAIN entries = 1..Len(entries) BY DEF SummaryIInv
<1>2. \A i \in DOMAIN entries : entries[i] \in SummaryRows BY DEF SummaryIInv
<1> QED BY <1>1, <1>2, SummaryAssumption

\* The headline is the best row of every bucket that has a scored row.
LEMMA HeadlineIsBest ==
    ASSUME SummaryIInv, summary # NoSummary
    PROVE  LET h == summary.headline
               bucket(i) == format_precision_key(entries[i].precision)
           IN  /\ DOMAIN h = {bucket(i) : i \in Scored}
               /\ \A b \in DOMAIN h :
                     \E i \in Scored : /\ bucket(i) = b /\ h[b] = entries[i]
                                       /\ \A j \in Scored : bucket(j) = b => ~Better(entries[j], entries[i])
<1> DEFINE h == summary.headline
           at == {i \in QualityRows(entries) : entries[i].workload \notin {"fulltext", "hybrid-rrf"}}
           bucket(i) == format_precision_key(entries[i].precision)
           of == [i \in at |-> bucket(i)]
<1>1. h = PrecisionSummary(entries) BY DEF SummaryIInv
<1>2. CASE Workloads(entries) \in {{"filter-only"}, {"fulltext"}}
    <2>1. h = [k \in {} |-> 0] BY <1>1, <1>2 DEF PrecisionSummary
    <2>2. DOMAIN h = {} BY <2>1
    <2>3. Scored = {} BY <1>2, QualityIsScored
    <2> HIDE DEF h
    <2> QED BY <2>2, <2>3 DEF h
<1>3. CASE Workloads(entries) \notin {{"filter-only"}, {"fulltext"}}
    <2>1. h = Best(entries, of) BY <1>1, <1>3 DEF PrecisionSummary, analyze_precision_performance
    <2>2. DOMAIN of = at /\ at \subseteq 1..Len(entries) /\ \A i \in at : of[i] = bucket(i)
        BY EntryTypes DEF QualityRows
    <2>3. Scored = at BY <1>3, QualityIsScored
    <2> HIDE DEF of, at
    <2>4. LET g == Best(entries, of)
          IN  /\ DOMAIN g = {of[i] : i \in DOMAIN of}
              /\ \A k \in DOMAIN g :
                    \E i \in DOMAIN of :
                       /\ of[i] = k /\ g[k] = entries[i]
                       /\ \A j \in DOMAIN of : of[j] = k => ~Better(entries[j], entries[i])
        BY <2>2, EntryTypes, BestIsBest
    <2> HIDE DEF h, bucket
    <2>5. DOMAIN h = {bucket(i) : i \in Scored}
        <3>1. DOMAIN h = {of[i] : i \in DOMAIN of} BY <2>1, <2>4
        <3>2. \A i \in DOMAIN of : of[i] = bucket(i) BY <2>2
        <3>3. {of[i] : i \in DOMAIN of} = {bucket(i) : i \in Scored} BY <2>2, <2>3, <3>2
        <3> QED BY <3>1, <3>3
    <2>6. ASSUME NEW b \in DOMAIN h
          PROVE  \E i \in Scored : /\ bucket(i) = b /\ h[b] = entries[i]
                                   /\ \A j \in Scored : bucket(j) = b => ~Better(entries[j], entries[i])
        <3>1. PICK i \in DOMAIN of :
                 /\ of[i] = b /\ h[b] = entries[i]
                 /\ \A j \in DOMAIN of : of[j] = b => ~Better(entries[j], entries[i])
            BY <2>1, <2>4
        <3> QED BY <2>2, <2>3, <3>1
    <2> QED BY <2>5, <2>6 DEF h, bucket
<1> QED BY <1>2, <1>3

\* Past the knee of a curve nothing was faster.
LEMMA KneesAreEarned ==
    ASSUME SummaryIInv, summary # NoSummary, NEW c \in summary.curves, NEW k \in c.curve.knee,
           NEW p \in DOMAIN c.curve.points
    PROVE  c.curve.points[p].qps <= c.curve.points[k].qps /\ \E q \in DOMAIN c.curve.points : q > k
<1> DEFINE at(ef) == {j \in QualityRows(entries) :
                        entries[j].ef = ef /\ entries[j].workload \notin {"filter-only", "fulltext"}}
           level(ef) == [i \in at(ef) |-> entries[i].parallel]
<1>1. PICK ef : c = [ef |-> ef, curve |-> Curve(Best(entries, level(ef)))]
    <2>1. summary.curves = concurrency_curves(entries, QualityRows(entries)) BY DEF SummaryIInv
    <2> QED BY <2>1 DEF concurrency_curves
<1> DEFINE of == level(ef)  best == Best(entries, of)
<1>2. DOMAIN of \subseteq 1..Len(entries) /\ \A i \in DOMAIN of : of[i] = entries[i].parallel
    BY EntryTypes DEF QualityRows
<1>3. c.curve = Curve(best) /\ c.curve.points = best
    <2> HIDE DEF best
    <2>1. c.curve = Curve(best) BY <1>1 DEF best
    <2> QED BY <2>1 DEF Curve
<1> HIDE DEF of
<1>4. /\ DOMAIN best = {of[i] : i \in DOMAIN of}
      /\ \A b \in DOMAIN best : \E i \in DOMAIN of : of[i] = b /\ best[b] = entries[i]
    <2>1. LET g == Best(entries, of)
          IN  /\ DOMAIN g = {of[i] : i \in DOMAIN of}
              /\ \A b \in DOMAIN g :
                    \E i \in DOMAIN of :
                       /\ of[i] = b /\ g[b] = entries[i]
                       /\ \A j \in DOMAIN of : of[j] = b => ~Better(entries[j], entries[i])
        BY <1>2, EntryTypes, BestIsBest
    <2> QED BY <2>1
<1> HIDE DEF best
<1>5. DOMAIN best \subseteq Nat /\ \A b \in DOMAIN best : best[b].qps \in Nat
    BY <1>2, <1>4, EntryTypes
<1>6. IsFiniteSet(DOMAIN best)
    <2>1. IsFiniteSet(DOMAIN of)
        <3>1. 1 \in Int /\ Len(entries) \in Int BY EntryTypes
        <3>2. IsFiniteSet(1..Len(entries)) BY <3>1, FS_Interval
        <3>3. DOMAIN of \in SUBSET (1..Len(entries)) BY <1>2
        <3> QED BY <3>2, <3>3, FS_Subset
    <2> DEFINE D == DOMAIN of  E == DOMAIN best  f == [i \in D |-> of[i]]
    <2>2. f \in Surjection(D, E) BY <1>4 DEF Surjection
    <2> HIDE DEF D, E, f
    <2>3. IsFiniteSet(E) BY <2>1, <2>2, FS_Surjection DEF D
    <2> QED BY <2>3 DEF E
<1>7. p \in DOMAIN best /\ k \in Curve(best).knee BY <1>3
<1>8. best[p].qps <= best[k].qps /\ \E q \in DOMAIN best : q > k
    BY <1>5, <1>6, <1>7, PeakIsFastest
<1> QED BY <1>3, <1>8

\* A summary of the rows it collected says what they show.
LEMMA EarnedHeadline == SummaryIInv => HeadlineIsEarned
<1> SUFFICES ASSUME SummaryIInv, summary # NoSummary PROVE HeadlineIsEarned BY DEF HeadlineIsEarned
<1> DEFINE scored == {r \in Rows : r.workload \in {"vector", "hybrid"}}
           h == summary.headline
           bucket(i) == format_precision_key(entries[i].precision)
<1>1. scored = {entries[i] : i \in Scored} BY DEF Rows, Scored
<1>2. /\ DOMAIN h = {bucket(i) : i \in Scored}
      /\ \A b \in DOMAIN h :
            \E i \in Scored : /\ bucket(i) = b /\ h[b] = entries[i]
                              /\ \A j \in Scored : bucket(j) = b => ~Better(entries[j], entries[i])
    BY HeadlineIsBest
<1>3. Scored \subseteq 1..Len(entries) BY EntryTypes DEF Scored
<1> HIDE DEF h, scored
<1>4. DOMAIN h = {format_precision_key(r.precision) : r \in scored} BY <1>1, <1>2
<1>5. ASSUME NEW b \in DOMAIN h
      PROVE  LET in == {r \in scored : format_precision_key(r.precision) = b}
             IN  /\ h[b] \in in
                 /\ \A r \in in : /\ h[b].saturated => r.saturated
                                  /\ h[b].saturated = r.saturated => r.qps <= h[b].qps
    <2>1. PICK i \in Scored : /\ bucket(i) = b /\ h[b] = entries[i]
                              /\ \A j \in Scored : bucket(j) = b => ~Better(entries[j], entries[i])
        BY <1>2
    <2>2. entries[i] \in scored /\ format_precision_key(entries[i].precision) = b BY <1>1, <2>1
    <2>3. ASSUME NEW r \in scored, format_precision_key(r.precision) = b
          PROVE  /\ h[b].saturated => r.saturated
                 /\ h[b].saturated = r.saturated => r.qps <= h[b].qps
        <3>1. PICK j \in Scored : r = entries[j] BY <1>1
        <3>2. ~Better(r, h[b]) BY <2>1, <2>3, <3>1
        <3>3. /\ r.qps \in Nat /\ r.saturated \in BOOLEAN
              /\ h[b].qps \in Nat /\ h[b].saturated \in BOOLEAN
            BY <1>3, <2>1, <3>1, EntryTypes
        <3> QED BY <3>2, <3>3, BetterIsOrder
    <2> QED BY <2>1, <2>2, <2>3
<1>6. \A c \in summary.curves : \A k \in c.curve.knee : \A p \in DOMAIN c.curve.points :
          c.curve.points[p].qps <= c.curve.points[k].qps /\ \E q \in DOMAIN c.curve.points : q > k
    BY KneesAreEarned
<1> QED BY <1>4, <1>5, <1>6 DEF HeadlineIsEarned, h, scored

-----------------------------------------------------------------------------
\* The comparison.

NoneTwice(s) == \A i, j \in DOMAIN s : s[i] = s[j] => i = j
List(s) == Len(s) \in Nat /\ DOMAIN s = 1..Len(s)

\* The filter that inserts what it has not seen.
LEMMA DistinctStep ==
    ASSUME NEW s, s \in Seq(Elements(s)), NoneTwice(s), NEW x
    PROVE  LET t == IF x \in Elements(s) THEN s ELSE Append(s, x) IN t \in Seq(Elements(t)) /\ NoneTwice(t)
<1>1. CASE x \in Elements(s) BY <1>1
<1>2. CASE x \notin Elements(s)
    <2> DEFINE t == Append(s, x)  n == Len(s)
    <2>1. n \in Nat /\ DOMAIN s = 1..n BY DEF Elements
    <2>2. s \in Seq(Elements(s) \union {x})
        <3>1. \A i \in 1..n : s[i] \in Elements(s) \union {x} BY <2>1 DEF Elements
        <3>2. s = [i \in 1..n |-> s[i]] BY <2>1
        <3> QED BY <2>1, <3>1, <3>2
    <2> DEFINE E == Elements(s) \union {x}
    <2>3. /\ Len(t) = n + 1 /\ DOMAIN t = 1..(n + 1)
          /\ \A i \in 1..n : t[i] = s[i]
          /\ t[n + 1] = x
          /\ t = [i \in 1..(n + 1) |-> t[i]]
        <3>1. x \in E /\ s \in Seq(E) BY <2>2
        <3> HIDE DEF E
        <3>2. t \in Seq(E) /\ Len(t) = n + 1 BY <3>1
        <3>3. DOMAIN t = 1..(n + 1) /\ t = [i \in 1..(n + 1) |-> t[i]]
            <4> HIDE DEF t, n
            <4> QED BY <3>2
        <3>4. t[n + 1] = x BY <3>1
        <3>5. \A i \in 1..n : t[i] = s[i] BY <3>1
        <3> QED BY <3>2, <3>3, <3>4, <3>5
    <2> HIDE DEF t
    <2>4. t \in Seq(Elements(t))
        <3>1. \A i \in 1..(n + 1) : t[i] \in Elements(t) BY <2>3 DEF Elements
        <3>2. n + 1 \in Nat BY <2>1
        <3> HIDE DEF n
        <3> QED BY <2>3, <3>1, <3>2
    <2>5. ASSUME NEW i \in DOMAIN t, NEW j \in DOMAIN t, t[i] = t[j] PROVE i = j
        <3>1. \A k \in 1..n : s[k] # x BY <1>2, <2>1 DEF Elements
        <3>2. i \in 1..(n + 1) /\ j \in 1..(n + 1) BY <2>3
        <3>3. CASE i = n + 1 /\ j # n + 1
            <4>1. j \in 1..n BY <2>1, <3>2, <3>3
            <4> QED BY <2>3, <2>5, <3>1, <3>3, <4>1
        <3>4. CASE i # n + 1 /\ j = n + 1
            <4>1. i \in 1..n BY <2>1, <3>2, <3>4
            <4> QED BY <2>3, <2>5, <3>1, <3>4, <4>1
        <3>5. CASE i # n + 1 /\ j # n + 1
            <4>1. i \in 1..n /\ j \in 1..n BY <2>1, <3>2, <3>5
            <4>2. s[i] = s[j] BY <2>3, <2>5, <4>1
            <4> QED BY <2>1, <4>1, <4>2 DEF NoneTwice
        <3> QED BY <3>3, <3>4, <3>5
    <2> QED BY <1>2, <2>4, <2>5 DEF t, NoneTwice
<1> QED BY <1>1, <1>2

\* The first k distinct ids are a list that names none twice.
LEMMA TopIsDistinct ==
    ASSUME NEW ids, Len(ids) \in Nat, NEW k \in Nat
    PROVE  top_k(ids, k) \in Seq(Elements(top_k(ids, k))) /\ NoneTwice(top_k(ids, k))
<1> DEFINE N == Len(ids)
           After(s, n) == IF ids[n] \in Elements(s) THEN s ELSE Append(s, ids[n])
           Turn(f, n) == IF n = 0 THEN <<>> ELSE After(f[n - 1], n)
           Table(n) == \E f : f = [m \in 0..n |-> Turn(f, m)]
           d == CHOOSE f : f = [m \in 0..N |-> Turn(f, m)]
<1>1. top_k(ids, k) = Upto(d[N], k) BY DEF top_k
<1>2. \A n \in 0..N : Table(n)
    <2> DEFINE Bad == {n \in 0..N : ~Table(n)}
    <2> SUFFICES ASSUME Bad # {} PROVE FALSE OBVIOUS
    <2>1. Bad \subseteq Nat OBVIOUS
    <2>2. PICK n \in Bad : \A m \in Bad : n <= m
        <3> HIDE DEF Bad
        <3> QED BY <2>1, Smallest
    <2>3. n \in 0..N /\ ~Table(n) /\ n \in Nat BY <2>1
    <2>4. CASE n = 0
        <3> DEFINE g == [m \in {0} |-> <<>>]
        <3>1. 0..n = {0} BY <2>4
        <3>2. g = [m \in 0..n |-> Turn(g, m)]
            <4> HIDE DEF After
            <4> QED BY <3>1
        <3> QED BY <2>3, <3>2
    <2>5. CASE n # 0
        <3>1. n - 1 \in 0..N /\ n - 1 \in Nat /\ ~(n <= n - 1) BY <2>3, <2>5
        <3>2. Table(n - 1)
            <4> HIDE DEF Table
            <4>1. n - 1 \notin Bad
                <5> HIDE DEF Bad
                <5> QED BY <2>2, <3>1
            <4> QED BY <4>1, <3>1
        <3>3. PICK f : f = [m \in 0..(n - 1) |-> Turn(f, m)] BY <3>2
        <3> DEFINE g == [m \in 0..n |-> IF m = n THEN Turn(f, n) ELSE f[m]]
        <3> HIDE DEF Turn
        <3>4. ASSUME NEW m \in 0..n PROVE g[m] = Turn(g, m)
            <4>1. CASE m = 0
                <5>1. g[m] = f[m] /\ m \in 0..(n - 1) BY <4>1, <2>3, <2>5
                <5>2. f[m] = Turn(f, m) BY <5>1, <3>3
                <5>3. Turn(f, m) = Turn(g, m) BY <4>1 DEF Turn
                <5> QED BY <5>1, <5>2, <5>3
            <4>2. CASE m # 0
                <5>1. m - 1 \in 0..(n - 1) /\ m - 1 \in 0..n /\ m - 1 # n BY <4>2, <2>3
                <5>2. g[m - 1] = f[m - 1] BY <5>1
                <5>3. Turn(g, m) = Turn(f, m)
                    <6> HIDE DEF g, After
                    <6> QED BY <5>2, <4>2 DEF Turn
                <5>4. g[m] = Turn(f, m)
                    <6>1. CASE m = n BY <6>1
                    <6>2. CASE m # n
                        <7>1. m \in 0..(n - 1) BY <6>2, <2>3
                        <7>2. f[m] = Turn(f, m) BY <7>1, <3>3
                        <7> QED BY <7>2, <6>2
                    <6> QED BY <6>1, <6>2
                <5> QED BY <5>3, <5>4
            <4> QED BY <4>1, <4>2
        <3>5. g = [m \in 0..n |-> Turn(g, m)]
            <4>1. g = [m \in 0..n |-> g[m]] OBVIOUS
            <4> HIDE DEF g
            <4> QED BY <3>4, <4>1
        <3> QED BY <2>3, <3>5
    <2> QED BY <2>4, <2>5
<1>3. d = [m \in 0..N |-> Turn(d, m)]
    <2>1. N \in 0..N OBVIOUS
    <2>2. Table(N) BY <1>2, <2>1
    <2> HIDE DEF Turn, N
    <2> QED BY <2>2
<1> HIDE DEF d, After
<1>4. d[0] = <<>> /\ \A m \in 1..N : d[m] = After(d[m - 1], m)
    <2>1. 0 \in 0..N /\ \A m \in 1..N : m \in 0..N /\ m # 0 OBVIOUS
    <2>2. \A m \in 0..N : d[m] = Turn(d, m)
        <3> HIDE DEF Turn
        <3> QED BY <1>3
    <2> HIDE DEF N
    <2> QED BY <2>1, <2>2
<1> DEFINE Good(s) == s \in Seq(Elements(s)) /\ NoneTwice(s)
           Bad == {n \in 0..N : ~Good(d[n])}
<1>5. Bad = {}
    <2> SUFFICES ASSUME Bad # {} PROVE FALSE OBVIOUS
    <2>1. Bad \subseteq Nat OBVIOUS
    <2>2. PICK n \in Bad : \A m \in Bad : n <= m
        <3> HIDE DEF Bad
        <3> QED BY <2>1, Smallest
    <2>3. n \in 0..N /\ ~Good(d[n]) /\ n \in Nat BY <2>1
    <2>4. CASE n = 0
        <3>1. Good(<<>>) BY DEF NoneTwice, Elements
        <3> QED BY <1>4, <2>3, <2>4, <3>1
    <2>5. CASE n # 0
        <3>1. n - 1 \in 0..N /\ ~(n <= n - 1) /\ n \in 1..N BY <2>3, <2>5
        <3> HIDE DEF Good
        <3>2. n - 1 \notin Bad
            <4> HIDE DEF Bad
            <4> QED BY <2>2, <3>1
        <3>3. Good(d[n - 1]) BY <3>1, <3>2
        <3>4. d[n] = After(d[n - 1], n) BY <1>4, <3>1
        <3>5. Good(After(d[n - 1], n)) BY <3>3, DistinctStep DEF Good, After
        <3> QED BY <2>3, <3>4, <3>5
    <2> QED BY <2>4, <2>5
<1>6. Good(d[N])
    <2>1. N \in 0..N OBVIOUS
    <2> HIDE DEF Good
    <2> QED BY <1>5, <2>1
<1>7. ASSUME NEW s, Good(s) PROVE Good(Upto(s, k))
    <2> DEFINE m == IF k < Len(s) THEN k ELSE Len(s)  t == Upto(s, k)
    <2>1. Len(s) \in Nat /\ DOMAIN s = 1..Len(s) BY <1>7
    <2>2. m \in Nat /\ m <= Len(s) BY <2>1
    <2>3. t = [i \in 1..m |-> s[i]]
        <3>1. t = SubSeq(s, 1, m) BY DEF Upto
        <3> HIDE DEF m, t
        <3> QED BY <1>7, <2>1, <2>2, <3>1
    <2>4. DOMAIN t = 1..m /\ \A i \in 1..m : t[i] = s[i] /\ i \in DOMAIN s
        <3> HIDE DEF m, t
        <3> QED BY <2>1, <2>2, <2>3
    <2> HIDE DEF m, t
    <2>5. NoneTwice(t) BY <1>7, <2>4 DEF NoneTwice
    <2>6. t \in Seq(Elements(t))
        <3>1. \A i \in 1..m : t[i] \in Elements(t) BY <2>4 DEF Elements
        <3>2. t = [i \in 1..m |-> t[i]] BY <2>3, <2>4
        <3> QED BY <2>2, <3>1, <3>2
    <2> QED BY <2>5, <2>6 DEF t
<1> HIDE DEF Good
<1>8. Good(top_k(ids, k)) BY <1>1, <1>6, <1>7
<1> QED BY <1>8 DEF Good

\* Two lists of the same ids, with every pair in the same order, are one list.
LEMMA SameOrderIsSame ==
    ASSUME NEW R, NEW C, R \in Seq(Elements(R)), C \in Seq(Elements(C)), NoneTwice(R), NoneTwice(C),
           Elements(R) = Elements(C),
           \A i, j \in DOMAIN R : i < j => IndexIn(C, R[i]) < IndexIn(C, R[j])
    PROVE  R = C
<1> DEFINE m == Len(R)  n == Len(C)  g == [i \in 1..m |-> IndexIn(C, R[i])]
<1>1. m \in Nat /\ DOMAIN R = 1..m /\ n \in Nat /\ DOMAIN C = 1..n OBVIOUS
<1> HIDE DEF m, n
<1>2. ASSUME NEW i \in 1..m PROVE g[i] \in 1..n /\ C[g[i]] = R[i]
    <2>1. R[i] \in Elements(C) BY <1>1 DEF Elements
    <2>2. \E j \in DOMAIN C : C[j] = R[i] BY <2>1 DEF Elements
    <2>3. IndexIn(C, R[i]) \in DOMAIN C /\ C[IndexIn(C, R[i])] = R[i] BY <2>2 DEF IndexIn
    <2> QED BY <1>1, <2>3
<1>3. ASSUME NEW j \in 1..n PROVE \E i \in 1..m : g[i] = j
    <2>1. C[j] \in Elements(R) BY <1>1 DEF Elements
    <2>2. PICK i \in 1..m : R[i] = C[j] BY <1>1, <2>1 DEF Elements
    <2>3. g[i] \in DOMAIN C /\ j \in DOMAIN C /\ C[g[i]] = C[j] BY <1>1, <1>2, <2>2
    <2>4. g[i] = j
        <3> HIDE DEF g
        <3> QED BY <2>3 DEF NoneTwice
    <2> QED BY <2>4
<1>4. \A i, j \in 1..m : i < j => g[i] < g[j] BY <1>1
<1> HIDE DEF g
<1> DEFINE Bad == {i \in 1..m : g[i] # i}
<1>5. Bad = {}
    <2> SUFFICES ASSUME Bad # {} PROVE FALSE OBVIOUS
    <2>1. Bad \subseteq Nat BY <1>1
    <2>2. PICK i \in Bad : \A j \in Bad : i <= j
        <3> HIDE DEF Bad
        <3> QED BY <2>1, Smallest
    <2>3. i \in 1..m /\ g[i] # i /\ i \in Nat /\ i >= 1 BY <1>1
    <2>4. ASSUME NEW j \in 1..m, j < i PROVE g[j] = j
        <3>1. j \notin Bad
            <4>1. j \in Nat /\ ~(i <= j) BY <1>1, <2>3, <2>4
            <4> HIDE DEF Bad
            <4> QED BY <2>2, <4>1
        <3> QED BY <3>1
    <2>5. g[i] \in 1..n /\ g[i] \in Nat BY <1>1, <1>2, <2>3
    <2>6. g[i] > i
        <3>1. CASE i = 1 BY <1>1, <2>3, <2>5, <3>1
        <3>2. CASE i # 1
            <4>1. i - 1 \in 1..m /\ i - 1 < i BY <1>1, <2>3, <3>2
            <4>2. g[i - 1] = i - 1 /\ g[i - 1] < g[i] BY <1>4, <2>3, <2>4, <4>1
            <4> QED BY <2>3, <2>5, <4>2
        <3> QED BY <3>1, <3>2
    <2>7. i \in 1..n BY <1>1, <2>3, <2>5, <2>6
    <2>8. PICK l \in 1..m : g[l] = i BY <1>3, <2>7
    <2>9. l \in Nat BY <1>1
    <2>10. CASE l < i BY <2>3, <2>4, <2>8, <2>9, <2>10
    <2>11. CASE l = i BY <2>3, <2>8, <2>11
    <2>12. CASE i < l
        <3>1. g[i] < g[l] BY <1>4, <2>3, <2>12
        <3> QED BY <2>3, <2>5, <2>6, <2>8, <3>1
    <2> QED BY <2>3, <2>9, <2>10, <2>11, <2>12
<1>6. \A i \in 1..m : g[i] = i /\ i \in 1..n /\ C[i] = R[i] BY <1>2, <1>5
<1>7. \A j \in 1..n : j \in 1..m
    <2> TAKE j \in 1..n
    <2>1. PICK i \in 1..m : g[i] = j BY <1>3
    <2> QED BY <1>6, <2>1
<1>8. m = n
    <2>1. m <= n
        <3>1. CASE m = 0 BY <1>1, <3>1
        <3>2. CASE m # 0
            <4>1. m \in 1..m BY <1>1, <3>2
            <4>2. m \in 1..n BY <1>6, <4>1
            <4> QED BY <1>1, <4>2
        <3> QED BY <3>1, <3>2
    <2>2. n <= m
        <3>1. CASE n = 0 BY <1>1, <3>1
        <3>2. CASE n # 0
            <4>1. n \in 1..n BY <1>1, <3>2
            <4>2. n \in 1..m BY <1>7, <4>1
            <4> QED BY <1>1, <4>2
        <3> QED BY <3>1, <3>2
    <2> QED BY <1>1, <2>1, <2>2
<1>9. R = [i \in 1..m |-> R[i]] /\ C = [i \in 1..m |-> C[i]] BY <1>1, <1>8
<1> QED BY <1>6, <1>9

\* Parts of a finite set that count as many are the same.
LEMMA CountsTell ==
    ASSUME NEW A, NEW B, IsFiniteSet(B), A \subseteq B, Cardinality(A) = Cardinality(B)
    PROVE  A = B
<1>1. A \in SUBSET B OBVIOUS
<1> QED BY <1>1, FS_Subset

\* A list has finitely many ids.
LEMMA FewElements == ASSUME NEW s, s \in Seq(Elements(s)) PROVE IsFiniteSet(Elements(s)) /\ IsFiniteSet(DOMAIN s)
<1> DEFINE n == Len(s)  D == 1..n  E == Elements(s)
<1>1. n \in Nat /\ DOMAIN s = D OBVIOUS
<1>2. IsFiniteSet(D)
    <2> HIDE DEF n
    <2>1. 1 \in Int /\ n \in Int BY <1>1
    <2> QED BY <2>1, FS_Interval
<1> DEFINE f == [i \in D |-> s[i]]
<1>3. f \in Surjection(D, E) BY <1>1 DEF Surjection, Elements
<1> HIDE DEF D, E, f
<1>4. IsFiniteSet(E) BY <1>2, <1>3, FS_Surjection
<1> QED BY <1>1, <1>2, <1>4 DEF E

\* A jaccard and a rank correlation of 1 leave one list.
LEMMA PerfectIsSame ==
    ASSUME NEW r, NEW c, Len(r) \in Nat, Len(c) \in Nat, NEW k \in Nat,
           Perfect(jaccard_at_k(r, c, k)), Perfect(rank_correlation(r, c, k))
    PROVE  top_k(r, k) = top_k(c, k)
<1> DEFINE R == top_k(r, k)  C == top_k(c, k)
<1>1. R \in Seq(Elements(R)) /\ NoneTwice(R) /\ C \in Seq(Elements(C)) /\ NoneTwice(C) BY TopIsDistinct
<1>2. IF Elements(R) \union Elements(C) = {} THEN TRUE
      ELSE Cardinality(Elements(R) \intersect Elements(C)) = Cardinality(Elements(R) \union Elements(C))
    BY DEF Perfect, jaccard_at_k
<1> DEFINE shared == {i \in DOMAIN R : R[i] \in Elements(C)}
           pairs == {p \in shared \X shared : p[1] < p[2]}
           same == {p \in pairs : IndexIn(C, R[p[1]]) < IndexIn(C, R[p[2]])}
<1>3. Cardinality(same) = Cardinality(pairs) BY DEF Perfect, rank_correlation
<1> HIDE DEF R, C
<1>4. IsFiniteSet(Elements(R)) /\ IsFiniteSet(Elements(C)) /\ IsFiniteSet(DOMAIN R) BY <1>1, FewElements
<1>5. Elements(R) = Elements(C)
    <2> DEFINE I == Elements(R) \intersect Elements(C)  U == Elements(R) \union Elements(C)
    <2>1. CASE U = {} BY <2>1
    <2>2. CASE U # {}
        <3>1. IsFiniteSet(U) BY <1>4, FS_Union
        <3>2. I \subseteq U /\ Cardinality(I) = Cardinality(U) BY <1>2, <2>2
        <3>3. I = U
            <4> HIDE DEF I, U
            <4> QED BY <3>1, <3>2, CountsTell
        <3> QED BY <3>3
    <2> QED BY <2>1, <2>2
<1>6. shared = DOMAIN R BY <1>5 DEF Elements
<1>7. same = pairs
    <2>1. IsFiniteSet(shared \X shared)
        <3> HIDE DEF shared
        <3> QED BY <1>4, <1>6, FS_Product
    <2>2. pairs \in SUBSET (shared \X shared) OBVIOUS
    <2>3. IsFiniteSet(pairs)
        <3> HIDE DEF shared, pairs
        <3> QED BY <2>1, <2>2, FS_Subset
    <2>4. same \subseteq pairs OBVIOUS
    <2> HIDE DEF same, pairs
    <2> QED BY <1>3, <2>3, <2>4, CountsTell
<1>8. ASSUME NEW i \in DOMAIN R, NEW j \in DOMAIN R, i < j PROVE IndexIn(C, R[i]) < IndexIn(C, R[j])
    <2>1. <<i, j>> \in pairs
        <3> HIDE DEF shared
        <3> QED BY <1>6, <1>8
    <2>2. <<i, j>> \in same BY <1>7, <2>1
    <2> QED BY <2>2
<1>9. R = C BY <1>1, <1>5, <1>8, SameOrderIsSame
<1> QED BY <1>9 DEF R, C

-----------------------------------------------------------------------------
\* A file is some lines of a point; a report says what the files were that were read.
Files == [point : Points, lines : Nat, cut : BOOLEAN]

CompareIInv ==
    /\ queue \in [Sides -> Seq(Points)]
    /\ dir \in [Sides -> Seq(Files)]
    /\ report # NoReport =>
          \E engine \in {"ref", "cand"}, allow \in BOOLEAN, done \in SUBSET Sides :
             report = [result |-> compare(Dumps(1), Dumps(2), engine, allow), strict |-> ~allow, done |-> done]

\* Nothing is dumped, and nothing was compared.
LEMMA CompareStarts == CompareInit => CompareIInv
BY CompareAssumption DEF CompareInit, CompareIInv, Sides

\* A dump grows by a file or a line; after the report it is of no consequence.
LEMMA CompareKeeps == ASSUME CompareIInv, [CompareNext]_compareVars PROVE CompareIInv'
<1>1. ASSUME NEW s \in Sides, CreateDump(s), report = NoReport PROVE CompareIInv'
    <2>1. report' = NoReport BY <1>1 DEF CreateDump
    <2>2. CASE UNCHANGED <<dir, queue>> BY <2>1, <2>2 DEF CompareIInv
    <2>3. CASE ~UNCHANGED <<dir, queue>>
        <3> DEFINE f == [point |-> Head(queue[s]), lines |-> 0, cut |-> FALSE]
        <3>1. /\ queue[s] # <<>>
              /\ dir' = [dir EXCEPT ![s] = Append(@, f)]
              /\ queue' = [queue EXCEPT ![s] = Tail(@)]
            BY <1>1, <2>3 DEF CreateDump
        <3>2. queue[s] \in Seq(Points) /\ dir[s] \in Seq(Files) BY DEF CompareIInv
        <3>3. Head(queue[s]) \in Points /\ Tail(queue[s]) \in Seq(Points) BY <3>1, <3>2
        <3>4. f \in Files BY <3>3 DEF Files
        <3> HIDE DEF f
        <3>5. Append(dir[s], f) \in Seq(Files) BY <3>2, <3>4
        <3>6. dir' \in [Sides -> Seq(Files)] /\ queue' \in [Sides -> Seq(Points)] BY <3>1, <3>3, <3>5 DEF CompareIInv
        <3> QED BY <2>1, <3>6 DEF CompareIInv
    <2> QED BY <2>2, <2>3
<1>2. ASSUME NEW s \in Sides, NEW f, f \in Files, Open(s), report' = NoReport, queue' = queue,
             dir' = [dir EXCEPT ![s][Len(dir[s])] = f]
      PROVE  CompareIInv'
    <2>1. dir[s] \in Seq(Files) /\ dir[s] # <<>> BY <1>2 DEF CompareIInv, Open
    <2>2. [dir[s] EXCEPT ![Len(dir[s])] = f] \in Seq(Files) BY <1>2, <2>1
    <2>3. dir' \in [Sides -> Seq(Files)] BY <1>2, <2>2 DEF CompareIInv
    <2> QED BY <1>2, <2>3 DEF CompareIInv
<1>3. ASSUME NEW s \in Sides, Open(s) PROVE dir[s][Len(dir[s])] \in Files
    <2>1. dir[s] \in Seq(Files) /\ dir[s] # <<>> BY <1>3 DEF CompareIInv, Open
    <2> QED BY <2>1
<1>4. ASSUME NEW s \in Sides, WriteLine(s), report = NoReport PROVE CompareIInv'
    <2> DEFINE o == dir[s][Len(dir[s])]  f == [point |-> o.point, lines |-> o.lines + 1, cut |-> o.cut]
    <2>1. Open(s) /\ report' = NoReport /\ queue' = queue /\ dir' = [dir EXCEPT ![s][Len(dir[s])].lines = @ + 1]
        BY <1>4 DEF WriteLine
    <2>2. o \in Files BY <1>3, <2>1
    <2>3. [o EXCEPT !.lines = @ + 1] = f /\ f \in Files BY <2>2 DEF Files
    <2>4. dir' = [dir EXCEPT ![s][Len(dir[s])] = [o EXCEPT !.lines = @ + 1]] BY <2>1
    <2> HIDE DEF f, o
    <2> QED BY <1>2, <2>1, <2>3, <2>4
<1>5. ASSUME NEW s \in Sides, FinishDumps(s), report = NoReport PROVE CompareIInv'
    BY <1>5 DEF FinishDumps, CompareIInv
<1>6. ASSUME NEW s \in Sides, StopWriting(s), report = NoReport PROVE CompareIInv'
    <2>1. report' = NoReport /\ queue' = queue BY <1>6 DEF StopWriting
    <2>2. CASE UNCHANGED dir BY <2>1, <2>2 DEF CompareIInv
    <2>3. CASE ~UNCHANGED dir
        <3> DEFINE o == dir[s][Len(dir[s])]  f == [point |-> o.point, lines |-> o.lines, cut |-> TRUE]
        <3>1. Open(s) /\ dir' = [dir EXCEPT ![s][Len(dir[s])].cut = TRUE] BY <1>6, <2>3 DEF StopWriting
        <3>2. o \in Files BY <1>3, <3>1
        <3>3. [o EXCEPT !.cut = TRUE] = f /\ f \in Files
            <4>1. o.point \in Points /\ o.lines \in Nat /\ o = [point |-> o.point, lines |-> o.lines, cut |-> o.cut]
                BY <3>2 DEF Files
            <4>2. f \in Files BY <4>1 DEF Files
            <4>3. \A v : [o EXCEPT !.cut = v] = [point |-> o.point, lines |-> o.lines, cut |-> v]
                <5> HIDE DEF o
                <5> QED BY <4>1
            <4>4. [o EXCEPT !.cut = TRUE] = f BY <4>3, Zenon
            <4> QED BY <4>2, <4>4
        <3>4. dir' = [dir EXCEPT ![s][Len(dir[s])] = [o EXCEPT !.cut = TRUE]] BY <3>1
        <3> HIDE DEF f, o
        <3> QED BY <1>2, <2>1, <3>1, <3>3, <3>4
    <2> QED BY <2>2, <2>3
<1>7. ASSUME NEW engine \in {"ref", "cand"}, NEW allow \in BOOLEAN, CompareNow(engine, allow) PROVE CompareIInv'
    <2> DEFINE done == {s \in Sides : writer[s] = "done"}
    <2>1. /\ report' = [result |-> compare(Dumps(1), Dumps(2), engine, allow), strict |-> ~allow, done |-> done]
          /\ queue' = queue /\ dir' = dir
        BY <1>7 DEF CompareNow
    <2>2. compare(Dumps(1), Dumps(2), engine, allow)' = compare(Dumps(1), Dumps(2), engine, allow)
        BY <2>1 DEF Dumps
    <2>3. done \in SUBSET Sides OBVIOUS
    <2> HIDE DEF done
    <2> QED BY <2>1, <2>2, <2>3 DEF CompareIInv
<1>8. CASE UNCHANGED compareVars
    <2>1. queue' = queue /\ dir' = dir /\ report' = report BY <1>8 DEF compareVars
    <2>2. \A engine, allow : compare(Dumps(1), Dumps(2), engine, allow)' = compare(Dumps(1), Dumps(2), engine, allow)
        BY <2>1 DEF Dumps
    <2> QED BY <2>1, <2>2 DEF CompareIInv
<1> QED BY <1>1, <1>4, <1>5, <1>6, <1>7, <1>8 DEF CompareNext

-----------------------------------------------------------------------------
\* What resolve_records makes of one captured attempt.
RecordOf(f, x) ==
    [query |-> x.query, seq |-> x.seq, ok |-> x.ok,
     ids |-> [i \in DOMAIN x.rows |-> resolve(f.point.header.space, x.rows[i])],
     expected |-> [i \in DOMAIN ExpectedRows(f.point.header, x.query) |->
                      resolve(f.point.header.space, ExpectedRows(f.point.header, x.query)[i])]]

\* A dump has a record of each attempt, and no more records than attempts.
LEMMA Records ==
    ASSUME NEW f \in Files
    PROVE  /\ resolve_records(f.point) = {RecordOf(f, x) : x \in f.point.raw}
           /\ IsFiniteSet(resolve_records(f.point))
           /\ Cardinality(resolve_records(f.point)) \in Nat
           /\ Cardinality(f.point.raw) \in Nat
           /\ Cardinality(resolve_records(f.point)) <= Cardinality(f.point.raw)
<1> DEFINE S == f.point.raw  T == resolve_records(f.point)
<1>1. f.point \in Points BY DEF Files
<1>2. IsFiniteSet(S) BY <1>1, CompareAssumption
<1>3. T = {RecordOf(f, x) : x \in S} BY DEF resolve_records, RecordOf
<1> DEFINE g == [x \in S |-> RecordOf(f, x)]
<1> HIDE DEF S, T
<1>4. g \in Surjection(S, T) BY <1>3 DEF Surjection
<1> HIDE DEF g
<1>5. IsFiniteSet(T) /\ Cardinality(T) <= Cardinality(S) BY <1>2, <1>4, FS_Surjection
<1>6. Cardinality(T) \in Nat /\ Cardinality(S) \in Nat BY <1>2, <1>5, FS_CardinalityType
<1> QED BY <1>3, <1>5, <1>6 DEF S, T

\* A record is numbered, answered or not, and its ids are a list.
LEMMA RecordTypes ==
    ASSUME NEW f \in Files, NEW a \in resolve_records(f.point)
    PROVE  a.seq \in Nat /\ a.ok \in BOOLEAN /\ Len(a.ids) \in Nat
<1>1. PICK x \in f.point.raw : a = RecordOf(f, x) BY Records
<1>2. f.point \in Points BY DEF Files
<1>3. x.seq \in Nat /\ x.ok \in BOOLEAN /\ Len(x.rows) \in Nat /\ DOMAIN x.rows = 1..Len(x.rows)
    BY <1>1, <1>2, CompareAssumption
<1>4. a.seq = x.seq /\ a.ok = x.ok BY <1>1 DEF RecordOf
<1>5. Len(a.ids) \in Nat
    <2> DEFINE n == Len(x.rows)  e(i) == resolve(f.point.header.space, x.rows[i])
               s == [i \in 1..n |-> e(i)]  E == {e(i) : i \in 1..n}
    <2>1. a.ids = s BY <1>1, <1>3 DEF RecordOf
    <2>2. n \in Nat BY <1>3
    <2> HIDE DEF n
    <2>3. \A i \in 1..n : e(i) \in E OBVIOUS
    <2> HIDE DEF e, E
    <2>4. s \in Seq(E) BY <2>2, <2>3
    <2> HIDE DEF s
    <2> QED BY <2>1, <2>4
<1> QED BY <1>3, <1>4, <1>5

\* Every attempt of a file that was dumped to the end is read.
LEMMA WholeIsRead ==
    ASSUME NEW f \in Files, Whole(f), NEW x \in f.point.raw
    PROVE  RecordOf(f, x) \in Attempts(f)
<1> DEFINE T == resolve_records(f.point)  r == RecordOf(f, x)  S == {y \in T : y.seq < r.seq}
<1>1. /\ IsFiniteSet(T) /\ Cardinality(T) \in Nat /\ Cardinality(f.point.raw) \in Nat
      /\ Cardinality(T) <= Cardinality(f.point.raw) /\ r \in T
    BY Records
<1>2. f.lines = 1 + Cardinality(f.point.raw) BY DEF Whole
<1>3. r.seq \in Nat BY <1>1, RecordTypes
<1>4. S \subseteq T \ {r} BY <1>3
<1>5. Cardinality(S) \in Nat /\ Cardinality(S) < Cardinality(T)
    <2> HIDE DEF T, S, r
    <2>1. IsFiniteSet(T \ {r}) /\ Cardinality(T \ {r}) = Cardinality(T) - 1 BY <1>1, FS_RemoveElement
    <2>2. S \in SUBSET (T \ {r}) BY <1>4
    <2>3. IsFiniteSet(S) /\ Cardinality(S) <= Cardinality(T \ {r}) BY <2>1, <2>2, FS_Subset
    <2>4. Cardinality(S) \in Nat BY <2>3, FS_CardinalityType
    <2> QED BY <1>1, <2>1, <2>3, <2>4
<1>6. Cardinality(S) + 1 < f.lines
    <2> HIDE DEF T, S, r
    <2> QED BY <1>1, <1>2, <1>5
<1> QED BY <1>1, <1>6 DEF Attempts

\* A file without failed attempts has only answered ones.
LEMMA NoneFailed ==
    ASSUME NEW f \in Files
    PROVE  FailedAttempts(f) \in Nat /\ (FailedAttempts(f) = 0 => \A a \in Attempts(f) : a.ok)
<1> DEFINE T == resolve_records(f.point)  S == {a \in Attempts(f) : ~a.ok}
<1>1. IsFiniteSet(T) BY Records
<1>2. S \in SUBSET T BY DEF Attempts
<1> HIDE DEF T
<1>3. IsFiniteSet(S)
    <2> HIDE DEF S
    <2> QED BY <1>1, <1>2, FS_Subset
<1>4. FailedAttempts(f) = Cardinality(S) BY DEF FailedAttempts
<1>5. Cardinality(S) \in Nat /\ (Cardinality(S) = 0 => S = {})
    <2> HIDE DEF S
    <2> QED BY <1>3, FS_CardinalityType, FS_EmptySet
<1> QED BY <1>4, <1>5

\* An answered query has a first answer.
LEMMA FirstAnswer ==
    ASSUME NEW f \in Files, NEW q \in AnsweredQueries(f)
    PROVE  first_answers(f)[q] \in Attempts(f)
<1> DEFINE A == {r \in Attempts(f) : r.query = q /\ r.ok}  N == {r.seq : r \in A}
<1>1. A # {} BY DEF AnsweredQueries
<1>2. \A r \in A : r.seq \in Nat BY RecordTypes DEF Attempts
<1>3. PICK n \in N : \A m \in N : n <= m
    <2>1. N \subseteq Nat /\ N # {} BY <1>1, <1>2
    <2> HIDE DEF N
    <2> QED BY <2>1, Smallest
<1>4. PICK r \in A : r.seq = n BY <1>3
<1>5. \A x \in A : r.seq <= x.seq BY <1>3, <1>4
<1> DEFINE First(a) == /\ a.query = q /\ a.ok
                       /\ \A x \in Attempts(f) : x.query = q /\ x.ok => a.seq <= x.seq
<1>6. r \in Attempts(f) /\ First(r) BY <1>4, <1>5
<1>7. first_answers(f)[q] = CHOOSE a \in Attempts(f) : First(a) BY DEF first_answers
<1> HIDE DEF First
<1> QED BY <1>6, <1>7

\* Two comparable dumps without a failure: what both attempted, both answered, and what is
\* reported as equal is equal.
LEMMA PairIsEvidence ==
    ASSUME NEW r \in Files, NEW c \in Files, Comparable(r, c), NEW p, p = compare_pair(r, c),
           p.one_sided = {}, p.failed = 0
    PROVE  /\ Subject(r) = Subject(c)
           /\ \A f \in {r, c} : Whole(f) => \A a \in f.point.raw : a.ok /\ a.query \in DOMAIN p.shapes
           /\ \A q \in DOMAIN p.shapes :
                Perfect(p.shapes[q].jaccard) /\ Perfect(p.shapes[q].tau) =>
                    /\ top_k(first_answers(r)[q].ids, Header(r).top) = top_k(first_answers(c)[q].ids, Header(r).top)
                    /\ p.shapes[q].reference = p.shapes[q].candidate
<1> DEFINE both == AnsweredQueries(r) \intersect AnsweredQueries(c)  k == Header(r).top
           attempted == {x.query : x \in Attempts(r) \union Attempts(c)}
<1>1. Subject(r) = Subject(c) BY DEF Comparable, Subject
<1>2. /\ p.shapes = shape_report(r, c)
      /\ p.failed = FailedAttempts(r) + FailedAttempts(c)
      /\ p.one_sided = {q \in attempted : (q \in AnsweredQueries(r)) # (q \in AnsweredQueries(c))}
    BY DEF compare_pair
<1>3. DOMAIN p.shapes = both BY <1>2 DEF shape_report
<1>4. FailedAttempts(r) = 0 /\ FailedAttempts(c) = 0
    <2>1. FailedAttempts(r) \in Nat /\ FailedAttempts(c) \in Nat BY NoneFailed
    <2> QED BY <1>2, <2>1
<1>5. ASSUME NEW f \in {r, c}, Whole(f), NEW x \in f.point.raw PROVE x.ok /\ x.query \in DOMAIN p.shapes
    <2> DEFINE a == RecordOf(f, x)
    <2>1. f \in Files /\ FailedAttempts(f) = 0 BY <1>4
    <2>2. a \in Attempts(f) BY <1>5, <2>1, WholeIsRead
    <2>3. a.ok /\ a.query = x.query /\ a.ok = x.ok
        <3>1. a.ok BY <2>1, <2>2, NoneFailed
        <3> QED BY <3>1 DEF RecordOf
    <2> HIDE DEF a
    <2>4. x.query \in AnsweredQueries(f) BY <2>2, <2>3 DEF AnsweredQueries
    <2>5. x.query \in attempted BY <2>2, <2>3
    <2>6. (x.query \in AnsweredQueries(r)) = (x.query \in AnsweredQueries(c)) BY <1>2, <2>5
    <2> QED BY <1>3, <2>3, <2>4, <2>6
<1>6. ASSUME NEW q \in DOMAIN p.shapes, Perfect(p.shapes[q].jaccard), Perfect(p.shapes[q].tau)
      PROVE  /\ top_k(first_answers(r)[q].ids, k) = top_k(first_answers(c)[q].ids, k)
             /\ p.shapes[q].reference = p.shapes[q].candidate
    <2> DEFINE a == first_answers(r)[q]  b == first_answers(c)[q]
    <2>1. q \in both BY <1>3
    <2>2. p.shapes[q] = [jaccard |-> jaccard_at_k(a.ids, b.ids, k), tau |-> rank_correlation(a.ids, b.ids, k),
                         reference |-> recall_at_k(a, k), candidate |-> recall_at_k(b, k)]
        BY <1>2, <2>1 DEF shape_report
    <2>3. Len(a.ids) \in Nat /\ Len(b.ids) \in Nat
        <3>1. a \in resolve_records(r.point) /\ b \in resolve_records(c.point) BY <2>1, FirstAnswer DEF Attempts
        <3> HIDE DEF a, b
        <3> QED BY <3>1, RecordTypes
    <2>4. k \in Nat
        <3>1. r.point \in Points BY DEF Files
        <3> QED BY <3>1, CompareAssumption DEF Header
    <2>5. a.expected = b.expected BY <2>1 DEF Comparable
    <2> HIDE DEF a, b, k, both
    <2>6. Perfect(jaccard_at_k(a.ids, b.ids, k)) /\ Perfect(rank_correlation(a.ids, b.ids, k)) BY <1>6, <2>2
    <2>7. top_k(a.ids, k) = top_k(b.ids, k) BY <2>3, <2>4, <2>6, PerfectIsSame
    <2>8. recall_at_k(a, k) = recall_at_k(b, k) BY <2>5, <2>7 DEF recall_at_k
    <2> QED BY <2>2, <2>7, <2>8 DEF a, b
<1> QED BY <1>1, <1>5, <1>6

\* What a verdict of compare stands on.
LEMMA PassedPairs ==
    ASSUME NEW A, NEW B, NEW engine, NEW allow \in BOOLEAN, compare(A, B, engine, allow).verdict = "pass"
    PROVE  \E R, C :
              /\ R \union C = A \union B
              /\ LET pairing == Pairing(R, C)
                     result == compare(A, B, engine, allow)
                 IN  /\ pairing \subseteq R \X C
                     /\ \A p \in pairing : Comparable(p[1], p[2])
                     /\ result.pairs = {compare_pair(p[1], p[2]) : p \in pairing}
                     /\ \A p \in result.pairs : p.one_sided = {} /\ p.failed = 0
                     /\ ~allow => R \union C \subseteq {p[1] : p \in pairing} \union {p[2] : p \in pairing}
<1> DEFINE R == IF \A f \in A : names(f, engine) THEN A ELSE B
           C == IF R = A THEN B ELSE A
           pairing == Pairing(R, C)
           paired == {p[1] : p \in pairing} \union {p[2] : p \in pairing}
           pairs == {compare_pair(p[1], p[2]) : p \in pairing}
           unpaired == (R \union C) \ paired
           stop == \/ A = {} \/ B = {}
                   \/ \E f \in A \union B : ~Readable(f)
                   \/ ~(\A f \in R : names(f, engine))
                   \/ Cardinality(R) + Cardinality(C) > 2 /\ ~(index(R) /\ index(C))
                   \/ pairing = {}
                   \/ \E p \in pairing : ~Comparable(p[1], p[2])
           good == [verdict |-> IF passed(pairs, unpaired, allow) THEN "pass" ELSE "fail",
                    pairs |-> pairs, unpaired |-> unpaired]
<1>1. compare(A, B, engine, allow) = IF stop THEN Refusal ELSE good BY DEF compare
<1>2. R \union C = A \union B OBVIOUS
<1>3. pairing \subseteq R \X C
    <2> HIDE DEF R, C
    <2> QED BY DEF Pairing
<1>4. stop \/ \A p \in pairing : Comparable(p[1], p[2]) OBVIOUS
<1>5. good.pairs = pairs /\ (good.verdict = "pass" => passed(pairs, unpaired, allow)) OBVIOUS
<1>6. passed(pairs, unpaired, allow) =>
        /\ \A p \in pairs : p.one_sided = {} /\ p.failed = 0
        /\ ~allow => R \union C \subseteq paired
    <2>1. unpaired = {} => R \union C \subseteq paired
        <3> HIDE DEF R, C, paired
        <3> QED OBVIOUS
    <2> HIDE DEF R, C, paired, pairs, unpaired
    <2> QED BY <2>1 DEF passed
<1> HIDE DEF stop, good
<1>7. ~stop /\ compare(A, B, engine, allow) = good BY <1>1 DEF Refusal
<1>8. passed(pairs, unpaired, allow) BY <1>5, <1>7
<1>9. compare(A, B, engine, allow).pairs = pairs BY <1>5, <1>7
<1>10. \A p \in pairing : Comparable(p[1], p[2]) BY <1>4, <1>7
<1> HIDE DEF R, C
<1> QED BY <1>2, <1>3, <1>6, <1>8, <1>9, <1>10

\* A report on files as they were written is evidence of its verdict.
LEMMA EvidenceOfPass == CompareIInv => PassIsEvidence
<1> SUFFICES ASSUME CompareIInv, report # NoReport, report.result.verdict = "pass"
             PROVE  /\ \A p \in report.result.pairs :
                        LET r == p.reference
                            c == p.candidate
                            k == Header(r).top
                        IN  /\ Subject(r) = Subject(c)
                            /\ \A f \in {r, c} : Whole(f) =>
                                    \A a \in f.point.raw : a.ok /\ a.query \in DOMAIN p.shapes
                            /\ \A q \in DOMAIN p.shapes :
                                    Perfect(p.shapes[q].jaccard) /\ Perfect(p.shapes[q].tau) =>
                                        /\ top_k(first_answers(r)[q].ids, k) = top_k(first_answers(c)[q].ids, k)
                                        /\ p.shapes[q].reference = p.shapes[q].candidate
                    /\ report.strict =>
                        \A f \in UNION {Dumps(s) : s \in report.done} :
                            \E p \in report.result.pairs : f \in {p.reference, p.candidate}
    BY DEF PassIsEvidence
<1>1. PICK engine \in {"ref", "cand"}, allow \in BOOLEAN, done \in SUBSET Sides :
         report = [result |-> compare(Dumps(1), Dumps(2), engine, allow), strict |-> ~allow, done |-> done]
    BY DEF CompareIInv
<1> DEFINE A == Dumps(1)  B == Dumps(2)
<1>2. /\ report.result = compare(A, B, engine, allow)
      /\ report.strict = ~allow /\ report.done = done /\ compare(A, B, engine, allow).verdict = "pass"
    BY <1>1
<1>3. A \subseteq Files /\ B \subseteq Files
    <2>1. \A s \in Sides : dir[s] \in Seq(Files) BY DEF CompareIInv
    <2> QED BY <2>1 DEF Dumps, Elements, Sides
<1> HIDE DEF A, B
<1>4. PICK R, C :
        /\ R \union C = A \union B
        /\ LET pairing == Pairing(R, C)
               result == report.result
           IN  /\ pairing \subseteq R \X C
               /\ \A p \in pairing : Comparable(p[1], p[2])
               /\ result.pairs = {compare_pair(p[1], p[2]) : p \in pairing}
               /\ \A p \in result.pairs : p.one_sided = {} /\ p.failed = 0
               /\ ~allow => R \union C \subseteq {p[1] : p \in pairing} \union {p[2] : p \in pairing}
    BY <1>2, PassedPairs
<1> DEFINE pairing == Pairing(R, C)
<1>5. ASSUME NEW p \in report.result.pairs
      PROVE  /\ Subject(p.reference) = Subject(p.candidate)
             /\ \A f \in {p.reference, p.candidate} : Whole(f) =>
                    \A a \in f.point.raw : a.ok /\ a.query \in DOMAIN p.shapes
             /\ \A q \in DOMAIN p.shapes :
                    Perfect(p.shapes[q].jaccard) /\ Perfect(p.shapes[q].tau) =>
                        /\ top_k(first_answers(p.reference)[q].ids, Header(p.reference).top)
                            = top_k(first_answers(p.candidate)[q].ids, Header(p.reference).top)
                        /\ p.shapes[q].reference = p.shapes[q].candidate
    <2>1. PICK x \in pairing : p = compare_pair(x[1], x[2]) BY <1>4
    <2> DEFINE r == x[1]  c == x[2]
    <2>2. r \in Files /\ c \in Files /\ Comparable(r, c)
        <3>1. x \in R \X C /\ R \subseteq Files /\ C \subseteq Files BY <1>3, <1>4, <2>1
        <3> QED BY <1>4, <2>1, <3>1
    <2>3. p.one_sided = {} /\ p.failed = 0 BY <1>4
    <2>4. p.reference = r /\ p.candidate = c BY <2>1 DEF compare_pair
    <2> HIDE DEF r, c
    <2>5. p = compare_pair(r, c) BY <2>1 DEF r, c
    <2> QED BY <2>2, <2>3, <2>4, <2>5, PairIsEvidence
<1>6. ASSUME report.strict, NEW f \in UNION {Dumps(s) : s \in report.done}
      PROVE  \E p \in report.result.pairs : f \in {p.reference, p.candidate}
    <2>1. ~allow BY <1>2, <1>6
    <2>2. f \in A \union B BY <1>2, <1>6 DEF Sides, A, B
    <2>3. PICK x \in pairing : f \in {x[1], x[2]} BY <1>4, <2>1, <2>2
    <2> DEFINE p == compare_pair(x[1], x[2])
    <2>4. p \in report.result.pairs BY <1>4, <2>3
    <2>5. p.reference = x[1] /\ p.candidate = x[2] BY DEF compare_pair
    <2> HIDE DEF p
    <2> QED BY <2>3, <2>4, <2>5
<1> QED BY <1>5, <1>6

-----------------------------------------------------------------------------
\* The three side by side, as the run has them.

\* The summary's invariant holds wherever it moves; a comparison that does not move has
\* reported nothing.
SideBySide ==
    /\ SummaryIInv
    /\ \/ part = "compare" /\ CompareIInv
       \/ part # "compare" /\ report = NoReport

\* A step of one leaves the others where they are.
LEMMA SideBySideStep == ASSUME SideBySide, [MCNext]_mcVars PROVE SideBySide'
<1>1. ASSUME UNCHANGED part, UNCHANGED compareVars
      PROVE  (part # "compare" /\ report = NoReport) => (part # "compare" /\ report = NoReport)'
    BY <1>1 DEF compareVars
<1>2. CASE AllBut("provenance") /\ Next
    <2>1. part = "provenance" /\ part' = part /\ UNCHANGED summaryVars /\ UNCHANGED compareVars BY <1>2 DEF AllBut
    <2>2. SummaryIInv' BY <2>1, SummaryKeeps DEF SideBySide
    <2> QED BY <1>1, <2>1, <2>2 DEF SideBySide
<1>3. CASE AllBut("summary") /\ SummaryNext
    <2>1. part = "summary" /\ part' = part /\ UNCHANGED compareVars BY <1>3 DEF AllBut
    <2>2. SummaryIInv' BY <1>3, SummaryKeeps DEF SideBySide
    <2> QED BY <1>1, <2>1, <2>2 DEF SideBySide
<1>4. CASE AllBut("compare") /\ CompareNext
    <2>1. part = "compare" /\ part' = part /\ UNCHANGED summaryVars BY <1>4 DEF AllBut
    <2>2. SummaryIInv' BY <2>1, SummaryKeeps DEF SideBySide
    <2>3. CompareIInv' BY <1>4, <2>1, CompareKeeps DEF SideBySide
    <2> QED BY <2>1, <2>2, <2>3 DEF SideBySide
<1>5. CASE UNCHANGED mcVars
    <2>1. part' = part /\ UNCHANGED summaryVars /\ UNCHANGED compareVars BY <1>5 DEF mcVars
    <2>2. SummaryIInv' BY <2>1, SummaryKeeps DEF SideBySide
    <2>3. CompareIInv => CompareIInv' BY <2>1, CompareKeeps
    <2> QED BY <1>1, <2>1, <2>2, <2>3 DEF SideBySide
<1> QED BY <1>2, <1>3, <1>4, <1>5 DEF MCNext

\* The invariant of the run that explores them side by side.
THEOREM SideBySideInvariance == MCSpec => []SideBySide
<1>1. MCInit => SideBySide
    BY SummaryStarts, CompareStarts DEF MCInit, CompareOff, CompareInit, SideBySide
<1> QED BY <1>1, SideBySideStep, PTL DEF MCSpec

\* For every row that can be measured, and every order in which the searches of a sweep end:
\* every scored row has its bucket in the headline, a bucket's headline is the fastest of the
\* rows of its precision that the client did not saturate where there is one, and past a knee no
\* level of its curve was faster.
THEOREM HeadlineIsBestOfBucket == MCSpec => []HeadlineIsEarned
<1>1. SideBySide => HeadlineIsEarned BY EarnedHeadline DEF SideBySide
<1> QED BY <1>1, SideBySideInvariance, PTL

\* For every two runs, and every moment at which either stops or is compared: a comparison
\* that passes compared dumps of one subject, every attempt they were written to the end
\* with, and every dump of a run that finished them; what it calls equal is equal.
THEOREM PassComparesAll == MCSpec => []PassIsEvidence
<1>1. SideBySide => PassIsEvidence
    <2>1. report = NoReport => PassIsEvidence BY DEF PassIsEvidence
    <2> QED BY <2>1, EvidenceOfPass DEF SideBySide
<1> QED BY <1>1, SideBySideInvariance, PTL
=============================================================================
