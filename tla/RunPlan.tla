------------------------------- MODULE RunPlan -------------------------------
(***************************************************************************)
(* From the command line to the list of experiments: the configuration      *)
(* files are read (config.rs), a name defined twice or a file that cannot    *)
(* be read stops the run unless --allow-partial-configs says otherwise, and  *)
(* the startup guards refuse configurations that would destroy one another  *)
(* (experiment.rs, run).  Nothing has been downloaded or connected when      *)
(* these steps end.                                                          *)
(*                                                                         *)
(* A configuration is [id, name, token, engine, file, wanted, ...]: `token`  *)
(* is the name as sanitize_token leaves it, so two names may share one, and  *)
(* `wanted` says whether the name matches --engines.  The                   *)
(* process environment holds at most one variable, env = [var, raw], where   *)
(* raw "unset" stands for an empty environment.                             *)
(***************************************************************************)
EXTENDS EngineKnobs, FiniteSets, TLC

VARIABLES
    configs,       \* every configuration any file defines (constant)
    broken,        \* the files that cannot be read or parsed (constant)
    env,           \* the process environment (constant)
    partial,       \* --allow-partial-configs (constant)
    scalar,        \* --skip-vector-index (constant)
    budget,        \* --timeout is given (constant)
    stage,         \* "load", "guard", "next", then the phases of one experiment, "ok", "refused"
    skipped,       \* SKIPPED_CONFIG_FILES
    todo           \* the selected configurations whose experiment has not begun

inputs == <<configs, broken, env, partial, scalar, budget>>
planVars == <<inputs, stage, skipped, todo>>

Raw(v) == IF v = env.var THEN env.raw ELSE "unset"
Parses(raw) == raw \in {"two", "zero"}

\* A set but malformed INDEXING_WAIT_SECS refuses the run before anything else.
indexing_wait_override == Raw(<<"any", "INDEXING_WAIT_SECS">>) \in {"unset", "two"}

Unbroken == {c \in configs : c.file \notin broken}

\* NameRegistry: a name claimed twice is an error naming both definitions.
NoNameTwice == \A c, d \in Unbroken : c.name = d.name => c = d

\* read_engine_configs is strict; read_engine_configs_reporting_skips is not.
MayProceed == partial \/ {c.file : c \in configs} \intersect broken = {}

\* --engines, by matches_pattern; a configuration of an unknown engine is passed over.
Selected == {c \in Unbroken : c.engine \in supported_engines /\ c.wanted}

\* --skip-vector-index leaves out, with a warning on stderr, what cannot run without vectors.
supports_skip_vector_index == {"redis", "opensearch", "valkey", "mongodb"}
Runnable == {c \in Selected : scalar => c.engine \in supports_skip_vector_index}

Load ==
    /\ stage = "load"
    /\ IF indexing_wait_override /\ NoNameTwice /\ MayProceed /\ Runnable # {}
       THEN /\ stage' = "guard"
            /\ skipped' = {c.file : c \in configs} \intersect broken
            /\ todo' = Runnable
       ELSE stage' = "refused" /\ UNCHANGED <<skipped, todo>>
    /\ UNCHANGED inputs

\* <base>:<token>, or the bare base when <base>_EXACT is accepted.
IndexName(e, token) ==
    LET base == IF Raw(Var(e, BaseEnv(e))) = "unset" THEN "default" ELSE Raw(Var(e, BaseEnv(e)))
    IN  IF Raw(Var(e, ExactEnv(e))) = "on" THEN <<base>> ELSE <<base, token>>

\* What the experiment works on: --skip-vector-index renames every configuration of an
\* engine to the same <engine>-no-vector, after the guard has looked at the names.
Addressed(c) == IndexName(c.engine, IF scalar THEN "no-vector" ELSE c.token)

\* The guard ignores engines that do not derive a namespace from the name.
ByTokenOnly(cs) == \A c, d \in cs : c.engine = d.engine /\ c.engine \in Destructive /\ c.name = d.name => c = d
NoSharedIndex(cs) ==
    \A c, d \in cs :
        c.engine = d.engine /\ c.engine \in Destructive
            /\ IndexName(c.engine, c.token) = IndexName(d.engine, d.token) => c = d

\* --skip-vector-index: one configuration per engine, and no search that needs a vector.
validate_engine_selection(cs) == \A c, d \in cs : scalar /\ c.engine = d.engine => c = d
FilterOnly(c) == scalar => c.policies \subseteq {"none"}

\* A hybrid search's hybrid_policy and REDIS_HYBRID_POLICY must agree on a known policy
\* ("one" and "two" are the known ones; "none" is a search that has no policy).
resolve_redis_policy(c) ==
    LET raw == Raw(Var("redis", "HYBRID_POLICY"))
    IN  raw # "unset" => c.policies \subseteq {"none", raw} \intersect {"none", "one", "two"}

CheckPlan ==
    /\ stage = "guard"
    /\ stage' = IF /\ validate_engine_selection(todo) /\ NoSharedIndex(todo)
                   /\ \A c \in todo : FilterOnly(c) /\ resolve_redis_policy(c)
                THEN "next" ELSE "refused"
    /\ UNCHANGED <<inputs, skipped, todo>>

\* matches the run's loop: the order of a HashMap decides who is next.
Take(c) ==
    /\ stage = "next"
    /\ c \in todo
    /\ todo' = todo \ {c}
    /\ UNCHANGED <<inputs, skipped>>
==============================================================================
