----------------------------- MODULE Provenance ------------------------------
(***************************************************************************)
(* effective_config.rs: the recorder one process shares, cleared when an     *)
(* experiment begins, written by every reader of a setting, and published    *)
(* scrubbed as the engine_params block of every artifact.                    *)
(*                                                                         *)
(* Values are the texts the properties tell apart: "one" is what the         *)
(* configuration declares, "two" a text that parses, "junk" one that does    *)
(* not, "blank" and "zero" what they say, "on" the accepted spelling of a    *)
(* flag, "dsn" a connection string with a password in it (not a plain        *)
(* token), "tok" a credential that is a plain token.  A configuration's      *)
(* `decl` is the value of the keys its engine reads, `extra` one more key.   *)
(* The searches of a configuration are its policies, in any order.           *)
(***************************************************************************)
EXTENDS RunPlan

VARIABLES
    host,          \* --host (constant)
    cur,           \* the configuration whose experiment runs
    rec,           \* the process-wide Recorder
    pending,       \* searches of the experiment still to run
    rejected,      \* REJECTED_EXPERIMENTS
    begun,         \* configurations whose experiment began (ghost)
    used,          \* settings the experiment resolved, as the engine received them (ghost)
    refusals,      \* experiments refused so far (ghost)
    artifact       \* the files the last step wrote

vars == <<planVars, host, cur, rec, pending, rejected, begun, used, refusals, artifact>>

Nothing == [engine |-> "none"]
Recorder ==
    [declared |-> {}, invocation |-> "none", phase |-> "none", env |-> <<>>, effective |-> <<>>,
     overridden |-> {}, ignored |-> {}, from_default |-> {}]

\* A process that has done nothing yet, whatever the files, the command line and the
\* environment hold.
Unstarted ==
    /\ stage = "load" /\ skipped = {} /\ todo = {}
    /\ cur = Nothing /\ rec = Recorder /\ pending = {} /\ rejected = {} /\ begun = {}
    /\ used = {} /\ refusals = {} /\ artifact = {}

\* The texts of this model where the program meets them: a credential that is a plain token
\* comes under a credential's name, and `extra` is a key of its own.
Texts == {"unset", "two", "junk", "on", "dsn", "tok", "blank", "zero"}
KnownTexts ==
    /\ env.raw \in Texts /\ (env.raw = "tok" => is_secret(env.var[2]))
    /\ host \in {"plain", "dsn"}
    /\ \A c \in configs :
        /\ c.decl \in {"unset", "one"} /\ c.policies \subseteq {"none", "one", "two"}
        /\ c.extra = [key |-> c.extra.key, val |-> c.extra.val]
        /\ c.extra.key \in {"none", "api_key", "unknown", "unread", "hnsw.dsn", "number_of_shards"}
        /\ c.extra.val \in Texts /\ (c.extra.val = "tok" => is_secret(c.extra.key))

-----------------------------------------------------------------------------
\* What a reader returns for the text `raw` and the declared value `decl`.
Outcome(val, recorded, err) == [val |-> val, recorded |-> recorded, err |-> err]
DeclaredOr(decl, other) == IF decl = "unset" THEN other ELSE decl
env_parsed(raw) == Outcome(IF Parses(raw) THEN raw ELSE "default", TRUE, FALSE)
env_or(raw) == Outcome(IF raw = "unset" THEN "default" ELSE raw, TRUE, FALSE)
env_flag(raw) == Outcome(IF raw = "on" THEN "on" ELSE "off", TRUE, FALSE)
env_present(raw) == Outcome(IF raw = "unset" THEN "off" ELSE "on", TRUE, FALSE)
env_opt(raw) == Outcome(IF raw \in {"unset", "blank"} THEN "null" ELSE raw, TRUE, FALSE)
env_var(raw) == Outcome(IF raw = "unset" THEN "default" ELSE raw, FALSE, FALSE)
parse_env_secs(raw) ==
    Outcome(IF raw = "unset" THEN "default" ELSE raw, raw # "unset", ~(raw = "unset" \/ Parses(raw)))

Resolve(how, raw, decl) ==
    CASE how = "parsed"  -> env_parsed(raw)
      [] how = "or"      -> env_or(raw)
      [] how = "flag"    -> env_flag(raw)
      [] how = "present" -> env_present(raw)
      [] how = "opt"     -> env_opt(raw)
      [] how = "raw"     -> env_var(raw)
      [] how = "required" -> [env_var(raw) EXCEPT !.err = raw = "unset"]
      [] how = "choice"  -> [env_or(raw) EXCEPT !.err = raw \notin {"unset", "two"}]
      [] how = "secs"    -> parse_env_secs(raw)
      [] how = "env_first" ->
            Outcome(IF Parses(raw) THEN raw ELSE DeclaredOr(decl, "default"), TRUE, FALSE)
      [] how = "config_first" ->
            Outcome(DeclaredOr(decl, IF raw = "two" THEN raw ELSE "null"), TRUE, FALSE)
      [] how = "strict_config_first" ->
            Outcome(DeclaredOr(decl, IF raw = "on" THEN "on" ELSE "off"), TRUE,
                    decl = "unset" /\ raw \notin {"unset", "on", "zero"})
      [] how \in {"config", "connection"} -> Outcome(DeclaredOr(decl, "default"), FALSE, FALSE)
      [] how = "wait"    -> env_parsed(raw)
      [] how = "clamped" -> Outcome(IF raw = "two" THEN raw ELSE "default", TRUE, FALSE)

\* A text that was set and is not the value used is noted with both sides.
Loses(how, raw) ==
    CASE how \in {"parsed", "wait"} -> raw # "unset" /\ ~Parses(raw)
      [] how = "flag" -> raw \notin {"unset", "on"}
      [] how = "clamped" -> raw \notin {"unset", "two"}
      [] OTHER -> FALSE

\* Only a reader that gets as far as the environment observes it.
Observes(k, c) ==
    /\ k.how \notin {"config", "connection"}
    /\ k.how = "config_first" => c.decl = "unset"

Read(c, phase) ==
    {k \in create_engine[c.engine] :
        k.at = phase /\ (k.unless = "none" \/ Raw(Var(c.engine, k.unless)) = "unset")}
Out(c, k) == Resolve(k.how, Raw(Var(c.engine, k.name)), c.decl)
Fails(c) == \E k \in Read(c, "new") : Out(c, k).err

Value(c, v, ks) == Out(c, CHOOSE k \in ks : Var(c.engine, k.name) = v).val
Vars(c, ks) == {Var(c.engine, k.name) : k \in ks}

\* observe_env keeps the first text seen; record_effective keeps the last value.
observe_env(r, vs) ==
    [v \in DOMAIN r.env \union vs |-> IF v \in DOMAIN r.env THEN r.env[v] ELSE Raw(v)]
record_effective(r, new) ==
    [v \in DOMAIN new \union DOMAIN r.effective |-> IF v \in DOMAIN new THEN new[v] ELSE r.effective[v]]

note_override(r, new) == r.overridden \union new

Recorded(r, c, ks) ==
    LET kept == {k \in ks : Out(c, k).recorded}
        lost == {k \in ks : Loses(k.how, Raw(Var(c.engine, k.name)))}
    IN  [r EXCEPT
            !.env = observe_env(r, Vars(c, {k \in ks : Observes(k, c)})),
            !.effective = record_effective(r, [v \in Vars(c, kept) |-> Value(c, v, kept)]),
            !.from_default = (@ \ Vars(c, kept)) \union
                Vars(c, {k \in kept : k.how = "or" /\ Raw(Var(c.engine, k.name)) = "unset"}),
            !.overridden = note_override(r,
                {[key |-> Var(c.engine, k.name)[2], declared |-> Raw(Var(c.engine, k.name)),
                  effective |-> Out(c, k).val] : k \in lost})]

\* The value the engine goes on with (ghost).
Uses(c, ks) == {[var |-> Var(c.engine, k.name), how |-> k.how, val |-> Out(c, k).val] : k \in ks}

-----------------------------------------------------------------------------
\* Keys of KNOWN_UNREAD that the engine's configurations declare.
known_unread_for(c) == c.extra.key = "unread" /\ c.engine \in {"elasticsearch", "opensearch", "redis"}

\* A key the typed hnsw_config has no field for is absorbed and noted by name.
unsupported_keys(c) == c.extra.key = "hnsw.dsn"

set_declared(r, c) ==
    [r EXCEPT
        !.declared = {[key |-> "parallel", val |-> c.decl]} \union {c.extra},
        !.ignored = @ \union IF known_unread_for(c) \/ unsupported_keys(c) THEN {c.extra.key} ELSE {},
        !.overridden = note_override(r,
            IF known_unread_for(c)
            THEN {[key |-> c.extra.key, declared |-> c.extra.val, effective |-> "null"]} ELSE {})]

BeginAccumulates(r) == [r EXCEPT !.declared = {}, !.invocation = "none", !.phase = "none"]
begin(r) == Recorder

begin_experiment(c) == [set_declared(begin(rec), c) EXCEPT !.invocation = host]

-----------------------------------------------------------------------------
\* Publication: one scrub of every member.
is_plain_token(v) == v \notin {"dsn", "blank", "hnsw.dsn"}
redact_connection_like(v) == IF is_plain_token(v) THEN v ELSE "opaque"
scrub(v, secret) ==
    CASE v \in {"null", "unset", "none"} -> v
      [] secret /\ v \notin {"null", "unset", "none"} -> "redacted"
      [] OTHER -> redact_connection_like(v)

DECLARED_KEY_ALLOWLIST == {"parallel", "number_of_shards"}
scrub_declared(d) ==
    [key |-> redact_connection_like(d.key),
     val |-> IF d.key \in DECLARED_KEY_ALLOWLIST THEN scrub(d.val, is_secret(d.key))
             ELSE IF is_secret(d.key) THEN "redacted"
             ELSE IF d.val \in {"one", "two", "zero", "unset"} THEN d.val ELSE "dropped"]

scrubbed_effective(r) ==
    [v \in DOMAIN r.effective |->
        IF is_secret(v[2]) /\ v \in r.from_default THEN "redacted default"
        ELSE scrub(r.effective[v], is_secret(v[2]))]

snapshot(r) ==
    [phase |-> r.phase,
     invocation |-> scrub(r.invocation, FALSE),
     declared |-> {scrub_declared(d) : d \in r.declared},
     effective |-> scrubbed_effective(r),
     env |-> [v \in DOMAIN r.env |-> scrub(r.env[v], is_secret(v[2]))],
     overridden |-> {[key |-> redact_connection_like(o.key),
                      declared |-> scrub(o.declared, is_secret(o.key)),
                      effective |-> scrub(o.effective, is_secret(o.key))] : o \in r.overridden},
     ignored |-> {redact_connection_like(k) : k \in r.ignored}]

\* The block is walked again before it leaves: anything else under such a key aborts the run.
assert_no_cleartext_secrets(b) ==
    /\ \A v \in DOMAIN b.env : is_secret(v[2]) => b.env[v] \in {"unset", "redacted"}
    /\ \A v \in DOMAIN b.effective :
            is_secret(v[2]) => b.effective[v] \in {"null", "redacted", "redacted default"}
    /\ \A d \in b.declared : is_secret(d.key) => d.val \in {"unset", "redacted"}

set_phase(r, p) == [r EXCEPT !.phase = p]

\* save_upload_results, save_search_results and save_summary end in this.
Save(p, files) ==
    /\ rec' = set_phase(rec, p)
    /\ artifact' = {[phase |-> p, search |-> s, block |-> snapshot(rec'),
                     skipped |-> skipped, rejected |-> rejected] : s \in files}
Aborts == \E a \in artifact' : ~assert_no_cleartext_secrets(a.block)

-----------------------------------------------------------------------------
\* The settings the startup guards read, before any experiment begins.
GuardReads(c) ==
    {k \in create_engine[c.engine] :
        \/ c.engine \in Destructive /\ k.name \in {BaseEnv(c.engine), ExactEnv(c.engine)}
        \/ c.engine = "redis" /\ k.name = "HYBRID_POLICY"}

run_guard ==
    /\ CheckPlan
    /\ rec' = LET vs == UNION {Vars(c, GuardReads(c)) : c \in todo}
                  val(v) == LET c == CHOOSE d \in todo : v \in Vars(d, GuardReads(d))
                            IN  Value(c, v, GuardReads(c))
              IN  [rec EXCEPT !.env = observe_env(rec, vs),
                              !.effective = record_effective(rec, [v \in vs |-> val(v)])]
    /\ UNCHANGED <<host, cur, pending, rejected, begun, used, refusals, artifact>>

RunLoad == Load /\ UNCHANGED <<host, cur, rec, pending, rejected, begun, used, refusals, artifact>>

\* begin_experiment, then create_engine: an engine that cannot be built ends the whole run.
Begin(c) ==
    /\ Take(c)
    /\ cur' = c
    /\ begun' = begun \union {c}
    /\ rec' = Recorded(begin_experiment(c), c, Read(c, "new"))
    /\ used' = Uses(c, Read(c, "new"))
    /\ artifact' = {}
    /\ stage' = IF Fails(c) THEN "refused" ELSE "shards"
    /\ UNCHANGED <<host, pending, rejected, refusals>>

\* resolved_number_of_shards: OpenSearch uses what is declared, Elasticsearch pins it.
Shards ==
    LET v == <<cur.engine, "number_of_shards">>
        declared == cur.extra.key = "number_of_shards"
        val == IF cur.engine = "opensearch" /\ declared THEN cur.extra.val ELSE "default"
    IN
    /\ stage = "shards"
    /\ stage' = "upload"
    /\ IF cur.engine \in {"opensearch", "elasticsearch"}
       THEN /\ rec' = [rec EXCEPT
                        !.effective = record_effective(rec, [x \in {v} |-> val]),
                        !.overridden = note_override(rec,
                            IF cur.engine = "elasticsearch" /\ declared
                            THEN {[key |-> "number_of_shards", declared |-> cur.extra.val,
                                   effective |-> val]} ELSE {})]
            /\ used' = used \union {[var |-> v, how |-> "shards", val |-> val]}
       ELSE UNCHANGED <<rec, used>>
    /\ UNCHANGED <<inputs, skipped, todo, host, cur, pending, rejected, begun, refusals, artifact>>

Upload ==
    /\ stage = "upload"
    /\ stage' = "uploaded"
    /\ rec' = Recorded(rec, cur, Read(cur, "upload"))
    /\ used' = used \union Uses(cur, Read(cur, "upload"))
    /\ pending' = cur.policies
    /\ UNCHANGED <<inputs, skipped, todo, host, cur, rejected, begun, refusals, artifact>>

SaveUpload ==
    /\ stage = "uploaded"
    /\ Save("upload", {"upload"})
    /\ stage' = IF Aborts THEN "refused" ELSE "search"
    /\ UNCHANGED <<inputs, skipped, todo, host, cur, pending, rejected, begun, used, refusals>>

\* One search; a Redis hybrid search also records the policy it resolved.
Search(p) ==
    LET v == <<"redis", "hybrid_policy">>
        read == Recorded(rec, cur, Read(cur, "search"))
    IN
    /\ stage = "search"
    /\ p \in pending
    /\ pending' = pending \ {p}
    /\ IF p = "none"
       THEN /\ rec' = read
            /\ used' = used \union Uses(cur, Read(cur, "search"))
       ELSE /\ rec' = [read EXCEPT !.effective = record_effective(read, [x \in {v} |-> p])]
            /\ used' = used \union Uses(cur, Read(cur, "search"))
                            \union {[var |-> v, how |-> "policy", val |-> p]}
    /\ artifact' = {}
    /\ UNCHANGED <<inputs, stage, skipped, todo, host, cur, rejected, begun, refusals>>

\* The result files of all searches are written after the last one.
SaveSearches ==
    /\ stage = "search"
    /\ pending = {}
    /\ Save("search", cur.policies)
    /\ stage' = IF Aborts THEN "refused" ELSE "summary"
    /\ UNCHANGED <<inputs, skipped, todo, host, cur, pending, rejected, begun, used, refusals>>

SaveSummary ==
    /\ stage = "summary"
    /\ Save("run", {"summary"})
    /\ stage' = IF Aborts THEN "refused" ELSE "next"
    /\ UNCHANGED <<inputs, skipped, todo, host, cur, pending, rejected, begun, used, refusals>>

record_rejected_experiment(c) == rejected \union {c}

\* The reuse check (or the update check) refuses the experiment; the sweep may go on.
Reject ==
    /\ stage = "upload"
    /\ rejected' = record_rejected_experiment(cur)
    /\ refusals' = refusals \union {cur}
    /\ stage' \in {"next", "refused"}
    /\ UNCHANGED <<inputs, skipped, todo, host, cur, rec, pending, begun, used, artifact>>

\* Any other failure of the experiment, with or without --exit-on-error.
Fail ==
    /\ stage \in {"shards", "upload", "uploaded", "search", "summary"}
    /\ stage' \in IF stage = "shards" THEN {"refused"} ELSE {"next", "refused"}
    /\ artifact' = {}
    /\ UNCHANGED <<inputs, skipped, todo, host, cur, rec, pending, rejected, begun, used, refusals>>

Finish ==
    /\ stage = "next"
    /\ todo = {}
    /\ stage' = "ok"
    /\ artifact' = {}
    /\ UNCHANGED <<inputs, skipped, todo, host, cur, rec, pending, rejected, begun, used, refusals>>

\* The budget is looked at before each experiment: the run ends well with the rest not
\* started, and says how many on stderr only.
OutOfBudget ==
    /\ stage = "next"
    /\ budget /\ todo # {}
    /\ stage' = "ok"
    /\ artifact' = {}
    /\ UNCHANGED <<inputs, skipped, todo, host, cur, rec, pending, rejected, begun, used, refusals>>

Next ==
    \/ RunLoad
    \/ run_guard
    \/ \E c \in todo : Begin(c)
    \/ Shards
    \/ Upload
    \/ SaveUpload
    \/ \E p \in pending : Search(p)
    \/ SaveSearches
    \/ SaveSummary
    \/ Reject
    \/ Fail
    \/ Finish
    \/ OutOfBudget

Spec == Unstarted /\ [][Next]_vars

-----------------------------------------------------------------------------
\* What a reader of the block concludes the engine worked with: the resolved value if it
\* was recorded, else the variable's text, else the declared value, else the default.
Concludes(b, u) ==
    LET key == IF u.how = "shards" THEN "number_of_shards" ELSE "parallel"
        decl == {d.val : d \in {x \in b.declared : x.key = key}}
    IN  IF u.var \in DOMAIN b.effective THEN b.effective[u.var]
        ELSE IF u.var \in DOMAIN b.env /\ b.env[u.var] # "unset" THEN b.env[u.var]
        ELSE IF u.how = "config" /\ decl # {"unset"} THEN CHOOSE d \in decl : TRUE
        ELSE "default"

Shown(u) ==
    IF is_secret(u.var[2]) /\ u.val = "default"
    THEN {"default", "redacted default"} ELSE {scrub(u.val, is_secret(u.var[2]))}

\* The block of every artifact is about the experiment that wrote it and explains it: it
\* names no setting the experiment did not resolve, its declared keys are the
\* configuration's own, and from it a reader concludes the value the engine received (for
\* a setting several searches resolve, the value of one of them), save for the settings of
\* connection_params, which no block carries.
ArtifactExplainsRun ==
    \A a \in artifact :
        /\ a.block.declared =
                {scrub_declared(d) : d \in {[key |-> "parallel", val |-> cur.decl], cur.extra}}
        /\ DOMAIN a.block.effective \subseteq {u.var : u \in used}
        /\ DOMAIN a.block.env \subseteq {u.var : u \in used}
        /\ \A u \in {x \in used : x.how # "connection"} :
                Concludes(a.block, u) \in UNION {Shown(w) : w \in {x \in used : x.var = u.var}}

\* No credential leaves the process in the clear, whichever way it came in: neither a plain
\* token under a credential's name nor a connection string under any name is a leaf of a
\* published block, and the last walk over the block never has to stop the run.
NoCredentialPublished ==
    \A a \in artifact :
        LET b == a.block
            leaves == {b.invocation} \union {d.val : d \in b.declared} \union {d.key : d \in b.declared}
                      \union {b.effective[v] : v \in DOMAIN b.effective}
                      \union {b.env[v] : v \in DOMAIN b.env}
                      \union (UNION {{o.key, o.declared, o.effective} : o \in b.overridden})
                      \union b.ignored
        IN  /\ leaves \intersect {"tok", "dsn", "hnsw.dsn"} = {}
            /\ assert_no_cleartext_secrets(b)

\* What a reader who has the command line and a summary takes the run to be: the named
\* configurations of the files the summary does not list as skipped, and, of these, the
\* ones --skip-vector-index can run at all when the block records that flag.
Announced(missing) ==
    {c \in configs : /\ c.file \notin missing /\ c.wanted /\ c.engine \in supported_engines
                     /\ scalar => c.engine \in supports_skip_vector_index}

\* A sweep never shrinks in silence: every summary lists the files whose configurations are
\* missing and the experiments refused before it, and a run that ends well began every
\* experiment announced.  Two ways of shrinking are on stderr and on the command line only:
\* without --timeout nothing announced is missing, with it the rest may not have started.
NoSilentShrink ==
    /\ \A a \in artifact :
            a.phase = "run" => a.skipped = {c.file : c \in configs} \intersect broken /\ refusals \subseteq a.rejected
    /\ stage = "ok" =>
            /\ begun \subseteq Announced(skipped)
            /\ ~budget => begun = Announced(skipped)

\* No experiment addresses the index another configuration of the run built on the same
\* engine, where building one means dropping what is there.  The guard compares the names
\* the files give; the experiment works under the name it has when it begins.
OwnNamespace ==
    \A c, d \in begun :
        c # d /\ c.engine = d.engine /\ c.engine \in Destructive => Addressed(c) # Addressed(d)

\* An artifact says what happened and no more: the settings that were in force in its own
\* experiment, and none of the credentials that came with them.
ArtifactHonest == ArtifactExplainsRun /\ NoCredentialPublished

\* The sweep that was asked for is the one that ran: nothing dropped out of it unreported but
\* what the operator's --timeout cut off, and no configuration worked on another's index.
PlanKept == NoSilentShrink /\ OwnNamespace

==============================================================================
