----------------------------- MODULE EngineKnobs -----------------------------
(***************************************************************************)
(* The settings every engine resolves, and how: one table entry per engine *)
(* constructor, with what its connections, its upload and its searches      *)
(* read on top.  A knob is [name, how, at, unless]: the variable (without   *)
(* the engine's prefix), the reader of effective_config.rs or the chain of  *)
(* sources the engine applies itself, the phase that reads it, and the      *)
(* variable whose presence makes the engine skip it.                        *)
(*                                                                         *)
(*   parsed    env_parsed: text that does not parse loses to the default    *)
(*   or        env_or: the text as it stands, or the default                *)
(*   flag      env_flag: one accepted spelling, anything else stays off     *)
(*   present   env_present: set to anything                                 *)
(*   opt       env_opt: a blank text is no text                             *)
(*   raw       env_var: only the text is recorded                           *)
(*   required  env_var, and construction fails when it is unset             *)
(*   choice    env_or, and construction fails on an unknown spelling        *)
(*   secs      parse_env_secs: recorded when set, fails when malformed      *)
(*   env_first the variable, then the configuration, then the default       *)
(*   config_first  the configuration, then the variable                     *)
(*   strict_config_first  the same, a malformed variable fails              *)
(*   config    the configuration, then the default: nothing is recorded     *)
(*   connection  the same from connection_params                            *)
(*   wait      INDEXING_WAIT_SECS, parsed once per process                  *)
(*   clamped   env_parsed, and zero loses to the default                    *)
(***************************************************************************)
LOCAL Knob(n, how, at) == [name |-> n, how |-> how, at |-> at, unless |-> "none"]
LOCAL New(hows) == {Knob(n, hows[n], "new") : n \in DOMAIN hows}
LOCAL Sizes == New([parallel |-> "config", batch_size |-> "config"])

\* The connection of the engines that share build_redis_url: a URI ends it.
build_redis_url ==
    {Knob("URI", "raw", "new")} \union
    {[Knob("PORT", "parsed", "new") EXCEPT !.unless = "URI"],
     [Knob("AUTH", "raw", "new") EXCEPT !.unless = "URI"],
     [Knob("USER", "raw", "new") EXCEPT !.unless = "URI"]}

derive_index_name == New([INDEX_NAME |-> "or", INDEX_NAME_EXACT |-> "flag"])

WireConnect == {Knob("AUTH", "raw", "upload"), Knob("USER", "raw", "upload")}
WireSearch == {Knob("INDEXING_WAIT_SECS", "wait", "upload"), Knob("QUERY_TIMEOUT", "parsed", "search")}

redis_new ==
    build_redis_url \union derive_index_name \union Sizes \union
    New([cluster_api |-> "strict_config_first", svs_reduce |-> "config_first", KEY_PREFIX |-> "opt"])
redis_phases == WireSearch \union {Knob("HYBRID_POLICY", "or", "search")}

vectorsets_new == build_redis_url \union derive_index_name \union Sizes

valkey_new == derive_index_name \union Sizes \union New([PORT |-> "parsed"])
valkey_phases ==
    WireConnect \union WireSearch \union
    {Knob("PROTOCOL", "flag", "upload"), Knob("HYBRID_POLICY", "or", "search")}

EnvFirstSizes == New([PORT |-> "parsed", upload_parallel |-> "env_first", upload_batch_size |-> "env_first"])
dragonfly_new == derive_index_name \union EnvFirstSizes
dragonfly_phases == WireConnect \union WireSearch \union {Knob("PROTOCOL", "flag", "upload")}
kividb_new == derive_index_name \union EnvFirstSizes
kividb_phases == WireConnect \union WireSearch

opensearch_new ==
    Sizes \union
    New([PORT |-> "parsed", INDEX |-> "or", TIMEOUT |-> "parsed", USER |-> "or", PASSWORD |-> "or",
         FORCE_MERGE_TIMEOUT |-> "secs", FORCE_MERGE_BUDGET |-> "secs"])
opensearch_phases ==
    {Knob("BULK_MAX_RETRIES", "parsed", "upload"), Knob("BULK_RETRY_BASE_MS", "parsed", "upload"),
     Knob("SEARCH_MAX_RETRIES", "parsed", "search"), Knob("SEARCH_RETRY_BUDGET_MS", "parsed", "search")}
elasticsearch_new ==
    Sizes \union
    New([PORT |-> "parsed", INDEX |-> "or", TIMEOUT |-> "parsed",
         API_KEY |-> "raw", USER |-> "or", PASSWORD |-> "or"])
qdrant_new ==
    Sizes \union {[Knob("REST_PORT", "parsed", "new") EXCEPT !.unless = "REST_URL"]} \union
    New([GRPC_PORT |-> "parsed", COLLECTION_NAME |-> "or", API_KEY |-> "raw",
         URL |-> "raw", REST_URL |-> "raw", timeout |-> "connection"])
qdrant_phases == {Knob("GREEN_WAIT_SECS", "parsed", "upload")}
milvus_new == Sizes \union New([PORT |-> "parsed", COLLECTION_NAME |-> "or", TIMEOUT |-> "parsed"])
milvus_phases == {Knob("INDEX_BUILD_TIMEOUT", "parsed", "upload")}
weaviate_new ==
    Sizes \union New([HTTP_PORT |-> "parsed", CLASS_NAME |-> "or", API_KEY |-> "raw",
                      GRPC_PORT |-> "parsed", timeout_config |-> "connection"])
weaviate_phases == {Knob("USE_GRAPHQL", "present", "search")}
pgvector_new == Sizes \union New([PORT |-> "parsed", DB |-> "or", USER |-> "or", PASSWORD |-> "or"])
chroma_new ==
    Sizes \union New([PORT |-> "parsed", COLLECTION |-> "or", TENANT |-> "or",
                      DATABASE |-> "or", TIMEOUT |-> "parsed"])
turbopuffer_new == Sizes \union New([API_KEY |-> "required", NAMESPACE |-> "or"])
mongodb_new ==
    Sizes \union New([PORT |-> "parsed", DB |-> "or", USER |-> "raw", PASSWORD |-> "raw",
                      COLLECTION |-> "or", COLLECTION_EXACT |-> "flag",
                      num_candidates_factor |-> "config"])
vertex_new ==
    Sizes \union
    New([PROJECT |-> "required", REGION |-> "or", MACHINE_TYPE |-> "or", INDEX_DISPLAY_NAME |-> "or",
         DEPLOY_TIMEOUT_SECS |-> "parsed", APPROX_NEIGHBORS |-> "parsed", SHARD_SIZE |-> "opt",
         QUERY_TRANSPORT |-> "choice", GCS_STAGING_BUCKET |-> "opt", BATCH_THRESHOLD |-> "parsed"])
vertex_phases ==
    {Knob("ACCESS_TOKEN", "raw", "upload"), Knob("SYNC_TIMEOUT_SECS", "parsed", "upload"),
     Knob("SYNC_POLL_SECS", "clamped", "upload")}

create_engine ==
    [redis |-> redis_new \union redis_phases, vectorsets |-> vectorsets_new,
     valkey |-> valkey_new \union valkey_phases, dragonfly |-> dragonfly_new \union dragonfly_phases,
     kividb |-> kividb_new \union kividb_phases, opensearch |-> opensearch_new \union opensearch_phases,
     elasticsearch |-> elasticsearch_new, qdrant |-> qdrant_new \union qdrant_phases,
     milvus |-> milvus_new \union milvus_phases, weaviate |-> weaviate_new \union weaviate_phases,
     pgvector |-> pgvector_new, chroma |-> chroma_new, turbopuffer |-> turbopuffer_new,
     mongodb |-> mongodb_new, vertex |-> vertex_new \union vertex_phases]

supported_engines == DOMAIN create_engine

\* Redis and VectorSets read the same REDIS_* connection variables; the wait is everyone's.
Prefix(e, n) ==
    IF n = "INDEXING_WAIT_SECS" THEN "any"
    ELSE IF e = "vectorsets" /\ n \in {k.name : k \in build_redis_url} THEN "redis" ELSE e
Var(e, n) == <<Prefix(e, n), n>>

\* Variables whose names carry a marker of SECRET_MARKERS.
is_secret(n) == n \in {"AUTH", "API_KEY", "PASSWORD", "ACCESS_TOKEN", "api_key"}

\* The readers of the table above.
Readers == {"parsed", "or", "flag", "present", "opt", "raw", "required", "choice", "secs", "env_first", "config_first",
            "strict_config_first", "config", "connection", "wait", "clamped"}

\* What the constructors have in common: an engine reads a setting in one place, and a
\* credential only through readers that know no other text for it than its own.
ASSUME KnobsAssumption ==
    \A e \in supported_engines : \A k \in create_engine[e] :
        /\ k.how \in Readers
        /\ \A l \in create_engine[e] : l.name = k.name => l = k
        /\ is_secret(k.name) => k.how \in {"raw", "required", "or", "opt"}
        /\ k.name \notin {"number_of_shards", "hybrid_policy", "tok", "dsn", "hnsw.dsn"}

\* The engines whose configurations own a namespace on the server, and its base variable.
Destructive == {"redis", "valkey", "dragonfly", "kividb", "vectorsets", "mongodb"}
BaseEnv(e) == IF e = "mongodb" THEN "COLLECTION" ELSE "INDEX_NAME"
ExactEnv(e) == IF e = "mongodb" THEN "COLLECTION_EXACT" ELSE "INDEX_NAME_EXACT"
==============================================================================
