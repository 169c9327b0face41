--------------------------- MODULE SearchEngines ----------------------------
(***************************************************************************)
(* What tells the search harnesses of the engines apart, one row per       *)
(* search function:                                                        *)
(*   gated     its workers start through the start gate, and a worker that *)
(*             cannot be set up fails the run;                             *)
(*   timed     it has the open-loop and fixed-duration modes;              *)
(*   capped    it starts no more workers than there are queries;           *)
(*   zero      it reports a run that only failed or shed queries;          *)
(*   stats     it fails when the server counted a failed command;          *)
(*   captures  it records per-query answers for --dump-results;            *)
(*   rowCheck  an answer that maps to no corpus row ends the worker;       *)
(*   mixed     its workers alternate searches and updates;                 *)
(*   dialEnds  its client bounds the set-up of a worker by a timeout, or   *)
(*             the set-up sends nothing;                                   *)
(*   callEnds  its client bounds every query and update by a timeout.      *)
(***************************************************************************)

Row(set) ==
  [gated |-> "gated" \in set, timed |-> "timed" \in set, capped |-> "capped" \in set,
   zero |-> "zero" \in set, stats |-> "stats" \in set, captures |-> "captures" \in set,
   rowCheck |-> "rowCheck" \in set, mixed |-> "mixed" \in set,
   dialEnds |-> "dialEnds" \in set, callEnds |-> "callEnds" \in set]

Redis           == Row({"gated", "timed", "zero", "stats", "captures", "callEnds"})
RedisFilterOnly == Row({"gated", "stats", "captures", "rowCheck", "callEnds"})
RedisMixed      == Row({"stats", "mixed"})
Valkey          == Row({"gated", "stats"})
ValkeyFilter    == Row({"stats"})
ValkeyMixed     == Row({"stats", "mixed", "callEnds"})
Dragonfly       == Row({"gated", "stats", "callEnds"})
Kividb          == Row({"gated", "stats", "callEnds"})
VectorSets      == Row({"gated", "stats"})
VectorSetsMixed == Row({"stats", "mixed"})
OpenSearch      == Row({"gated", "captures", "rowCheck", "dialEnds", "callEnds"})
Elasticsearch   == Row({"gated", "dialEnds", "callEnds"})
Qdrant          == Row({"gated", "dialEnds", "callEnds"})
Milvus          == Row({"gated", "dialEnds", "callEnds"})
Weaviate        == Row({"gated", "dialEnds", "callEnds"})
WeaviateGrpc    == Row({"gated", "dialEnds", "callEnds"})
MongoDB         == Row({"gated"})
MongoDBFilter   == Row({"gated"})
MongoDBMixed    == Row({"gated", "mixed"})
PgVector        == Row({"gated"})
Chroma          == Row({"gated", "dialEnds", "callEnds"})
Turbopuffer     == Row({"capped", "dialEnds"})
Vertex          == Row({"gated", "timed", "capped", "zero", "dialEnds", "callEnds"})
VertexMixed     == Row({"gated", "capped", "mixed", "dialEnds", "callEnds"})

Gated ==
  {Redis, RedisFilterOnly, Valkey, Dragonfly, Kividb, VectorSets, OpenSearch,
   Elasticsearch, Qdrant, Milvus, Weaviate, WeaviateGrpc, MongoDB, MongoDBFilter,
   MongoDBMixed, PgVector, Chroma, Vertex, VertexMixed}
Ungated == {RedisMixed, ValkeyFilter, ValkeyMixed, VectorSetsMixed, Turbopuffer}
AllHarnesses == Gated \cup Ungated

=============================================================================
