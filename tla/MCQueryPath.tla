---------------------------- MODULE MCQueryPath -----------------------------
(***************************************************************************)
(* A filtered query from the dataset's conditions to the scored reply: the *)
(* filter builders of every engine, against every single leaf, every pair  *)
(* of leaves under `and` and under `or` and the shapes that pairs do not   *)
(* reach; and one value of every declared type, through the index, the two *)
(* write paths, the query and its reply.  `half` says which is explored.   *)
(***************************************************************************)
EXTENDS QueryPath, Filters

VARIABLE half

Row(name, index, stored, literal, fails) ==
  [name |-> name, index |-> index, stored |-> stored, updated |-> stored,
   mixed |-> FALSE, literal |-> literal, fails |-> fails, retries |-> FALSE]

OfField(Op(_)) == [f \in Fields |-> Op(f)]

Mixed(row, updated) == [row EXCEPT !.mixed = TRUE, !.updated = updated]

RedisRow == Mixed(Row("redis", RedisIndex, OfField(HashFields), RedisLiteral, RedisReply), OfField(HsetSingle))

MCEngines ==
  {RedisRow,
   Mixed(Row("valkey", ValkeyIndex, OfField(ValkeyStored), ValkeyLiteral, ValkeyReply), OfField(ValkeyHsetSingle)),
   Row("dragonfly", DragonflyIndex, OfField(DragonflyStored), DragonflyLiteral, DragonflyReply),
   Row("kividb", KividbIndex(TRUE), OfField(KividbStored), KividbLiteral, KividbReply),
   Row("kividb", KividbIndex(FALSE), OfField(KividbStored), KividbLiteral, KividbReply),
   [Row("opensearch", OpenSearchIndex, OfField(OpenSearchStored), OpenSearchLiteral, OpenSearchReply) EXCEPT !.retries = TRUE],
   Row("elasticsearch", ElasticsearchIndex, OfField(LuceneStored), ElasticsearchLiteral, ElasticsearchReply),
   Row("qdrant", QdrantIndex, OfField(QdrantStored), QdrantLiteral, QdrantReply),
   Row("milvus", MilvusIndex, OfField(MilvusStored), MilvusLiteral, MilvusReply),
   Row("weaviate", WeaviateIndex, OfField(WeaviateStored), WeaviateLiteral, WeaviateReply),
   Mixed(Row("mongodb", MongoIndex, OfField(MongoStored), MongoLiteral, MongoReply), OfField(MongoStored)),
   Mixed(Row("mongodb", MongoSearchIndex, OfField(MongoStored), MongoLiteral, MongoReply), OfField(MongoStored)),
   Row("pgvector", PgIndex, OfField(PgStored), PgLiteral, PgReply),
   Row("chroma", Schemaless, OfField(ChromaStored), ChromaLiteral, ChromaReply),
   Row("turbopuffer", Schemaless, OfField(TurbopufferStored), TurbopufferLiteral, TurbopufferReply),
   Mixed(Row("vectorsets", Schemaless, OfField(VectorSetsStored), VectorSetsLiteral, VectorSetsReply), OfField(VectorSetsStored)),
   Mixed(Row("vertex", Schemaless, OfField(VertexStored), VertexLiteral, VertexReply), OfField(VertexStored))}

-----------------------------------------------------------------------------
Search(name, parts, strict) ==
  [name |-> name, parts |-> parts, strict |-> strict, binary |-> name = "weaviate",
   untranslatable |-> WeaviateUntranslatable]

MCSearches ==
  {Search("redis", {Redis}, FALSE), Search("dragonfly", {Dragonfly}, FALSE),
   Search("valkey", {Valkey}, FALSE),
   Search("kividb", {Kividb(TRUE)}, TRUE), Search("kividb_no_tags", {Kividb(FALSE)}, TRUE),
   Search("elasticsearch", {Elasticsearch}, FALSE), Search("opensearch", {OpenSearch}, FALSE),
   Search("milvus", {Milvus}, FALSE),
   Search("mongodb", {Mongo}, FALSE), Search("mongodb_search", {MongoSearch}, FALSE),
   Search("pgvector", {Pg}, FALSE), Search("qdrant", {Qdrant}, TRUE),
   Search("vectorsets", {VectorSets}, FALSE), Search("turbopuffer", {Turbopuffer}, FALSE),
   Search("chroma", {ChromaWhere, ChromaDocument}, FALSE), Search("weaviate", {Weaviate}, FALSE),
   Search("vertex", {Vertex}, FALSE)}

One(k, n) == Entry(<<Leaf(k, n, n)>>)
And(es) == ("and" :> es)
Or(es)  == ("or" :> es)
Both(as, os) == And(as) @@ Or(os)

Common == {"int", "text", "rangeNum", "rangeHalf", "noKey", "anyEmpty"}
Few    == {"str", "text", "rangeNone"}

Singles == {Tree(a) : a \in UNION {{And(<<One(k, 1)>>), Or(<<One(k, 1)>>)} : k \in Kinds}}
Pairs   == {Tree(g) : g \in UNION {{And(<<One(k, 1), One(m, 2)>>), Or(<<One(k, 1), One(m, 2)>>)} :
                                    k \in Kinds, m \in Common}}
Arms    == {Tree(Both(<<One(k, 1)>>, <<One(m, 2), One(n, 3)>>)) : k, m, n \in Few}
Nests   == UNION {{Tree(And(<<One(k, 1), Nested(Or(<<One(m, 2), One(n, 3)>>))>>)),
                   Tree(Or(<<One(k, 1), Nested(And(<<One(m, 2), One(n, 3)>>))>>)),
                   Tree(Or(<<Nested(Both(<<One(k, 1)>>, <<One(m, 2)>>)), One(n, 3)>>))} :
                   k, m, n \in Few}
Several == UNION {{Tree(And(<<Entry(<<Leaf(k, f, 1), Leaf(m, 2, 2)>>), One("int", 3)>>)),
                   Tree(Or(<<Entry(<<Leaf(k, f, 1), Leaf(m, 2, 2)>>), One("int", 3)>>))} :
                   k \in {"str", "geo", "noKey"}, m \in {"rangeNum", "other"}, f \in {1, 2}}
Empties == {Tree(And(<<>>)), Tree(Or(<<>>)), Tree([a \in {} |-> <<>>]), Absent,
            Tree(And(<<Nested(And(<<>>))>>)), Tree(And(<<One("int", 1), Nested(Or(<<>>))>>)),
            Tree(Both(<<One("int", 1)>>, <<>>))}
AnyTree == Singles \cup Pairs \cup Arms \cup Nests \cup Several \cup Empties

MCQueries == {<<t>> : t \in AnyTree} \cup {<<s, t>> : s \in {Absent, Tree(And(<<One("int", 1)>>))}, t \in Empties}

-----------------------------------------------------------------------------
MCInit ==
  \/ /\ half = "filter" /\ FilterInit
     /\ engine = RedisRow /\ field = "int" /\ stage = "refused" /\ doc = "absent" /\ reply = "none" /\ retried = 0
  \/ /\ half = "query" /\ Init
     /\ search = Search("redis", {Redis}, FALSE) /\ queries = <<>> /\ resolved = <<>>
     /\ status = "refused" /\ binary = FALSE

MCNext ==
  \/ half = "filter" /\ FilterNext /\ UNCHANGED <<half, vars>>
  \/ half = "query" /\ Next /\ UNCHANGED <<half, filterVars>>

MCSpec == MCInit /\ [][MCNext]_<<half, vars, filterVars>>

=============================================================================
