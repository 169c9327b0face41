-------------------------- MODULE LifecycleEngines --------------------------
(***************************************************************************)
(* The requests of configure(), upload(), search() and delete() of each    *)
(* engine whose index phase has no module of its own, with what the code   *)
(* tolerates of each.  "indexes" are the ones the server builds in the     *)
(* background, "uses" the facts a query is made from, "keyed" says that    *)
(* documents are keys, which may be there without an index, "keysOutlive"  *)
(* that dropping the index leaves them, "implicit" that the first write    *)
(* creates the collection, "own" that every run has a collection of its    *)
(* own, "reused" that the operator pointed the engine at a deployed index, *)
(* "bounded" that the client gives up on a request by itself; "rows" is    *)
(* what corpus_row_count answers.                                          *)
(***************************************************************************)
EXTENDS Lifecycle

Row(name, configure, upload, search, delete) ==
  [name |-> name, configure |-> configure, upload |-> upload, search |-> search, delete |-> delete,
   indexes |-> {}, uses |-> {}, keyed |-> FALSE, keysOutlive |-> FALSE, implicit |-> FALSE, own |-> FALSE,
   reused |-> FALSE, bounded |-> TRUE, rows |-> "none"]

(********************************** Qdrant *********************************)
QdrantDeleteCollection    == Drop(Whatever)
QdrantCreateCollection    == CreateWith({"vector"}, "conflict")
QdrantDisableOptimizers   == Hold
QdrantCreatePayloadIndexes == Index({"payload"}, {})
QdrantConfigure == <<QdrantDeleteCollection, QdrantCreateCollection, QdrantDisableOptimizers, QdrantCreatePayloadIndexes>>
QdrantWaitCollectionGreen == <<Release, [Await("idle", "ignored") EXCEPT !.confirm = 2]>>
QdrantUpload == <<Load>> \o QdrantWaitCollectionGreen
QdrantRows == "exact"
Qdrant == [Row("qdrant", QdrantConfigure, QdrantUpload, <<>>, <<QdrantDeleteCollection>>)
             EXCEPT !.indexes = {"vector", "payload"}, !.rows = QdrantRows]

(* sparse, hybrid and multivector collections have vectors of other names  *)
QdrantCreateSparse      == CreateWith({"sparse"}, "conflict")
QdrantCreateHybrid      == CreateWith({"dense", "sparse"}, "conflict")
QdrantCreateMultivector == CreateWith({"colbert"}, "conflict")
QdrantUploadSparse      == <<Load>> \o QdrantWaitCollectionGreen
QdrantUploadHybrid      == <<Load>> \o QdrantWaitCollectionGreen
QdrantUploadMultivector == <<Load>> \o QdrantWaitCollectionGreen
QdrantVariant(name, create, upload) ==
  [Qdrant EXCEPT !.name = name, !.upload = upload, !.indexes = create.names \cup {"payload"},
     !.configure = <<QdrantDeleteCollection, create, QdrantDisableOptimizers, QdrantCreatePayloadIndexes>>]
QdrantVariants ==
  {QdrantVariant("qdrant_sparse", QdrantCreateSparse, QdrantUploadSparse),
   QdrantVariant("qdrant_hybrid", QdrantCreateHybrid, QdrantUploadHybrid),
   QdrantVariant("qdrant_multivector", QdrantCreateMultivector, QdrantUploadMultivector)}

(********************************** Milvus *********************************)
(* the status of a drop and the body of an index creation are not read;    *)
(* a collection of the same schema may be created again                    *)
MilvusDropCollection   == Drop({"refused", "bodyRefused"})
MilvusCreateCollection == Create("keep")
MilvusFlush            == Ask
MilvusCreateIndex      == Index({"vector"}, {"bodyRefused"})
MilvusScalarIndexes    == Index({"scalar"}, {})
MilvusWaitForIndexes   == Await("described", "fatal")
MilvusLoadCollection   == <<Open({"refused", "bodyRefused"}), Await("open", "ignored")>>
MilvusMetric           == Learn({"metric"})
MilvusConfigure == <<MilvusMetric, MilvusDropCollection, MilvusCreateCollection>>
MilvusUpload == <<Load, MilvusFlush, MilvusCreateIndex, MilvusScalarIndexes, MilvusWaitForIndexes>> \o MilvusLoadCollection
Milvus == [Row("milvus", MilvusConfigure, MilvusUpload, <<MilvusMetric>>, <<MilvusDropCollection>>)
             EXCEPT !.indexes = {"vector", "scalar"}, !.uses = {"metric"}]

(********************************* Weaviate ********************************)
WeaviateDeleteClass == Drop({})
WeaviateCreateClass == Create("conflict")
WeaviateSetupSearch == Ask
Weaviate == Row("weaviate", <<WeaviateDeleteClass, WeaviateCreateClass>>, <<Load>>, <<WeaviateSetupSearch>>,
                <<WeaviateDeleteClass>>)

(********************************** Chroma *********************************)
ChromaDropCollection   == Drop(Whatever)
ChromaCreateCollection == <<Create("keep"), Learn({"collection"})>>
ChromaResolveCollection == <<Find({"collection"})>>
Chroma == [Row("chroma", <<ChromaDropCollection>> \o ChromaCreateCollection, <<Load>>, ChromaResolveCollection,
               <<ChromaDropCollection>>)
             EXCEPT !.uses = {"collection"}]

(******************************* Turbopuffer *******************************)
TurbopufferConfigure == <<Learn({"metric"}), Drop(Whatever)>>
TurbopufferDelete    == <<Drop({})>>
Turbopuffer == [Row("turbopuffer", TurbopufferConfigure, <<Load>>, <<Learn({"metric"})>>, TurbopufferDelete)
                  EXCEPT !.uses = {"metric"}, !.implicit = TRUE, !.bounded = FALSE]

(********************************* MongoDB *********************************)
(* drop_collection waits for what it dropped to disappear, and goes on     *)
(* when it does not; configure() ignores all of it, creating the           *)
(* collection does not.  The index is made over a document that is taken   *)
(* away again.                                                             *)
MongoDropCollection == <<Drop({}), [Await("gone", "ignored") EXCEPT !.giveUp = "proceed"]>>
MongoDropIgnored    == <<Drop(Whatever)>>
MongoCreateVectorIndex == <<Index({"vector"}, {}), Await("exists", "ignored")>>
MongoConfigure ==
  MongoDropIgnored \o <<Create("conflict"), Insert({"dummy"})>> \o MongoCreateVectorIndex \o <<Remove({"dummy"})>>
MongoWaitForCatchup == Await("corpus", "ignored")
MongoUpload == <<Load, MongoWaitForCatchup>>
MongoRows == "exact"
Mongo == [Row("mongodb", MongoConfigure, MongoUpload, <<>>, MongoDropCollection) EXCEPT !.indexes = {"vector"}, !.rows = MongoRows,
    !.bounded = FALSE]

(********************************* pgvector ********************************)
(* one server process answers or the connection is gone; the index is      *)
(* created before the rows and maintained with them                        *)
PgConfigure == <<Learn({"operator"}), Drop({}), Create("conflict")>>
PgSearch    == <<Learn({"operator"})>>
PgDelete    == <<Drop({})>>
(* reltuples after ANALYZE *)
PgRows == "estimate"
Pgvector == [Row("pgvector", PgConfigure, <<Load>>, PgSearch, PgDelete) EXCEPT !.uses = {"operator"}, !.rows = PgRows,
    !.bounded = FALSE]

(********************** Redis, Valkey, Dragonfly, KiviDB *******************)
WaitForIndexing == Await("built", "fatal")
EnsureIndexExists == Ask
CommandstatsBaseline == LearnFrom({"commandstats"})

(* FT.DROPINDEX DD takes the keys of the index with it; without an index   *)
(* it fails, they stay, and the new index takes them in                    *)
RedisCreateIndex == <<Drop(Whatever), CreateWith({"ft"}, "conflict"), Ask>>
RedisConfigure   == <<Learn({"datetime"})>> \o RedisCreateIndex \o <<CommandstatsBaseline>>
RedisUpload      == <<Load, WaitForIndexing, Ask>>

RedisPrepareSearch == <<EnsureIndexExists, Learn({"datetime"}), CommandstatsBaseline>>
RedisDelete      == <<Drop(Whatever)>>
RedisRows == "exact"
Redis == [Row("redis", RedisConfigure, RedisUpload, RedisPrepareSearch, RedisDelete)
            EXCEPT !.indexes = {"ft"}, !.uses = {"datetime", "commandstats"}, !.rows = RedisRows,
              !.keyed = TRUE, !.bounded = FALSE]

(* REDIS_SHARED_CORPUS: the index is dropped without its documents, and    *)
(* enough keys under the shared prefix stand for the corpus                *)
RedisSharedUpload == <<ReuseIfComplete>> \o RedisUpload
RedisShared == [Redis EXCEPT !.name = "redis_shared", !.upload = RedisSharedUpload, !.keysOutlive = TRUE]

(* the text-tag-only layout never deletes: it needs an absent index and an *)
(* empty prefix, and is not torn down                                      *)
RedisReducedCreateIndex == <<Vacant, CreateWith({"ft"}, "conflict"), Ask>>
RedisReduced ==
  [Redis EXCEPT !.name = "redis_reduced", !.keysOutlive = TRUE, !.delete = <<Refuse>>,
     !.configure = <<Learn({"datetime"})>> \o RedisReducedCreateIndex \o <<CommandstatsBaseline>>]

DropIndexAndKeys == <<Drop(Whatever), DropKeys(Whatever)>>

ValkeyCreateIndex == DropIndexAndKeys \o <<CreateWith({"ft"}, "conflict")>>
ValkeyConfigure   == <<Learn({"datetime", "text"})>> \o ValkeyCreateIndex \o <<CommandstatsBaseline>>
ValkeyUpload      == <<Load, WaitForIndexing, Ask>>
ValkeySearch      == <<EnsureIndexExists, Learn({"datetime", "text"}), CommandstatsBaseline>>
ValkeyRows == "exact"
Valkey == [Row("valkey", ValkeyConfigure, ValkeyUpload, ValkeySearch, DropIndexAndKeys)
             EXCEPT !.indexes = {"ft"}, !.uses = {"datetime", "text", "commandstats"}, !.rows = ValkeyRows,
               !.keyed = TRUE, !.keysOutlive = TRUE, !.bounded = FALSE]

DragonflyCreateIndex == DropIndexAndKeys \o <<CreateWith({"ft"}, "conflict")>>
DragonflyConfigure   == DragonflyCreateIndex \o <<CommandstatsBaseline>>
DragonflyUpload      == <<Load, WaitForIndexing, Ask>>
DragonflySearch      == <<EnsureIndexExists, CommandstatsBaseline>>
DragonflyRows == "exact"
Dragonfly == [Row("dragonfly", DragonflyConfigure, DragonflyUpload, DragonflySearch, DropIndexAndKeys)
                EXCEPT !.indexes = {"ft"}, !.uses = {"commandstats"}, !.rows = DragonflyRows,
                  !.keyed = TRUE, !.keysOutlive = TRUE, !.bounded = FALSE]

KividbServerIdentity == LearnFrom({"tags"})
KividbCreateIndex == DropIndexAndKeys \o <<CreateWith({"ft"}, "conflict")>>
KividbConfigure   == <<KividbServerIdentity>> \o KividbCreateIndex \o <<CommandstatsBaseline>>
KividbUpload      == <<Load, WaitForIndexing, Ask>>
KividbSearch      == <<EnsureIndexExists, KividbServerIdentity, CommandstatsBaseline>>
KividbRows == "exact"
Kividb == [Row("kividb", KividbConfigure, KividbUpload, KividbSearch, DropIndexAndKeys)
             EXCEPT !.indexes = {"ft"}, !.uses = {"tags", "commandstats"}, !.rows = KividbRows,
               !.keyed = TRUE, !.keysOutlive = TRUE, !.bounded = FALSE]

VectorSetsConfigure == <<Drop(Whatever), CommandstatsBaseline>>
VectorSetsUpload    == <<Load, Ask>>
VectorSetsSearch    == <<CommandstatsBaseline>>
VectorSetsDelete    == <<Drop(Whatever)>>
VectorSetsRows == "exact"
VectorSets == [Row("vectorsets", VectorSetsConfigure, VectorSetsUpload, VectorSetsSearch, VectorSetsDelete)
                 EXCEPT !.uses = {"commandstats"}, !.implicit = TRUE, !.rows = VectorSetsRows, !.bounded = FALSE]

(********************************* Vertex AI *******************************)
(* Every run makes an index of its own, whatever others of the same        *)
(* display name there are; delete() takes away what it knows the name of.  *)
VertexPollOperation == Ask
VertexCreateIndex == <<CreateWith({"vector"}, "conflict"), VertexPollOperation, Learn({"index"})>>
VertexDeploy    == <<Ask, VertexPollOperation, Learn({"endpoint"})>>
VertexConfigure == VertexCreateIndex \o VertexDeploy
VertexReuse     == <<Learn({"index"}), LearnFrom({"endpoint"})>>
VertexWaitForSync == [Await("count", "ignored") EXCEPT !.giveUp = "proceed"]
VertexUpload    == <<Load, VertexWaitForSync>>
VertexSearch    == <<LearnFrom({"index"}), LearnFrom({"endpoint"})>>
VertexDelete    == <<[Drop(Whatever) EXCEPT !.when = "index"]>>
Vertex == [Row("vertex", VertexConfigure, VertexUpload, VertexSearch, VertexDelete)
             EXCEPT !.indexes = {"vector"}, !.uses = {"index", "endpoint"}, !.own = TRUE]
VertexReused == [Vertex EXCEPT !.name = "vertex_reused", !.configure = VertexReuse, !.delete = <<>>, !.own = FALSE, !.reused = TRUE]
VertexBatchUpload == <<Ask, Load, Await("built", "fatal")>>
VertexBatch == [Vertex EXCEPT !.name = "vertex_batch", !.upload = VertexBatchUpload]

=============================================================================
