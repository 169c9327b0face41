--------------------------- MODULE FilterDialects ---------------------------
(***************************************************************************)
(* What the filter builder of each engine makes of one condition of a      *)
(* dataset's filter tree, and how it puts the pieces together.  A leaf is  *)
(* known by its kind; a table gives its image:                             *)
(*   exact   a clause with the leaf's meaning                              *)
(*   none    a clause that no document satisfies                           *)
(*   all     a clause that every document satisfies                        *)
(*   wide    a clause that keeps only part of what the leaf asks           *)
(*   narrow  a clause that asks for more than the leaf                     *)
(*   server  a clause whose meaning the server decides: a default radius,  *)
(*           a bound passed on as it stands, an empty allow list           *)
(*   drop    no clause: the leaf is skipped                                *)
(*   entry   no clause for the whole entry the leaf is in                  *)
(*   err     the builder reports an error                                  *)
(* "shorthand" is a field whose value is no object, "notObject" an entry   *)
(* that is none; both are treated as leaves.                               *)
(***************************************************************************)
EXTENDS TLC

MatchKinds == {"str", "int", "float", "bool", "nonscalar", "noKey"}
AnyKinds   == {"anyInts", "anyStrs", "anyBools", "anyMixed", "anyEmpty"}
TextKinds  == {"text", "phrase", "blankText"}
RangeKinds == {"rangeNum", "rangeDate", "rangeHalf", "rangeNone"}
GeoKinds   == {"geo", "geoNoRadius", "geoBad"}
OddKinds   == {"other", "shorthand", "notObject"}
Kinds      == MatchKinds \cup AnyKinds \cup TextKinds \cup RangeKinds \cup GeoKinds \cup OddKinds

(* every kind of the set has this image *)
All(img, kinds) == [k \in kinds |-> img]

(***************************************************************************)
(* How a builder composes: "entry" says what becomes of the conditions of  *)
(* one entry ("flat": each is a clause of the arm; "and": their            *)
(* conjunction; "first": the first that has a clause; "last": a later      *)
(* condition replaces an earlier one on its field), "arms" which of `and`  *)
(* and `or` it reads, "nested" what it does with a group inside a group,   *)
(* "empty" whether an arm or group without a clause is skipped or an       *)
(* error, "geo" whether one geo condition makes it refuse the whole tree.  *)
(***************************************************************************)
Dialect(leaf, entry) ==
  [leaf |-> leaf, entry |-> entry, arms |-> "both", nested |-> "build",
   empty |-> "skip", geo |-> "leaf"]

(***************************** Redis, Dragonfly ****************************)
RedisAny   == [anyInts |-> "exact", anyStrs |-> "exact", anyBools |-> "none",
               anyMixed |-> "narrow", anyEmpty |-> "none"]
RedisExact == All("exact", {"str", "int", "float", "bool"}) @@ All("drop", {"nonscalar", "noKey"})
RedisText  == [text |-> "exact", phrase |-> "exact", blankText |-> "none"]
(* the bounds that can be read become one interval; none of them, no clause *)
RangeOf(bounds) == CASE bounds = {} -> "drop" [] "bad" \in bounds -> "wide" [] OTHER -> "exact"
RedisRange == [rangeNum |-> RangeOf({"num"}), rangeDate |-> RangeOf({"date"}),
               rangeHalf |-> RangeOf({"num", "bad"}), rangeNone |-> RangeOf({})]
RedisGeo   == [geo |-> "exact", geoNoRadius |-> "drop", geoBad |-> "drop"]
RedisLeaf  == RedisAny @@ RedisExact @@ RedisText @@ RedisRange @@ RedisGeo @@ All("drop", OddKinds)
Redis      == Dialect(RedisLeaf, "flat")

Dragonfly  == [Redis EXCEPT !.geo = "tree"]

(********************************** Valkey *********************************)
ValkeyAny   == RedisAny
ValkeyExact == RedisExact
ValkeyText  == [text |-> "exact", phrase |-> "wide", blankText |-> "none"]
ValkeyRange == RedisRange
ValkeyLeaf  == ValkeyAny @@ ValkeyExact @@ ValkeyText @@ ValkeyRange @@ All("drop", GeoKinds \cup OddKinds)
Valkey      == [Dialect(ValkeyLeaf, "flat") EXCEPT !.geo = "tree"]

(********************************** KiviDB *********************************)
KividbExact(tags) ==
  All("exact", {"int", "float"}) @@ All("err", {"nonscalar", "noKey"})
    @@ All(IF tags THEN "exact" ELSE "err", {"str", "bool"})
KividbAny(tags) ==
  [anyInts |-> "exact", anyStrs |-> IF tags THEN "exact" ELSE "err",
   anyBools |-> "err", anyMixed |-> "err", anyEmpty |-> "none"]
KividbText   == [text |-> "exact", phrase |-> "err", blankText |-> "none"]
KividbRange  == [rangeNum |-> "exact", rangeDate |-> "exact", rangeHalf |-> "err", rangeNone |-> "err"]
KividbLeaf(tags) ==
  KividbExact(tags) @@ KividbAny(tags) @@ KividbText @@ KividbRange @@ All("err", GeoKinds \cup OddKinds)
Kividb(tags) == Dialect(KividbLeaf(tags), "flat")

(************************ Elasticsearch, OpenSearch ************************)
ElasticsearchLeaf ==
  All("exact", {"str", "int", "float", "bool", "anyInts", "anyStrs", "anyBools", "anyMixed",
                "text", "phrase", "rangeNum", "rangeDate", "geo"})
    @@ All("none", {"anyEmpty", "blankText"}) @@ All("server", {"rangeHalf", "geoNoRadius"})
    @@ [rangeNone |-> "all"] @@ All("drop", {"nonscalar", "noKey", "geoBad"} \cup OddKinds)
Elasticsearch  == Dialect(ElasticsearchLeaf, "flat")
OpenSearchLeaf == ElasticsearchLeaf
OpenSearch     == Dialect(OpenSearchLeaf, "flat")

(********************************** Milvus *********************************)
MilvusLeaf ==
  All("exact", {"str", "int", "float", "bool", "anyInts", "anyStrs", "anyMixed",
                "text", "phrase", "rangeNum", "rangeDate", "geo"})
    @@ All("none", {"anyEmpty", "anyBools", "blankText"}) @@ [rangeHalf |-> "wide"]
    @@ All("drop", {"nonscalar", "noKey", "rangeNone", "geoNoRadius", "geoBad"} \cup OddKinds)
Milvus == Dialect(MilvusLeaf, "and")

(********************************* MongoDB *********************************)
MongoLeaf ==
  All("exact", {"str", "int", "float", "bool", "nonscalar", "anyInts", "anyStrs", "anyBools",
                "anyMixed", "rangeNum", "rangeDate", "geo"})
    @@ [anyEmpty |-> "none", rangeHalf |-> "narrow"]
    @@ All("drop", TextKinds \cup {"noKey", "rangeNone", "other"})
    @@ All("entry", {"geoNoRadius", "geoBad", "shorthand", "notObject"})
Mongo == Dialect(MongoLeaf, "last")

MongoSearchLeaf ==
  All("exact", {"str", "int", "float", "bool", "nonscalar", "anyInts", "anyStrs", "anyBools",
                "anyMixed", "rangeNum", "rangeDate", "geo"})
    @@ [anyEmpty |-> "none", rangeHalf |-> "narrow", other |-> "err"]
    @@ All("entry", TextKinds \cup {"noKey", "rangeNone", "geoNoRadius", "geoBad", "shorthand", "notObject"})
MongoSearch == Dialect(MongoSearchLeaf, "and")

(********************************* pgvector ********************************)
PgMatch ==
  All("exact", {"str", "int", "float", "bool", "anyInts", "anyStrs", "text", "phrase"})
    @@ All("none", {"anyEmpty", "anyBools", "blankText"})
    @@ [anyMixed |-> "narrow", nonscalar |-> "drop", noKey |-> "drop"]
PgRange == [rangeNum |-> "exact", rangeDate |-> "exact", rangeHalf |-> "server", rangeNone |-> "drop"]
PgGeo   == [geo |-> "exact", geoNoRadius |-> "drop", geoBad |-> "drop"] @@ All("drop", OddKinds)
Pg      == Dialect(PgMatch @@ PgRange @@ PgGeo, "and")

(********************************** Qdrant *********************************)
QdrantMatch ==
  All("exact", {"str", "int", "bool", "anyInts", "anyStrs", "anyBools", "text", "phrase"})
    @@ All("none", {"anyEmpty", "blankText"})
    @@ All("err", {"float", "nonscalar", "noKey", "anyMixed"})
QdrantRange == [rangeNum |-> "exact", rangeDate |-> "exact", rangeHalf |-> "err", rangeNone |-> "err"]
QdrantGeo   == [geo |-> "exact", geoNoRadius |-> "server", geoBad |-> "err"] @@ All("err", OddKinds)
QdrantSubfilters == Dialect(QdrantMatch @@ QdrantRange @@ QdrantGeo, "flat")
Qdrant      == [QdrantSubfilters EXCEPT !.empty = "err"]

(******************************* vector sets *******************************)
VectorSetsMatch == All("exact", {"str", "int", "float", "bool", "text", "phrase"})
                     @@ [blankText |-> "none"] @@ All("drop", {"nonscalar", "noKey"})
VectorSetsAny   == [anyInts |-> "exact", anyStrs |-> "exact", anyBools |-> "none",
                    anyMixed |-> "exact", anyEmpty |-> "none"]
VectorSetsRange == [rangeNum |-> RangeOf({"num"}), rangeDate |-> RangeOf({"date"}),
                    rangeHalf |-> RangeOf({"num", "bad"}), rangeNone |-> RangeOf({})]
VectorSetsGeo   == [geo |-> "exact", geoNoRadius |-> "drop", geoBad |-> "drop"]
VectorSetsLeaf  == VectorSetsMatch @@ VectorSetsAny @@ VectorSetsRange @@ VectorSetsGeo
                     @@ All("drop", OddKinds)
VectorSets      == Dialect(VectorSetsLeaf, "flat")

(******************************* Turbopuffer *******************************)
TurbopufferLeaf ==
  All("exact", {"str", "int", "float", "bool", "nonscalar", "anyInts", "anyStrs", "anyBools",
                "anyMixed", "rangeNum", "rangeDate"})
    @@ [anyEmpty |-> "none", rangeHalf |-> "server"]
    @@ All("drop", TextKinds \cup GeoKinds \cup {"noKey", "rangeNone", "other"})
    @@ All("entry", {"shorthand", "notObject"})
Turbopuffer == [Dialect(TurbopufferLeaf, "first")
                  EXCEPT !.arms = "first", !.nested = "drop", !.geo = "tree"]

(********************************** Chroma *********************************)
ChromaLeaf ==
  All("exact", {"str", "int", "float", "bool", "anyInts", "anyStrs", "anyMixed", "rangeNum", "rangeDate"})
    @@ All("none", {"anyEmpty", "anyBools"}) @@ [rangeHalf |-> "wide"]
    @@ All("drop", TextKinds \cup GeoKinds \cup {"nonscalar", "noKey", "rangeNone"} \cup OddKinds)
ChromaWhere == [Dialect(ChromaLeaf, "and") EXCEPT !.geo = "tree"]

ChromaDocumentLeaf == All("exact", {"text", "phrase"}) @@ [blankText |-> "server"]
                        @@ All("drop", Kinds \ TextKinds)
ChromaDocument == [Dialect(ChromaDocumentLeaf, "and") EXCEPT !.geo = "tree"]

(********************************* Weaviate ********************************)
WeaviateMatch ==
  All("exact", {"str", "int", "float", "bool", "text", "phrase"} \cup (AnyKinds \ {"anyEmpty"}))
    @@ [anyEmpty |-> "none", blankText |-> "server", nonscalar |-> "drop", noKey |-> "drop"]
WeaviateRange == [rangeNum |-> "exact", rangeDate |-> "exact", rangeHalf |-> "server", rangeNone |-> "drop"]
WeaviateGeo   == [geo |-> "exact", geoNoRadius |-> "server", geoBad |-> "drop"] @@ All("drop", OddKinds)
Weaviate      == Dialect(WeaviateMatch @@ WeaviateRange @@ WeaviateGeo, "and")

(* the leaves of that dialect that have no gRPC form: a bound that is no    *)
(* number has no typed value                                               *)
WeaviateUntranslatable == {"rangeHalf"}

(*********************************** Vertex ********************************)
VertexMatch == All("exact", {"str", "anyStrs", "int", "float"})
                 @@ All("server", {"anyBools", "anyEmpty"})
                 @@ All("err", {"bool", "nonscalar", "noKey", "anyInts", "anyMixed"} \cup TextKinds)
VertexRange == [rangeNum |-> "exact", rangeDate |-> "err", rangeHalf |-> "err", rangeNone |-> "drop"]
Vertex      == [Dialect(VertexMatch @@ VertexRange @@ All("err", GeoKinds \cup OddKinds), "flat")
                  EXCEPT !.arms = "and", !.nested = "err"]

=============================================================================
