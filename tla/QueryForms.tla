----------------------------- MODULE QueryForms -----------------------------
(***************************************************************************)
(* How each engine writes a metadata value into a document, declares its   *)
(* field to the server, writes the same value into a filter, and which     *)
(* replies to the query it takes for a failure.  Each is a table over      *)
(*   Fields   a declared type together with the value the reader hands on: *)
(*            keywordDigits is the string "42" under a keyword,            *)
(*            keywordNumber the JSON number 42, keywordDate a string that  *)
(*            reads as a date; bools and dates arrive as strings           *)
(*   Replies  what may come back for one request                           *)
(***************************************************************************)
EXTENDS TLC

Keywords == {"keyword", "keywordDigits", "keywordNumber", "keywordDate"}
Fields   == Keywords \cup {"uuid", "labels", "int", "float", "text", "bool", "datetime", "geo", "other"}
Replies  == {"hits", "badId", "noId", "noScore", "noList", "odd", "notJson", "refusal", "status", "busy", "lost"}

Each(form, fields) == [f \in fields |-> form]

(* what the reader hands on: numbers typed, labels a list, the rest strings *)
Parsed == Each("string", Fields \ {"keywordNumber", "int", "float", "labels", "geo"})
            @@ Each("number", {"keywordNumber", "int", "float"}) @@ [labels |-> "list", geo |-> "point"]

(* a number under a declared string type is written as a string *)
Coerced == [keywordNumber |-> "string"] @@ Parsed

(* what a filter on the field carries in the dataset *)
Asked == Each("string", Keywords \cup {"uuid", "labels", "other"}) @@ Each("number", {"int", "float"})
           @@ [text |-> "words", bool |-> "boolean", datetime |-> "date", geo |-> "point"]

-----------------------------------------------------------------------------
(* Index kinds.  "none": the field is not indexed, so nothing is found. *)
RedisIndex ==
  Each("tag", Keywords \cup {"uuid", "labels", "bool"}) @@ Each("numeric", {"int", "float", "datetime"})
    @@ [text |-> "text", geo |-> "geo", other |-> "none"]
ValkeyIndex    == [RedisIndex EXCEPT !["text"] = "tag", !["geo"] = "none"]
DragonflyIndex == [RedisIndex EXCEPT !["geo"] = "none"]
KividbIndex(tags) ==
  [f \in Fields |-> IF f = "geo" \/ (RedisIndex[f] = "tag" /\ ~tags) THEN "refused" ELSE RedisIndex[f]]
LuceneIndexKinds ==
  Each("tag", Keywords \cup {"uuid", "labels"}) @@ Each("numeric", {"int", "float"})
    @@ [text |-> "text", geo |-> "geo", bool |-> "boolean", datetime |-> "date", other |-> "refused"]
ElasticsearchIndex == LuceneIndexKinds
OpenSearchIndex    == LuceneIndexKinds
QdrantIndex ==
  Each("tag", Keywords \cup {"uuid", "labels", "bool"}) @@ Each("numeric", {"int", "float"})
    @@ [text |-> "text", geo |-> "geo", datetime |-> "date", other |-> "none"]
MilvusIndex ==
  Each("tag", Keywords \cup {"uuid", "labels"}) @@ Each("numeric", {"int", "float", "datetime"})
    @@ [text |-> "text", geo |-> "geo", bool |-> "boolean", other |-> "none"]
WeaviateIndex ==
  Each("tag", Keywords \cup {"uuid", "labels"}) @@ Each("numeric", {"int", "float"})
    @@ [text |-> "text", geo |-> "geo", bool |-> "boolean", datetime |-> "date", other |-> "none"]
(* every declared path is a filter path, compared as stored *)
MongoIndex == Each("attribute", Fields)
(* a schema with a geo field builds the other index type *)
MongoSearchIndex ==
  Each("tag", Keywords \cup {"uuid", "labels", "bool", "text"}) @@ Each("numeric", {"int", "float"})
    @@ [geo |-> "geo", datetime |-> "refused", other |-> "refused"]
PgIndex ==
  Each("tag", Keywords \cup {"uuid", "labels"}) @@ Each("numeric", {"int", "float"})
    @@ [text |-> "text", geo |-> "geo", bool |-> "boolean", datetime |-> "date", other |-> "none"]
(* no schema is declared: values are compared as stored *)
Schemaless == Each("attribute", Fields)

-----------------------------------------------------------------------------
(* Stored forms. *)

(* a date under a declared datetime is written as seconds since the epoch *)
EncodeStringField(f) == IF f = "datetime" THEN "epoch" ELSE "string"
HashFields(f) ==
  CASE Parsed[f] = "string" -> EncodeStringField(f)
    [] f = "keywordNumber"  -> "string"
    [] f = "labels"         -> "joined"
    [] OTHER                -> Parsed[f]
(* mistake: the update path writes strings as they come *)
HsetVerbatim(f) == IF f = "datetime" THEN "string" ELSE HashFields(f)

(* what the update of a mixed search writes *)
HsetSingle(f)   == HashFields(f)

(* a text field is a tag of its words *)
ValkeyStored(f) == IF f = "text" THEN "joined" ELSE HashFields(f)
ValkeyHsetSingle(f) == ValkeyStored(f)
DragonflyStored(f) == HashFields(f)
KividbStored(f)    == HashFields(f)

LuceneStored(f)    == Parsed[f]
OpenSearchStored(f) == Parsed[f]
QdrantStored(f)    == Coerced[f]
MilvusStored(f) ==
  CASE f = "bool" -> "boolean" [] f = "datetime" -> "epoch" [] OTHER -> Coerced[f]
WeaviateStored(f)  == IF f = "bool" THEN "boolean" ELSE Coerced[f]
MongoStored(f)     == Parsed[f]
PgStored(f) ==
  CASE f = "keywordNumber" -> "string" [] f = "labels" -> "joined" [] OTHER -> Parsed[f]
ChromaStored(f) ==
  CASE f = "bool" -> "boolean" [] f = "datetime" -> "epoch" [] f \in {"labels", "geo"} -> "dropped"
    [] OTHER -> Coerced[f]
(* a string that reads as a number is stored as one *)
TurbopufferStored(f) == IF f = "keywordDigits" THEN "number" ELSE Parsed[f]
(* any string that reads as a date is stored as an epoch, declared or not *)
VectorSetsStored(f) == IF f \in {"keywordDate", "datetime"} THEN "epoch" ELSE Parsed[f]
(* strings and labels are allow lists; numbers typed by the schema *)
VertexStored(f) == IF f = "geo" THEN "dropped" ELSE Parsed[f]

-----------------------------------------------------------------------------
(* Filter literals; "refused" ends the search (module Filters). *)
RedisLiteral ==
  [bool |-> "string", datetime |-> "epoch"] @@ Asked
ValkeyLiteral      == [geo |-> "refused", text |-> "string"] @@ RedisLiteral
DragonflyLiteral   == [geo |-> "refused"] @@ RedisLiteral
KividbLiteral      == [geo |-> "refused"] @@ RedisLiteral
ElasticsearchLiteral == Asked
OpenSearchLiteral  == Asked
QdrantLiteral      == [bool |-> "string"] @@ Asked
MilvusLiteral      == [datetime |-> "epoch"] @@ Asked
WeaviateLiteral    == Asked
(* bools are compared as the strings they are stored as, dates too *)
MongoLiteral       == [bool |-> "string", datetime |-> "string", text |-> "refused"] @@ Asked
PgLiteral          == Asked
ChromaLiteral      == [datetime |-> "epoch", geo |-> "refused"] @@ Asked
TurbopufferLiteral == [datetime |-> "string", text |-> "refused", geo |-> "refused", labels |-> "element"] @@ Asked
VectorSetsLiteral  == [bool |-> "string", datetime |-> "epoch", keywordDate |-> "epoch"] @@ Asked
VertexLiteral      == [bool |-> "refused", datetime |-> "refused", text |-> "refused", geo |-> "refused"] @@ Asked

-----------------------------------------------------------------------------
(* Readings of a reply: the ones that fail the query.  Any other is scored *)
(* with the hits it is read to have, among them no hits at all, and the    *)
(* document 0 where a malformed id is read as 0.                           *)
Unanswered == {"notJson", "refusal", "status", "busy", "lost"}
Strict     == Unanswered \cup {"badId", "noId", "noList", "odd"}
(* one parser of two protocols, a flat array or a map, that never fails *)
RedisReply         == Unanswered
ValkeyReply        == Unanswered
DragonflyReply     == Unanswered
KividbReply        == Unanswered
ElasticsearchReply == Strict
OpenSearchReply    == Strict
WeaviateReply      == Strict \ {"noId"}
QdrantReply        == Strict \ {"badId", "noId"}
MilvusReply        == Strict \ {"badId", "noId"}
MongoReply         == Strict \ {"badId", "noId"}
PgReply            == Strict
ChromaReply        == Strict \ {"badId", "noId"}
TurbopufferReply   == Strict \ {"badId"}
VectorSetsReply    == Strict \ {"badId", "noId"}
VertexReply        == Unanswered

=============================================================================
