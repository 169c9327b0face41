----------------------------- MODULE QueryPath ------------------------------
(***************************************************************************)
(* One metadata field of one document on its way through an engine: the    *)
(* index is created for the dataset's schema, the document is uploaded     *)
(* and, in a mixed search, written again by the update path; then a        *)
(* filtered query asks for it, is retried where the engine retries, and    *)
(* the reply is read and scored or counted as a failed query.              *)
(***************************************************************************)
EXTENDS QueryForms, Naturals

CONSTANTS
  Engines,     \* records of the tables of module QueryForms
  MaxRetries   \* retries of one query after which the engine gives up

VARIABLES
  engine, field,
  stage,     \* "new", "created", "loaded", "asked", "scored", "failed", "refused"
  doc,       \* the form the document holds the field in
  reply,     \* the reply that was read last
  retried    \* retries so far

vars == <<engine, field, stage, doc, reply, retried>>

Init ==
  /\ engine \in Engines
  /\ field \in Fields
  /\ stage = "new" /\ doc = "absent" /\ reply = "none" /\ retried = 0

config == <<engine, field>>

CreateIndex ==
  /\ stage = "new"
  /\ stage' = IF engine.index[field] = "refused" THEN "refused" ELSE "created"
  /\ UNCHANGED <<config, doc, reply, retried>>

Upload ==
  /\ stage = "created"
  /\ stage' = "loaded"
  /\ doc' = engine.stored[field]
  /\ UNCHANGED <<config, reply, retried>>

(* a mixed search writes the document again, while it is being searched *)
Update ==
  /\ stage = "loaded" /\ engine.mixed
  /\ doc' = engine.updated[field]
  /\ UNCHANGED <<config, stage, reply, retried>>

Ask ==
  /\ stage = "loaded"
  /\ stage' = IF engine.literal[field] = "refused" THEN "refused" ELSE "asked"
  /\ UNCHANGED <<config, doc, reply, retried>>

(* a busy or lost attempt is thrown away and sent again after a sleep *)
Retry ==
  /\ stage = "asked" /\ engine.retries /\ retried < MaxRetries
  /\ retried' = retried + 1
  /\ UNCHANGED <<config, stage, doc, reply>>

(* an answer that is final: any reply at all without a retry left or with  *)
(* the retry budget spent, else one that is not worth a retry              *)
Read(r) ==
  /\ stage = "asked"
  /\ reply' = r
  /\ stage' = IF r \in engine.fails THEN "failed" ELSE "scored"
  /\ UNCHANGED <<config, doc, retried>>

Next == CreateIndex \/ Upload \/ Update \/ Ask \/ Retry \/ \E r \in Replies : Read(r)

Spec == Init /\ [][Next]_vars

-----------------------------------------------------------------------------
(* The forms under which an index of a kind finds a stored value. *)
Sees(kind, form) ==
  CASE kind = "tag" -> IF form \in {"string", "joined", "list", "number"} THEN {"string"} ELSE {}
    [] kind = "numeric" -> {form} \cap {"number", "epoch"}
    [] kind = "text" -> IF form = "string" THEN {"words"} ELSE {}
    [] kind = "geo" -> {form} \cap {"point"}
    [] kind = "boolean" -> IF form \in {"boolean", "string"} THEN {"boolean"} ELSE {}
    [] kind = "date" -> IF form = "string" THEN {"date"} ELSE {}
    [] kind = "attribute" -> {form} \cup (CASE form = "string" -> {"words"} [] form = "list" -> {"string"} [] OTHER -> {})
    [] OTHER -> {}

Found == engine.literal[field] \in Sees(engine.index[field], doc)

(* What the comments and the README say of each engine that cannot find a  *)
(* value it stored: Turbopuffer turns digits into numbers, compares bools  *)
(* as they come and does not look into lists; numbers under a keyword stay *)
(* numbers where nothing coerces them; Chroma drops lists.                 *)
Blind ==
  {<<"turbopuffer", f>> : f \in {"keywordDigits", "bool", "labels"}}
    \cup {<<e, "keywordNumber">> : e \in {"turbopuffer", "mongodb", "vectorsets", "vertex"}}
    \cup {<<"chroma", "labels">>}

(* A query that filters on the value a document was written with finds it, *)
(* whether the batch upload or the update of a mixed search wrote it last: *)
(* the two write paths and the filter builder, three pieces of code per    *)
(* engine, agree on one form of the value.                                 *)
FilterFindsDocument ==
  (stage = "scored" /\ reply = "hits") =>
    Found \/ engine.index[field] = "none" \/ <<engine.name, field>> \in Blind

=============================================================================
