----------------------------- MODULE Lifecycle ------------------------------
(***************************************************************************)
(* configure(), upload(), search() and delete() of an engine as the        *)
(* requests they make of its server, one after the other, and what each    *)
(* makes of an answer that is a refusal, a failure reported inside a       *)
(* success, or missing.  LifecycleEngines has the requests of each engine. *)
(*                                                                         *)
(* The server is external: it holds a collection, its documents and the    *)
(* indexes over them, and indexes in the background.                       *)
(***************************************************************************)
EXTENDS Naturals, FiniteSets, Sequences

CONSTANTS
  Engines,    \* records: the steps of configure, upload, search and delete, and what the search uses
  MaxPolls    \* the polls a wait makes before its deadline

Corpus == {"a", "b"}     \* the documents of the dataset
Stale  == {"x"}          \* a document of another dataset, under the same name or prefix

(***************************************************************************)
(* A step is a request, or a wait made of requests.  "tolerates" are the   *)
(* fates after which the code goes on as if the request had succeeded,     *)
(* "exists" what the server makes of a creation when the name is taken,    *)
(* "when" the fact without which the step is skipped.  A wait is over when *)
(* `confirm` polls in a row see what it "reads"; "errors" says whether a   *)
(* failed poll ends it, "giveUp" what its deadline means.                  *)
(***************************************************************************)
Step(op) ==
  [op |-> op, names |-> {}, docs |-> {}, tolerates |-> {}, exists |-> "conflict", when |-> "",
   reads |-> "", confirm |-> 1, errors |-> "ignored", giveUp |-> "err"]

Fates == {"done", "refused", "bodyRefused", "lost", "unanswered"}
Whatever == Fates \ {"done"}

Drop(tolerated)        == [Step("drop") EXCEPT !.tolerates = tolerated]
DropKeys(tolerated)    == [Step("dropKeys") EXCEPT !.tolerates = tolerated]
Create(exists)         == [Step("create") EXCEPT !.exists = exists]
CreateWith(ns, exists) == [Create(exists) EXCEPT !.names = ns]
Index(ns, tolerated)   == [Step("index") EXCEPT !.names = ns, !.tolerates = tolerated]
Insert(ds)             == [Step("insert") EXCEPT !.docs = ds]
Remove(ds)             == [Step("remove") EXCEPT !.docs = ds]
Load                   == [Step("load") EXCEPT !.docs = Corpus]
Hold                   == [Step("hold") EXCEPT !.tolerates = Whatever]
Release                == [Step("release") EXCEPT !.tolerates = Whatever]
Open(tolerated)        == [Step("open") EXCEPT !.tolerates = tolerated]
Ask                    == Step("ask")
Learn(facts)           == [Step("learn") EXCEPT !.names = facts]
LearnFrom(facts)       == [Step("learnFrom") EXCEPT !.names = facts]
Await(reads, errors)   == [Step("await") EXCEPT !.reads = reads, !.errors = errors]
Find(facts)            == [Step("find") EXCEPT !.names = facts]
ReuseIfComplete        == Step("reuse")
CorpusRowCount         == Step("count")
Vacant                 == Step("vacant")
Refuse                 == Step("refuse")

Requests == {"drop", "dropKeys", "create", "index", "insert", "remove", "load", "hold", "release", "open", "ask",
             "vacant", "refuse"}
Lessons  == {"learn", "learnFrom", "find"}
Steps ==
  [op : Requests \cup Lessons \cup {"await", "reuse", "count"}, names : SUBSET STRING,
   docs : SUBSET (Corpus \cup Stale \cup {"dummy"}), tolerates : SUBSET Whatever, exists : {"conflict", "keep"},
   when : {"", "index"}, reads : {"", "exists", "built", "described", "corpus", "count", "open", "gone", "idle"},
   confirm : Nat,
   errors : {"ignored", "fatal"}, giveUp : {"err", "proceed"}]

(* What search() does before its queries, in every engine: it asks, and    *)
(* finds out whatever the queries are made from, unconditionally.          *)
ASSUME LifecycleAssumption ==
  /\ MaxPolls \in Nat \ {0}
  /\ \A e \in Engines :
       /\ {e.configure, e.upload, e.search, e.delete} \subseteq Seq(Steps)
       /\ \A i \in DOMAIN e.search : e.search[i].op \in Lessons \cup {"ask"} /\ e.search[i].when = ""
       /\ \A f \in e.uses : \E i \in DOMAIN e.search : e.search[i].op \in Lessons /\ f \in e.search[i].names

(* What the tables of the engines have in common.                          *)
Swallows  == {"redis", "milvus", "chroma", "turbopuffer", "vectorsets", "valkey", "dragonfly", "kividb"}
Streaming == {"vertex", "vertex_reused"}

Certain(s) == s.tolerates = {} /\ s.when = ""

(* the request that takes the documents away *)
Removes(e, s) == s.op = (IF e.keysOutlive THEN "dropKeys" ELSE "drop")

(* once past s, the documents of an earlier run are gone, unless the       *)
(* failure to remove them was tolerated                                    *)
Clears(e, s) ==
  \/ s.op = "vacant" /\ Certain(s)
  \/ s.op = "create" /\ s.exists = "conflict" /\ Certain(s) /\ ~e.keyed
  \/ Removes(e, s) /\ s.when = "" /\ (s.tolerates = {} \/ e.name \in Swallows)

(* once past s, index n is there *)
Builds(e, s, n) ==
  \/ s.op = "create" /\ s.exists = "conflict" /\ Certain(s) /\ n \in s.names
  \/ s.op = "index" /\ Certain(s) /\ n \in s.names
  \/ s.op = "await" /\ s.reads = "open" /\ s.giveUp = "err" /\ s.when = "" /\ n = "vector" /\ ~e.keyed

(* once past s, every index that the wait was shown has every document *)
Settles(e, s) ==
  /\ s.op = "await" /\ s.giveUp = "err" /\ s.when = ""
  /\ \/ s.reads \in {"built", "described"}
     \/ s.reads = "idle" /\ s.confirm > 1
     \/ s.reads = "corpus" /\ e.name \notin Swallows \cup {"redis_shared"} /\ ~e.reused /\ \A m, n \in e.indexes : m = n

RemovesDummy(s) == s.op = "remove" /\ Certain(s) /\ "dummy" \in s.docs

(* configure() writes at most a document it takes away again, and makes    *)
(* again what it drops                                                     *)
ConfigureRow(e, q) ==
  \A i \in DOMAIN q :
    /\ q[i].op \notin {"load", "reuse", "count"}
    /\ q[i].op \in {"create", "index"} => q[i].names \subseteq e.indexes
    /\ q[i].op \in {"insert", "remove"} => q[i].docs \subseteq {"dummy"}
    /\ q[i].op = "insert" => \E j \in DOMAIN q : j > i /\ RemovesDummy(q[j])
    /\ q[i].op = "drop" =>
         \A n \in e.indexes : \/ \E j \in DOMAIN q : j > i /\ Builds(e, q[j], n)
                              \/ \E j \in DOMAIN e.upload : Builds(e, e.upload[j], n)

(* upload() loads the corpus, and waits for the indexes after the last     *)
(* step that gives them work                                               *)
UploadRow(e, q) ==
  \A i \in DOMAIN q :
    /\ q[i].op \notin {"drop", "dropKeys", "insert", "remove", "count"}
    /\ q[i].op = "load" => q[i].docs = Corpus
    /\ q[i].op \in {"create", "index"} => q[i].names \subseteq e.indexes
    /\ q[i].op \in {"load", "create", "index"} =>
         e.indexes = {} \/ e.name \in Streaming \/ \E j \in DOMAIN q : j > i /\ Settles(e, q[j])
    /\ q[i].op = "reuse" => e.name = "redis_shared" /\ i + 1 \in DOMAIN q /\ q[i + 1].op = "load"

DeleteRow(q) == \A i \in DOMAIN q : q[i].op \notin {"create", "index", "insert", "load", "reuse", "count"}

(* a delete() that gets past s, knowing these facts: it does not; it has   *)
(* dropped the collection; it has taken the documents away                 *)
Ends(s)            == s.op = "refuse" /\ Certain(s)
Drops(s, facts)    == s.op = "drop" /\ s.when \in facts \cup {""}
Takes(e, s, facts) == Removes(e, s) /\ s.when \in facts \cup {""}

ASSUME RowsAssumption ==
  \A e \in Engines :
    /\ ConfigureRow(e, e.configure) /\ UploadRow(e, e.upload) /\ DeleteRow(e.delete)
    /\ e.own \/ e.reused \/ e.name = "redis_shared" \/ \E i \in DOMAIN e.configure : Clears(e, e.configure[i])
    /\ \E i \in DOMAIN e.upload : e.upload[i].op = "load" /\ Certain(e.upload[i])
    /\ e.name \in Streaming \/ e.indexes = {} \/ \E i \in DOMAIN e.upload : Settles(e, e.upload[i])
    /\ \A n \in e.indexes : \/ e.name \in Streaming
                            \/ \E i \in DOMAIN e.configure : Builds(e, e.configure[i], n)
                            \/ \E i \in DOMAIN e.upload : Builds(e, e.upload[i], n)
    /\ e.keysOutlive => e.keyed
    /\ e.reused \/ \E i \in DOMAIN e.delete : Ends(e.delete[i]) \/ Drops(e.delete[i], e.uses)
    /\ \/ e.reused \/ e.name = "redis_shared"
       \/ \E i \in DOMAIN e.delete : Ends(e.delete[i]) \/ Takes(e, e.delete[i], e.uses)

-----------------------------------------------------------------------------
VARIABLES
  engine,
  db,         \* the server: coll, docs, indexed, held, opening, open, lulls
  phase,      \* "configure", "upload", "search", "delete", "over", "failed" or "hung"
  todo,       \* the steps left of the phase
  polls,      \* of the wait in progress
  greens,     \* its last polls in a row that saw what it reads
  knows,      \* facts the engine object holds
  left,       \* history: what a removal whose failure was tolerated left behind
  unseen,     \* history: the indexes that the poll a wait was satisfied by did not show
  foreign,    \* history: the documents of another dataset that were there
  restarted   \* this is a second process, run with --skip-upload: "no", "afterOk" or "afterFailure"

vars == <<engine, db, phase, todo, polls, greens, knows, left, unseen, foreign, restarted>>

Empty == [coll |-> FALSE, docs |-> {}, indexed |-> <<>>, held |-> FALSE,
          opening |-> FALSE, open |-> FALSE, lulled |-> FALSE]

(* what an earlier run left: nothing, its collection, or, where documents  *)
(* are keys, keys without an index                                         *)
Left(e, ds) ==
  {[Empty EXCEPT !.coll = TRUE, !.docs = ds, !.indexed = [n \in e.indexes |-> ds]]}
    \cup IF e.keyed THEN {[Empty EXCEPT !.docs = ds]} ELSE {}

Init ==
  /\ engine \in Engines
  /\ \E ds \in {{"a"}, {"a", "x"}, {"a", "b"}} : db \in {Empty} \cup Left(engine, ds)
  /\ engine.own => db = Empty
  /\ engine.reused => db.coll
  /\ phase = "configure" /\ todo = engine.configure
  /\ polls = 0 /\ greens = 0 /\ knows = {} /\ left = {} /\ unseen = {}
  /\ foreign = db.docs \cap Stale /\ restarted = "no"

Running == phase \notin {"over", "failed", "hung"}
Now == todo[1]
At(ops) == Running /\ todo # <<>> /\ Now.op \in ops /\ (Now.when = "" \/ Now.when \in knows)

Proceed == todo' = Tail(todo) /\ polls' = 0 /\ greens' = 0 /\ UNCHANGED phase
Fail    == phase' = "failed" /\ todo' = <<>> /\ polls' = 0 /\ greens' = 0

-----------------------------------------------------------------------------
(* The server's part. *)

(* an index that is not there cannot be dropped, and its keys stay *)
Accepts(s) ==
  CASE s.op = "create" -> ~db.coll \/ s.exists = "keep"
    [] s.op = "drop" -> engine.keyed => db.coll
    [] s.op \in {"index", "open", "ask", "find"} -> db.coll
    [] s.op \in {"load", "insert"} -> db.coll \/ engine.implicit
    [] s.op = "vacant" -> ~db.coll /\ db.docs = {}
    [] s.op = "refuse" -> FALSE
    [] OTHER -> TRUE

Effect(s) ==
  CASE s.op = "drop" -> IF engine.keysOutlive THEN [db EXCEPT !.coll = FALSE, !.indexed = <<>>] ELSE Empty
    [] s.op = "dropKeys" -> [db EXCEPT !.docs = {}, !.indexed = [n \in DOMAIN @ |-> {}]]
    [] s.op = "create" -> IF db.coll THEN db
                          ELSE [db EXCEPT !.coll = TRUE, !.indexed = [n \in s.names |-> {}]]
    [] s.op = "index"  -> [db EXCEPT !.indexed = [n \in DOMAIN @ \cup s.names |-> IF n \in DOMAIN @ THEN @[n] ELSE {}]]
    [] s.op \in {"load", "insert"} -> [db EXCEPT !.coll = TRUE, !.docs = @ \cup s.docs]
    [] s.op = "remove" -> [db EXCEPT !.docs = @ \ s.docs, !.indexed = [n \in DOMAIN @ |-> @[n] \ s.docs]]
    [] s.op = "hold"    -> [db EXCEPT !.held = TRUE]
    [] s.op = "release" -> [db EXCEPT !.held = FALSE]
    [] s.op = "open"    -> [db EXCEPT !.opening = TRUE]
    [] OTHER -> db

Executed(s, fate) == fate \in {"done", "unanswered"} /\ Accepts(s)

(* indexing in the background: one document of one index at a time; an     *)
(* index that is maintained inside each write has no background work       *)
Work ==
  /\ db.coll /\ ~db.held
  /\ \E n \in DOMAIN db.indexed : \E d \in db.docs \ db.indexed[n] : db' = [db EXCEPT !.indexed[n] = @ \cup {d}]
  /\ UNCHANGED <<engine, phase, todo, polls, greens, knows, left, unseen, foreign, restarted>>

(* the collection opens once it has its vector index *)
Opened ==
  /\ db.opening /\ ~db.open /\ "vector" \in DOMAIN db.indexed
  /\ db' = [db EXCEPT !.open = TRUE]
  /\ UNCHANGED <<engine, phase, todo, polls, greens, knows, left, unseen, foreign, restarted>>

-----------------------------------------------------------------------------
(* The client's part. *)

GoesOn(s, fate) == (fate = "done" /\ Accepts(s)) \/ fate \in s.tolerates \/ ("refused" \in s.tolerates /\ ~Accepts(s))

(* the documents, and the collection itself *)
Remains(d) == d.docs \cup (IF d.coll THEN {"collection"} ELSE {})

(* a request; an upload that fails may have stored part of the corpus *)
Request(fate) ==
  /\ At(Requests)
  /\ \/ Executed(Now, fate) /\ db' = Effect(Now)
     \/ ~Executed(Now, fate) /\ db' = db
     \/ ~Executed(Now, fate) /\ Now.op = "load" /\ Accepts(Now)
        /\ \E part \in SUBSET Corpus : db' = [Effect(Now) EXCEPT !.docs = db.docs \cup part]
  /\ IF GoesOn(Now, fate) THEN Proceed ELSE Fail
  /\ left' = CASE Now.op \notin {"drop", "dropKeys"} -> left
                [] Now.op \in {"drop", "dropKeys"} /\ fate = "done" /\ Accepts(Now) -> left \cap Remains(db')
                [] OTHER -> left \cup Remains(db')
  /\ UNCHANGED <<engine, knows, unseen, foreign, restarted>>

(* facts computed from the dataset and the configuration *)
LearnFacts ==
  /\ At({"learn"}) /\ knows' = knows \cup Now.names /\ Proceed
  /\ UNCHANGED <<engine, db, left, unseen, foreign, restarted>>

(* facts asked of the server, unless they are known *)
LearnFromServer(fate) ==
  /\ At({"learnFrom", "find"})
  /\ IF Now.names \subseteq knows \/ (fate = "done" /\ Accepts(Now))
     THEN Proceed /\ knows' = knows \cup Now.names
     ELSE Fail /\ UNCHANGED knows
  /\ UNCHANGED <<engine, db, left, unseen, foreign, restarted>>

Skip ==
  /\ Running /\ todo # <<>> /\ Now.when # "" /\ Now.when \notin knows
  /\ Proceed
  /\ UNCHANGED <<engine, db, knows, left, unseen, foreign, restarted>>

(* mistake: any key under the prefix stands for the corpus *)
CorpusIsThere(keys, expected) == keys > 0

(* the shared corpus counts as whole when there are keys enough *)
SharedCorpusIsComplete(keys, expected) == expected > 0 /\ keys >= expected

(* the shared corpus: its keys are counted, and enough of them spare the upload *)
Reuse(fate) ==
  /\ At({"reuse"})
  /\ CASE fate # "done" -> Fail
       [] fate = "done" /\ SharedCorpusIsComplete(Cardinality(db.docs), Cardinality(Corpus)) ->
            todo' = SubSeq(todo, 3, Len(todo)) /\ UNCHANGED <<phase, polls, greens>>
       [] OTHER -> Proceed
  /\ UNCHANGED <<engine, db, knows, left, unseen, foreign, restarted>>

(* What a poll reads.  "described" asks for the indexes one by one, and an *)
(* answer without data leaves its index out: it `hidden` it.  The requests *)
(* of such a poll are one step: nothing is written meanwhile and an index  *)
(* only gains, so what one of them saw built still is at the last.         *)
Sees(reads, hidden) ==
  CASE reads = "exists" -> DOMAIN db.indexed # {}
    [] reads = "built"  -> DOMAIN db.indexed # {} /\ \A n \in DOMAIN db.indexed : db.indexed[n] = db.docs
    [] reads = "described" -> LET shown == DOMAIN db.indexed \ hidden
                              IN  shown # {} /\ \A n \in shown : db.indexed[n] = db.docs
    [] reads = "corpus" -> \E n \in DOMAIN db.indexed : Corpus \subseteq db.indexed[n]
    [] reads = "count"  -> \E n \in DOMAIN db.indexed : Cardinality(db.indexed[n]) >= Cardinality(Corpus)
    [] reads = "open"   -> db.open
    [] reads = "gone"   -> ~db.coll
    [] reads = "idle"   -> ~db.held /\ \A n \in DOMAIN db.indexed : db.indexed[n] = db.docs

(* mistake: one poll that sees an idle collection is enough *)
FirstSightEnough(n, s) == TRUE
Confirmed(n, s) == n >= s.confirm

(* mistake: the deadline is looked at, and the wait goes on *)
DeadlineIgnored(s) == greens' = 0 /\ UNCHANGED <<phase, todo, polls>>
Deadline(s) == IF s.giveUp = "proceed" THEN Proceed ELSE Fail

(* One poll.  Between two rounds of optimization a collection looks idle;  *)
(* such a lull is shorter than the time between two polls, so no second    *)
(* poll falls into it.                                                     *)
Poll(answered, lull, hidden) ==
  /\ At({"await"})
  /\ hidden # {} => Now.reads = "described"
  /\ lull => Now.reads = "idle" /\ ~db.held /\ ~db.lulled
  /\ db' = [db EXCEPT !.lulled = lull]
  /\ LET seen == answered /\ (lull \/ Sees(Now.reads, hidden))
         last == polls + 1 >= MaxPolls
     IN  /\ unseen' = IF seen /\ Now.reads = "described" THEN hidden ELSE unseen
         /\ CASE seen /\ Confirmed(greens + 1, Now) -> Proceed
           [] seen /\ ~Confirmed(greens + 1, Now) ->
                greens' = greens + 1 /\ UNCHANGED <<phase, todo, polls>>
           [] ~seen /\ ~answered /\ Now.errors = "fatal" -> Fail
           [] ~seen /\ (answered \/ Now.errors # "fatal") /\ last -> Deadline(Now)
           [] OTHER -> polls' = polls + 1 /\ greens' = 0 /\ UNCHANGED <<phase, todo>>
  /\ UNCHANGED <<engine, knows, left, foreign, restarted>>

(* A request whose answer never comes, made by a client that sets no time  *)
(* limit, or sets it after the handshake: the run stands still.  Killed,   *)
(* it leaves what a request that was lost or unanswered leaves.            *)
Hang ==
  /\ At(Requests \cup {"learnFrom", "find", "await", "reuse", "count"}) /\ ~engine.bounded
  /\ phase' = "hung"
  /\ UNCHANGED <<engine, db, todo, polls, greens, knows, left, unseen, foreign, restarted>>

Phases == <<"configure", "upload", "search", "delete", "over">>
Following(p) == Phases[(CHOOSE i \in DOMAIN Phases : Phases[i] = p) + 1]
StepsOf(p) == IF p = "over" THEN <<>> ELSE engine[p]

NextPhase ==
  /\ Running /\ todo = <<>>
  /\ phase' = Following(phase) /\ todo' = StepsOf(phase')
  /\ UNCHANGED <<engine, db, polls, greens, knows, left, unseen, foreign, restarted>>

(* --skip-upload: a new process, which knows nothing that configure()      *)
(* found out, searches what an upload, whole or not, has left; it asks the *)
(* engine for its row count first                                          *)
Restart ==
  /\ restarted = "no" /\ phase \in {"search", "failed"}
  /\ restarted' = IF phase = "failed" THEN "afterFailure" ELSE "afterOk"
  /\ phase' = "search" /\ todo' = <<CorpusRowCount>> \o engine.search
  /\ knows' = {} /\ polls' = 0 /\ greens' = 0
  /\ UNCHANGED <<engine, db, left, unseen, foreign>>

(* classify_reuse_precondition: fewer rows than the dataset has are fatal  *)
(* when the count is exact; a surplus or no count at all is a warning      *)
Short(n, expected) == n < expected /\ engine.rows = "exact"

(* corpus_row_count: FT.INFO's num_docs, which a missing index has none    *)
(* of, or the server's count of the rows                                   *)
RowCount ==
  IF engine.keyed THEN Cardinality(UNION {db.indexed[n] : n \in DOMAIN db.indexed}) ELSE Cardinality(db.docs)

ReusePrecondition(fate) ==
  /\ At({"count"})
  /\ IF engine.rows # "none" /\ (fate # "done" \/ Short(RowCount, Cardinality(Corpus)))
     THEN Fail ELSE Proceed
  /\ UNCHANGED <<engine, db, knows, left, unseen, foreign, restarted>>

Client ==
  \/ \E fate \in Fates : Request(fate) \/ LearnFromServer(fate) \/ Reuse(fate) \/ ReusePrecondition(fate)
  \/ \E answered, lull \in BOOLEAN, hidden \in SUBSET engine.indexes : Poll(answered, lull, hidden)
  \/ LearnFacts \/ Skip \/ NextPhase \/ Hang

Done == ~Running /\ UNCHANGED vars

Next == Client \/ Restart \/ Work \/ Opened \/ Done

(* The client keeps running.  Its requests end, or it hangs in one of them *)
(* where it sets no time limit.                                            *)
Spec == Init /\ [][Next]_vars /\ WF_vars(Client)

-----------------------------------------------------------------------------
Searching == phase = "search" /\ todo = <<>>

(* whose documents may be among those of the corpus *)
Spared ==
  IF engine.reused \/ engine.name = "redis_shared" THEN foreign
  ELSE IF engine.name \in Swallows THEN left
  ELSE {}

(* A search runs over all the documents of its dataset, and a document of  *)
(* another can be among them in two ways only: in the engines of Swallows, *)
(* a removal failed and the code went on, and the document is one that     *)
(* this removal left (no later one took it away); or the operator gave the *)
(* run the place where it was, a shared prefix or a deployed index.  A     *)
(* shared prefix that holds others' keys may even stand in for the corpus. *)
(* And once delete() is over, what is still there is what a removal whose  *)
(* failure was tolerated left.  --skip-upload searches what it is pointed  *)
(* at.                                                                     *)
NoStaleCorpus ==
  /\ (Searching /\ restarted = "no") =>
       /\ db.docs \subseteq Corpus \cup Spared
       /\ Corpus \subseteq db.docs \/ (engine.name = "redis_shared" /\ foreign # {})
  /\ (phase = "over" /\ ~engine.reused) =>
       /\ db.coll => "collection" \in left
       /\ db.docs \subseteq left \/ engine.name = "redis_shared"

(* No search starts before the server's background indexing has covered    *)
(* every document, whichever answers got lost on the way: the recall would *)
(* be that of a part of the corpus.  Milvus's wait vouches for the indexes *)
(* its last poll was shown; one whose description came without data is     *)
(* passed over.  Vertex's streaming wait gives up with a warning, and      *)
(* --skip-upload counts rows, not indexed rows.                            *)
OkMeansIndexed ==
  (Searching /\ restarted # "afterFailure" /\ engine.name \notin Streaming) =>
    /\ engine.indexes \subseteq DOMAIN db.indexed
    /\ \A n \in DOMAIN db.indexed : db.indexed[n] = db.docs \/ n \in unseen

=============================================================================
