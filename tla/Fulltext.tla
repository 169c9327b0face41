------------------------------ MODULE Fulltext ------------------------------
(***************************************************************************)
(* The fulltext workload of Redis and OpenSearch: an index, the marker     *)
(* that records how it was built and the uploaded corpus, shared by        *)
(* successive runs of engine configs of the same name.  A run resolves its *)
(* search configs to one index profile, creates the index and its marker,  *)
(* uploads, and searches each config; or, with --skip-upload, goes         *)
(* straight to the search of what an earlier run left.                     *)
(*   server     what the run cannot choose: engine, whether WITHOUTCOUNT   *)
(*              keeps the ranking, whether some query matches more than a  *)
(*              page, the minimum stem length, the shards, whether queries *)
(*              filter on text fields, and whether any keeps a term        *)
(*   index      the text part of the live index                            *)
(*   marker     what the index records of its profile                      *)
(*   corpus     None, Short (an upload died), or the set of text fields whose *)
(*              white space was normalised                                 *)
(*   job        the run                                                    *)
(*   published  the last result handed to the caller                       *)
(***************************************************************************)
EXTENDS Naturals, FiniteSets

CONSTANTS TextFields, \* the schema's text fields
          SearchConfigs, \* search configs an engine config may hold
          EngineConfigs, \* sets of them
          None, Short, Refused \* no value; an upload that died; a profile refused

\* What a config pins of its index: the analysis, the reduced schema, the text of parity.
Profiles == [analysis : {"english", "parity"}, reduced : BOOLEAN, text : SUBSET TextFields]

ASSUME FulltextAssumption ==
  /\ EngineConfigs \subseteq SUBSET SearchConfigs
  /\ \A c \in SearchConfigs :
       /\ c.workload \in {"vector", "fulltext"}
       /\ c.workload = "fulltext" => c.analysis \in {"english", "parity"} /\ c.reduced \in BOOLEAN
  /\ None \notin Profiles /\ Refused \notin Profiles /\ None # Refused

VARIABLES server, index, marker, corpus, job, published
textVars == <<server, index, marker, corpus, job, published>>

Servers == {s \in [engine : {"redis", "opensearch"}, ranks : BOOLEAN, deep : BOOLEAN,
                   minStem : {"default", "other", "unread"}, shards : {1, 2}, textFilters : BOOLEAN, terms : BOOLEAN] :
              ~s.terms => s.ranks /\ s.deep /\ s.minStem = "default" /\ ~s.textFilters}

VectorConfig == [workload |-> "vector"]
TextConfig(analysis, fields, total, compound, reduced, multi) ==
  [workload |-> "fulltext", analysis |-> analysis, fields |-> fields, total |-> total,
   compound |-> compound, reduced |-> reduced, multi |-> multi]

UsesText(c) == c.workload = "fulltext"

-----------------------------------------------------------------------------
(* One search config. *)

CheckTotalHits(c) == ~(c.compound /\ c.total = "none")

(* fields: a set, or None for every text field of the schema *)
ParseSpec(c) ==
  /\ c.reduced => c.compound /\ c.analysis = "parity"
  /\ c.fields # {}
  /\ CheckTotalHits(c)
  /\ c.compound => c.fields # None

ValidateDeclared(c, engine) == c.multi => engine = "opensearch"

ResolveFields(c) == IF c.fields = None THEN TextFields ELSE c.fields

(* the mode one engine runs a config with, and whether both run the same *)
TotalHitsPlan(engine, c) ==
  IF c.total # "absent" THEN [mode |-> c.total, symmetric |-> TRUE]
  ELSE IF c.compound THEN [mode |-> "exact", symmetric |-> TRUE]
  ELSE [mode |-> IF engine = "opensearch" THEN "none" ELSE "exact", symmetric |-> FALSE]

-----------------------------------------------------------------------------
(* The profile of an engine config: Refused, None without a fulltext   *)
(* config, or one profile for all.                                         *)
IndexProfile(S) ==
  LET texts == {c \in S : UsesText(c)}
  IN  IF texts = {} THEN None
      ELSE IF \/ Cardinality({c.analysis : c \in texts}) > 1
              \/ Cardinality({c.reduced : c \in texts}) > 1
              \/ \E c \in texts : c.analysis = "parity" /\
                   (c.fields = None \/ S # texts \/ \E d \in texts : d.fields # c.fields)
           THEN Refused
      ELSE LET c == CHOOSE c \in texts : TRUE
           IN  [analysis |-> c.analysis, reduced |-> c.reduced,
                text |-> IF c.analysis = "parity" THEN c.fields ELSE {}]

Stems(p)               == p.analysis = "english"
NormalizesWhitespace(p) == p.analysis = "parity"
IndexesTextField(p, f) == Stems(p) \/ f \in p.text

(* a fulltext config pins the analyzer of the whole index *)
CheckMixedTextFilters(S) ==
  ~(server.textFilters /\ (\E c \in S : UsesText(c)) /\ \E c \in S : ~UsesText(c))

(* the startup checks, before anything is connected *)
Accepted(S) ==
  /\ \A c \in S : UsesText(c) => ParseSpec(c) /\ ValidateDeclared(c, server.engine) /\ ResolveFields(c) \subseteq TextFields
  /\ IndexProfile(S) # Refused
  /\ CheckMixedTextFilters(S)

CheckMarker(p, recorded) == (Stems(p) /\ recorded = None) \/ recorded = p

-----------------------------------------------------------------------------
(* The index FT.CREATE or the OpenSearch mapping builds for a profile. *)
CreatedIndex(p) ==
  IF p = None THEN [nostem |-> FALSE, fields |-> TextFields, pinned |-> FALSE]
  ELSE [nostem |-> ~Stems(p), fields |-> {f \in TextFields : IndexesTextField(p, f)}, pinned |-> TRUE]

(* What the marker may be after FT.CREATE: DEL then SET, either failing.   *)
(* English goes on whatever failed; parity does not.                       *)
WriteMarker(p, before) ==
  IF p = None THEN {[marker |-> before, ok |-> TRUE]}
  ELSE {[marker |-> p, ok |-> TRUE]}
         \cup {[marker |-> m, ok |-> Stems(p)] : m \in {before, None}}

(* mistake: trusts the marker for the stemming *)
ValidateByMarker(p, fields, recorded) ==
  /\ CheckMarker(p, recorded)
  /\ fields \subseteq index.fields
  /\ index.pinned

ValidateRedisIndex(p, fields, recorded) ==
  /\ CheckMarker(p, recorded)
  /\ fields \subseteq index.fields
  /\ index.nostem = ~Stems(p)
  /\ NormalizesWhitespace(p) => index.fields \subseteq p.text
  /\ index.pinned

ValidateOpenSearchIndex(p, c, recorded) ==
  /\ CheckMarker(p, recorded)
  /\ NormalizesWhitespace(p) => index.fields \subseteq p.text
  /\ ResolveFields(c) \subseteq index.fields
  /\ server.shards > 1 => c.multi
  /\ index.nostem = ~Stems(p)
  /\ index.pinned

CheckMinStemLen == server.minStem \in {"default", "unread"}

(* Compound configs, and configs on an index without vectors, also check   *)
(* the realised schema; it is the schema the index was created from.       *)
Serves(p, c, recorded) ==
  IF server.engine = "opensearch" THEN ValidateOpenSearchIndex(p, c, recorded)
  ELSE ValidateRedisIndex(p, ResolveFields(c), recorded) /\ CheckMinStemLen

-----------------------------------------------------------------------------
Idle == [stage |-> "idle", configs |-> {}, skip |-> FALSE]

TextInit ==
  /\ server \in Servers
  /\ index = None /\ marker = None /\ corpus = None
  /\ job = Idle
  /\ published = None

Begin(S, skip) ==
  /\ job.stage = "idle" /\ Accepted(S)
  /\ job' = [stage |-> IF skip THEN "search" ELSE "configure", configs |-> S, skip |-> skip]
  /\ published' = None
  /\ UNCHANGED <<server, index, marker, corpus>>

(* FT.DROPINDEX DD, whose failure the code does not read: then FT.CREATE   *)
(* fails.  A reduced index wants an absent index and an empty prefix.      *)
Configure ==
  LET p == IndexProfile(job.configs)
      reduced == p # None /\ p.reduced
      clear == ~reduced \/ (index = None /\ corpus = None)
  IN  /\ job.stage = "configure" /\ server.engine = "redis"
      /\ \E dropped \in (IF index = None THEN {TRUE} ELSE BOOLEAN) :
           IF ~clear \/ ~dropped
           THEN job' = Idle /\ UNCHANGED <<index, marker, corpus>>
           ELSE \E w \in WriteMarker(p, marker) :
                  /\ index' = CreatedIndex(p) /\ corpus' = None
                  /\ marker' = w.marker
                  /\ job' = IF w.ok THEN [job EXCEPT !.stage = "upload"] ELSE Idle
      /\ UNCHANGED <<server, published>>

(* the marker is part of the OpenSearch mapping, made with the index *)
ConfigureOpenSearch ==
  LET p == IndexProfile(job.configs)
  IN  /\ job.stage = "configure" /\ server.engine = "opensearch"
      /\ index' = CreatedIndex(p) /\ corpus' = None
      /\ marker' = IF p = None THEN None ELSE p
      /\ job' = [job EXCEPT !.stage = "upload"]
      /\ UNCHANGED <<server, published>>

NormalizedFields(p) == IF p # None /\ NormalizesWhitespace(p) THEN p.text ELSE {}

(* a value that is not a string refuses the normalisation; rows may fail *)
Upload ==
  /\ job.stage = "upload"
  /\ \/ corpus' = NormalizedFields(IndexProfile(job.configs)) /\ job' = [job EXCEPT !.stage = "search"]
     \/ corpus' \in {None, Short} /\ job' = Idle
  /\ UNCHANGED <<server, index, marker, published>>

-----------------------------------------------------------------------------
(* The search.  Queries whose terms are all stop words are skipped; a set  *)
(* without any other is refused.  A compound suite has terms.              *)
LoadQuerySet(c) == c.compound \/ server.terms

RedisArgs(c, mode)      == [verbatim |-> c.analysis = "parity", counted |-> mode # "none"]
OpensearchBody(c, mode) == [verbatim |-> FALSE, counted |-> mode = "exact"]

(* WITHOUTCOUNT on a server that does not rank under it may still return   *)
(* the counted page ("same"), or another page in score order ("other") or  *)
(* out of it ("shuffled").                                                 *)
Pages(request) ==
  IF server.engine = "opensearch" \/ request.counted \/ server.ranks THEN {"same"} ELSE {"same", "other", "shuffled"}

(* refused when no query overruns the page, or when a page differs *)
ProbeWithoutCount(request, page) == request.counted \/ (server.deep /\ page = "same")

CheckRankViolations(page) == page # "shuffled"

(* a reply with a warning, a timeout or a failed shard fails its query *)
RedisRankedPage(reply, page) == reply = "whole" /\ CheckRankViolations(page)
OpensearchRankedPage(reply)  == reply = "whole"

(* a compound suite fails on its first wrong count *)
CheckQueryCount(c, count) == c.compound => count = "right"

(* the corpus gate of --skip-upload is module Lifecycle's *)
Searchable == index # None /\ corpus \notin {None, Short}

Measured(c, plan, request, probed, page, count) ==
  [config |-> c, profile |-> IndexProfile(job.configs), index |-> index, corpus |-> corpus, skip |-> job.skip,
   mode |-> plan.mode, warned |-> ~plan.symmetric, request |-> request, probed |-> probed, page |-> page, count |-> count]

(* the marker may be unreadable, which parity refuses; the probe comes     *)
(* before the timed queries                                                *)
SearchRedis(c) ==
  LET p == IndexProfile(job.configs)
      plan == TotalHitsPlan("redis", c)
      request == RedisArgs(c, plan.mode)
  IN  /\ job.stage = "search" /\ server.engine = "redis" /\ c \in job.configs /\ UsesText(c)
      /\ \E readable \in BOOLEAN, probed, page \in Pages(request),
            count \in {"right", "wrong"}, reply \in {"whole", "flagged"} :
           IF /\ Searchable /\ LoadQuerySet(c)
              /\ readable \/ Stems(p)
              /\ Serves(p, c, IF readable THEN marker ELSE None)
              /\ ProbeWithoutCount(request, probed)
              /\ RedisRankedPage(reply, page) /\ CheckQueryCount(c, count)
           THEN published' = Measured(c, plan, request, probed, page, count) /\ UNCHANGED job
           ELSE published' = None /\ job' = Idle
      /\ UNCHANGED <<server, index, marker, corpus>>

SearchOpenSearch(c) ==
  LET plan == TotalHitsPlan("opensearch", c)
      request == OpensearchBody(c, plan.mode)
  IN  /\ job.stage = "search" /\ server.engine = "opensearch" /\ c \in job.configs /\ UsesText(c)
      /\ \E count \in {"right", "wrong"}, reply \in {"whole", "flagged"} :
           IF /\ Searchable /\ LoadQuerySet(c)
              /\ Serves(IndexProfile(job.configs), c, marker)
              /\ OpensearchRankedPage(reply) /\ CheckQueryCount(c, count)
           THEN published' = Measured(c, plan, request, "same", "same", count) /\ UNCHANGED job
           ELSE published' = None /\ job' = Idle
      /\ UNCHANGED <<server, index, marker, corpus>>

SearchVector(c) ==
  /\ job.stage = "search" /\ c \in job.configs /\ ~UsesText(c)
  /\ Searchable
  /\ published' = [config |-> c, index |-> index, corpus |-> corpus, skip |-> job.skip]
  /\ UNCHANGED <<server, index, marker, corpus, job>>

(* a reduced corpus is kept; the removals' failures are not read *)
Delete ==
  LET p == IndexProfile(job.configs)
  IN  /\ job.stage = "search"
      /\ job' = Idle /\ published' = None
      /\ IF p # None /\ p.reduced THEN UNCHANGED <<index, marker, corpus>>
         ELSE /\ \/ index' = None /\ corpus' = None
                 \/ UNCHANGED <<index, corpus>>
              /\ marker' \in IF server.engine = "opensearch" THEN {IF index' = None THEN None ELSE marker}
                             ELSE IF p = None THEN {marker} ELSE {None, marker}
      /\ UNCHANGED server

(* the process dies, or the run keeps the index *)
Stop ==
  /\ job.stage # "idle"
  /\ job' = Idle /\ published' = None
  /\ corpus' \in IF job.stage = "upload" THEN {None, Short} ELSE {corpus}
  /\ UNCHANGED <<server, index, marker>>

TextNext ==
  \/ \E S \in EngineConfigs, skip \in BOOLEAN : Begin(S, skip)
  \/ Configure \/ ConfigureOpenSearch \/ Upload
  \/ \E c \in SearchConfigs : SearchRedis(c) \/ SearchOpenSearch(c) \/ SearchVector(c)
  \/ Delete \/ Stop

TextSpec == TextInit /\ [][TextNext]_textVars

-----------------------------------------------------------------------------
(* A published fulltext result was measured on the analysis its metadata   *)
(* names: the index stems exactly in english mode and pins the stop words, *)
(* the corpus was normalised for exactly the profile's fields, whoever     *)
(* built the index, whatever died in between, and also when the marker is  *)
(* stale, lost or unreadable; without a total the pages were shown to be   *)
(* the ranked ones; and a total that differs between the two engines is    *)
(* flagged on both. A vector run that built its own index never has        *)
(* another workload's analyzer or normalised text under its text filters.  *)
MeasuredAsPinned ==
  published # None =>
    IF UsesText(published.config)
    THEN LET p == published.profile
             c == published.config
         IN  /\ published.index.nostem = ~Stems(p)
             /\ published.index.pinned
             /\ published.corpus = NormalizedFields(p)
             /\ c.compound => published.count = "right"
             /\ server.engine = "redis" /\ ~published.request.counted =>
                  server.deep /\ published.probed = "same" /\ published.page # "shuffled"
             /\ published.warned <=> TotalHitsPlan("redis", c).mode # TotalHitsPlan("opensearch", c).mode
    ELSE ~published.skip => published.corpus = {} /\ (server.textFilters => ~published.index.pinned)
=============================================================================
