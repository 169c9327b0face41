--------------------------- MODULE WorkloadLayout ---------------------------
(***************************************************************************)
(* Which workload runs on which index.  An engine config resolves its      *)
(* search configs to workloads and to the one index layout they share, and *)
(* builds an index in it, or with --skip-upload takes the index an earlier *)
(* invocation left, perhaps of another config and another environment.     *)
(* Every result names the layout, the algorithm and the compression it was *)
(* measured on, from what the run resolved; the read-backs before the      *)
(* search are what makes the names true.                                   *)
(*   site     engine, what the schema holds, whether the server has LVQ,   *)
(*            the prepared filter queries of the dataset                   *)
(*   built    the live index: VECTOR field, exact scalar types, algorithm, *)
(*            compression, and whether its corpus is whole                 *)
(*   sitting  the invocation                                               *)
(*   shown    the last result                                              *)
(***************************************************************************)
EXTENDS Naturals, FiniteSets

CONSTANTS LayoutConfigs, \* engine configs, see MCTextWorkloads
          NoIndex, NoSitting, NoResult

VARIABLES site, built, sitting, shown
layoutVars == <<site, built, sitting, shown>>

Workloads  == {"vector", "hybrid", "fulltext", "filter-only", "hybrid-rrf"}
Both       == {"redis", "opensearch"}
Sites == {s \in [engine : Both \cup {"valkey", "other"}, tags : BOOLEAN, floats : BOOLEAN, lvq : BOOLEAN,
                 prepared : {"none", "same", "other"}] :
            s.engine \notin Both => ~s.tags /\ ~s.floats /\ ~s.lvq /\ s.prepared = "none"}

-----------------------------------------------------------------------------
(* The plan of one engine config. *)
RequiredLayout(w)   == IF w = "filter-only" THEN "no-vector" ELSE "vector"
LayoutServes(l, w)  == l = "full" \/ RequiredLayout(w) = l
HasGroundTruth(w)   == w \in {"vector", "hybrid", "hybrid-rrf"}

Implemented(engine)      == IF engine \in Both THEN Workloads ELSE {"vector"}
LegacyFilterOnly(engine) == engine = "valkey"
SupportsSkip(engine)     == "filter-only" \in Implemented(engine) \/ LegacyFilterOnly(engine)
Dispatchable(engine, w)  == w \in Implemented(engine) \/ (w = "filter-only" /\ LegacyFilterOnly(engine))

Resolved(c) ==
  {CASE c.skip -> "filter-only" [] ~c.skip /\ w = "unset" -> "vector" [] OTHER -> w : w \in c.declared}

(* {} when refused *)
CombineLayouts(ws) ==
  LET needed == {RequiredLayout(w) : w \in ws}
  IN  IF needed = {"vector", "no-vector"} THEN (IF site.engine \in Both THEN {"full"} ELSE {})
      ELSE IF needed = {"no-vector"} THEN {"no-vector"} ELSE {"vector"}

PlanLayouts(c) ==
  IF \/ c.skip /\ (c.declared \ {"unset", "filter-only"} # {} \/ ~SupportsSkip(site.engine))
     \/ ~c.skip /\ ~(Resolved(c) \subseteq Implemented(site.engine))
  THEN {} ELSE IF c.skip THEN {"no-vector"} ELSE CombineLayouts(Resolved(c))

(* the fulltext blocks may ask for no vectors, or for exact tags *)
ApplyLayout(c, layouts) ==
  LET ws == Resolved(c)
  IN  IF layouts = {} \/ "fulltext" \notin c.declared \/ c.text = "plain" THEN layouts
      ELSE IF \E w \in ws : HasGroundTruth(w) THEN {}
      ELSE IF c.text = "no-vector" THEN {"no-vector"} ELSE {"full"}

CheckCalibration(c) == \A w \in c.calibrated : w = "vector" \/ c.skip
CheckUpdateSearchRatio(c, l) ==
  c.mixed => (l = "no-vector" /\ Resolved(c) = {"filter-only"}) \/ Resolved(c) \subseteq {"vector"}
CheckSearchIds(c) == c.ids => Resolved(c) = {"fulltext"}
CheckCapture(c)   == c.dump => site.engine \in Both
(* one result limit per concurrency among the filter-only configs *)
SearchParamIndices(c) == "filter-only" \in Resolved(c) => c.limits = "agree"

-----------------------------------------------------------------------------
(* Compression: the config's, else the environment's; "bad" is no value    *)
(* the engine takes.  The environment applies to an index with vectors.    *)
EnvApplies(c, layout) == layout # "no-vector"
Sq8Resolve(c, env, layout) ==
  LET asked == IF c.compression # "none" THEN c.compression
               ELSE IF EnvApplies(c, layout) THEN env ELSE "none"
  IN  IF asked = "none" THEN {"none"}
      ELSE IF layout = "no-vector" THEN {}
      ELSE IF c.algorithm = "SVS" THEN {"LVQ8"} ELSE {asked} \cap {"SQ8", "SQ8:0"}
CheckEngineReadsSq8Keys(c) == c.compression = "none" \/ site.engine = "redis"

CompressionOf(c, env, layout) == IF site.engine = "redis" THEN Sq8Resolve(c, env, layout) ELSE {"none"}

(* the server falls back to scalar quantisation where it has no LVQ *)
Realised(compression) == IF compression = "LVQ8" /\ ~site.lvq THEN "GlobalSQ8" ELSE compression

AcceptedLayouts(c) ==
  {l \in ApplyLayout(c, PlanLayouts(c)) :
     /\ CheckCalibration(c) /\ CheckUpdateSearchRatio(c, l) /\ CheckSearchIds(c) /\ CheckCapture(c)
     /\ SearchParamIndices(c) /\ CheckEngineReadsSq8Keys(c)}

-----------------------------------------------------------------------------
LayoutInit ==
  /\ site \in Sites
  /\ built = NoIndex /\ sitting = NoSitting /\ shown = NoResult

Sit(c, env, reuse) ==
  /\ sitting = NoSitting
  /\ \E l \in AcceptedLayouts(c) : \E z \in CompressionOf(c, env, l) :
       sitting' = [stage |-> IF reuse THEN "check" ELSE "build", config |-> c, layout |-> l, algorithm |-> c.algorithm,
                   compression |-> z]
  /\ shown' = NoResult
  /\ UNCHANGED <<site, built>>

(* mistake: only a requested compression is looked for *)
VerifyRequestedOnly(index) ==
  index.vector => index.algorithm = sitting.algorithm
                    /\ (sitting.compression # "none" => index.compression = sitting.compression)

(* verify_vector_field_compression: algorithm and compression, both ways *)
VerifyVectorField(index) ==
  index.vector => index.algorithm = sitting.algorithm /\ index.compression = sitting.compression

(* configure, then its own read-back: the index stays when that refuses *)
BuildIndex ==
  /\ sitting # NoSitting /\ sitting.stage = "build"
  /\ LET new == [vector |-> sitting.layout # "no-vector", exact |-> sitting.layout # "vector",
                 algorithm |-> sitting.algorithm, compression |-> Realised(sitting.compression), whole |-> FALSE]
     IN  /\ built' = new
         /\ sitting' = IF site.engine = "redis" => VerifyVectorField(new)
                       THEN [sitting EXCEPT !.stage = "fill"] ELSE NoSitting
  /\ UNCHANGED <<site, shown>>

Fill ==
  /\ sitting # NoSitting /\ sitting.stage = "fill"
  /\ \/ built' = [built EXCEPT !.whole = TRUE] /\ sitting' = [sitting EXCEPT !.stage = "check"]
     \/ UNCHANGED built /\ sitting' = NoSitting
  /\ UNCHANGED <<site, shown>>

(* Tags (Redis) and floats (OpenSearch) are what tells the layouts apart;  *)
(* a schema without them is not read.                                      *)
Telling == IF site.engine = "redis" THEN site.tags ELSE site.floats

ValidateFullSchema == built.vector /\ (Telling => built.exact)
ValidateVectorLayout == Telling => ~built.exact
ValidateFilterOnlySchema == ~built.vector /\ (Telling => built.exact)

CheckIndexLayout ==
  site.engine \in Both =>
    /\ sitting.layout = "full" => ValidateFullSchema
    /\ sitting.layout = "vector" => ValidateVectorLayout
    /\ site.engine = "redis" /\ sitting.layout # "no-vector" => VerifyVectorField(built)

Check ==
  /\ sitting # NoSitting /\ sitting.stage = "check"
  /\ sitting' = IF built # NoIndex /\ built.whole /\ CheckIndexLayout THEN [sitting EXCEPT !.stage = "search"]
                ELSE NoSitting
  /\ UNCHANGED <<site, built, shown>>

-----------------------------------------------------------------------------
(* The dispatch.  Each path answers with the fingerprint of what it ran. *)
Show(w) == shown' = [workload |-> w, layout |-> sitting.layout, algorithm |-> sitting.algorithm,
                     compression |-> sitting.compression, index |-> built, counted |-> site.prepared = "same"]

(* KNN: the server refuses every query on an index without the field *)
SearchKnn(w) ==
  /\ sitting.layout # "no-vector" /\ built.vector

(* fulltext reads the scalar schema back when it has no vectors or compounds *)
SearchText ==
  /\ sitting.layout = "no-vector" => ValidateFilterOnlySchema
  /\ sitting.config.text = "compound" => ValidateFullSchema

(* a prepared set must be this corpus's, every answer's total the expected *)
ReadPrepared == site.prepared # "other"
CheckCounts(totals) == site.prepared = "same" => totals = "expected"
ValidatePage(page) == page = "complete"

SearchFilterOnly(totals, page) ==
  /\ LayoutServes(sitting.layout, "filter-only")
  /\ site.engine \in Both =>
       /\ IF sitting.layout = "full" THEN ValidateFullSchema ELSE ValidateFilterOnlySchema
       /\ ReadPrepared /\ ValidatePage(page) /\ CheckCounts(totals)

SearchWorkload(w) ==
  /\ sitting # NoSitting /\ sitting.stage = "search"
  /\ w \in Resolved(sitting.config) /\ Dispatchable(site.engine, w)
  /\ \E totals \in {"expected", "off"}, page \in {"complete", "partial"} :
       IF CASE w = "fulltext" -> SearchText
            [] w = "filter-only" -> SearchFilterOnly(totals, page)
            [] OTHER -> SearchKnn(w)
       THEN Show(w) /\ UNCHANGED sitting
       ELSE shown' = NoResult /\ sitting' = NoSitting
  /\ UNCHANGED <<site, built>>

Leave ==
  /\ sitting # NoSitting
  /\ sitting' = NoSitting /\ shown' = NoResult
  /\ built' \in {built, NoIndex}
  /\ UNCHANGED site

LayoutNext ==
  \/ \E c \in LayoutConfigs, env \in {"none", "SQ8", "bad"}, reuse \in BOOLEAN : Sit(c, env, reuse)
  \/ BuildIndex \/ Fill \/ Check \/ (\E w \in Workloads : SearchWorkload(w)) \/ Leave

LayoutSpec == LayoutInit /\ [][LayoutNext]_layoutVars

-----------------------------------------------------------------------------
(* A Redis or OpenSearch result is labelled with the index it was measured *)
(* on, whichever config and environment built it: a VECTOR field exactly   *)
(* where the label has one, exact scalar types exactly where it has them   *)
(* (when the schema holds a field that shows it), the algorithm and, on    *)
(* Redis, the compression of the result's effective config. Only fulltext, *)
(* which ranks without the vectors, may run as `vector` on an index that   *)
(* has none. Every engine runs KNN on vectors only.                        *)
LabelledAsBuilt ==
  shown # NoResult =>
    /\ HasGroundTruth(shown.workload) => shown.index.vector
    /\ site.engine \in Both =>
         /\ (shown.layout # "no-vector" <=> shown.index.vector) \/ (shown.workload = "fulltext" /\ shown.layout = "vector")
         /\ Telling => (shown.layout # "vector" <=> shown.index.exact)
    /\ site.engine = "redis" /\ shown.index.vector =>
         shown.algorithm = shown.index.algorithm /\ shown.compression = shown.index.compression
=============================================================================
