---------------------------- MODULE CorpusSource ----------------------------
(***************************************************************************)
(* Where a run's corpus comes from: the datasets/ directory, the download  *)
(* that fills it, the count checks between the files and datasets.json,    *)
(* the choice of reader, and the readers of every layout.  Two runs share  *)
(* the directory, a third may have died in it.                             *)
(*                                                                         *)
(* A file is its rows: the corpus row, or the query the row belongs to.  A *)
(* row of text can be blank or broken off; a binary file that is cut short *)
(* keeps its header ("torn") or not even that ("stub").                    *)
(***************************************************************************)
EXTENDS Integers, Sequences, FiniteSets

CONSTANTS
  Runs,            \* invocations that use the dataset at the same time
  Datasets,        \* entries of datasets.json, each with the archive behind its link and the --upload-reader values tried
  MaxAttempts,     \* MAX_DOWNLOAD_ATTEMPTS (15 in the code)
  MaxRestarts      \* bound: invocations started after the first of each run

Blank  == 0
Broken == -1
Absent == [at |-> "absent", rows |-> <<>>, top |-> 0]
File(rows, top) == [at |-> "whole", rows |-> rows, top |-> top]

Layouts == {"tar", "hdf5", "npy", "jsonl", "sparse", "hybrid", "multivector", "h5-multi"}
Flags   == {"auto", "stream", "memory"}

\* The files a layout reads, and among them the one with all of its vectors.
Reads(layout) ==
  CASE layout = "tar" -> {"vectors.npy", "payloads.jsonl", "tests.jsonl"}
    [] layout = "hdf5" -> {"file.hdf5"}
    [] layout = "npy" -> {"file.npy"}
    [] layout = "jsonl" -> {"vectors.jsonl", "queries.jsonl", "neighbours.jsonl"}
    [] layout = "sparse" -> {"data.csr", "queries.csr", "results.gt", "neighbours.jsonl"}
    [] layout = "hybrid" -> {"vectors.npy", "data.csr", "queries.npy", "queries.csr", "neighbours.jsonl"}
    [] layout = "multivector" -> {"data.mvec", "queries.mvec", "neighbours.jsonl"}
    [] layout = "h5-multi" -> {"part1", "part2"}
Vectors(layout) ==
  CASE layout \in {"tar", "hybrid"} -> "vectors.npy"
    [] layout = "hdf5" -> "file.hdf5"
    [] layout = "npy" -> "file.npy"
    [] layout = "jsonl" -> "vectors.jsonl"
    [] layout = "sparse" -> "data.csr"
    [] layout = "multivector" -> "data.mvec"
    [] layout = "h5-multi" -> "none"

IsLines(f) == f \in {"payloads.jsonl", "tests.jsonl", "vectors.jsonl", "queries.jsonl", "neighbours.jsonl"}

\* A file that can be part of dataset d: its rows are in their places, up to lines
\* that are blank or broken off, and its matrix has all of them; or it is the truth
\* of a larger sparse corpus.
Belongs(d, f, file) ==
  /\ file \in [at : {"absent", "whole", "torn", "stub", "fortran"}, rows : Seq(Int), top : Nat]
  /\ (f = Vectors(d.layout) /\ ~IsLines(f) /\ file.at # "absent") => d.size <= Len(file.rows)
  /\ \/ \A i \in DOMAIN file.rows : file.rows[i] = i \/ (IsLines(f) /\ file.rows[i] \in {Blank, Broken})
     \/ d.layout = "sparse" /\ f \in {"neighbours.jsonl", "results.gt"} /\ d.declared \in 1..file.top

\* An entry of datasets.json, what is behind its link and what is on disk.
IsDataset(d) ==
  /\ d.layout \in Layouts /\ d.declared \in Nat /\ d.size \in Nat /\ d.flags \subseteq Flags
  /\ DOMAIN d.archive = Reads(d.layout) /\ DOMAIN d.local = Reads(d.layout)
  /\ \A f \in Reads(d.layout) : Belongs(d, f, d.archive[f]) /\ Belongs(d, f, d.local[f])
  /\ d.link # "none" =>
       /\ d.members \in Seq(Reads(d.layout)) /\ d.members # <<>>
       /\ \A i \in DOMAIN d.members : d.archive[d.members[i]].at # "absent"

ASSUME SourceAssumption == MaxAttempts \in Nat /\ \A d \in Datasets : IsDataset(d)

VARIABLES
  ds,         \* the dataset: layout, declared count, link, members in archive order
  files,      \* the files under its path
  onDisk,     \* the path exists
  memory,     \* memory the host has left: "little", "enough" or "unknown"
  inv,        \* the invocations
  keys,       \* rows the server holds under the shared prefix
  restarts

sourceVars == <<ds, files, onDisk, memory, inv, keys, restarts>>

Nobody == [at |-> "off", flag |-> "auto", snapshot |-> "none", tmp |-> "none", tries |-> 0, pos |-> 1, configs |-> 0,
           warned |-> FALSE, rewritten |-> FALSE, readers |-> {}, via |-> "none", rows |-> <<>>, meta |-> <<>>,
           twin |-> <<>>, asked |-> FALSE, queries |-> <<>>, truth |-> <<>>]

SourceInit ==
  /\ ds \in Datasets
  /\ files = ds.local
  /\ onDisk = (\E f \in DOMAIN files : files[f] # Absent)
  /\ memory \in IF ds.layout = "tar" THEN {"little", "enough", "unknown"} ELSE {"unknown"}   \* consulted for tar only
  /\ inv = [r \in Runs |-> Nobody]
  /\ keys = 0 /\ restarts = 0

-----------------------------------------------------------------------------
\* Reading a file.  A result is ok or not, with rows.

Failed    == [ok |-> FALSE, rows |-> <<>>]
Got(rows) == [ok |-> TRUE, rows |-> rows]


\* A header that declares more than the file holds is an error in every binary reader.
Whole(f) == IF files[f].at \in {"whole", "fortran"} THEN Got(files[f].rows) ELSE Failed
NpyVectors(f)        == Whole(f)
SparseMatrix(f)      == Whole(f)
MultivectorMatrix(f) == Whole(f)
GtNeighbours(f)      == Whole(f)

\* The row counts read the header alone.
HeaderRows(f)   == IF files[f].at \in {"whole", "fortran", "torn"} THEN Got(files[f].rows) ELSE Failed
NpyRowCount(f)  == HeaderRows(f)
CsrRowCount(f)  == HeaderRows(f)
MvecRowCount(f) == HeaderRows(f)

\* read_hdf5_vectors, hdf5_train_row_count: HDF5 opens no truncated file.
Hdf5(f) == IF files[f].at = "whole" THEN Got(files[f].rows) ELSE Failed

Opens(f)  == files[f].at # "absent"
Parses(f) == \A i \in DOMAIN files[f].rows : files[f].rows[i] # Broken

\* The rows without the blank ones, in order.
Filled(rows) ==
  LET kept == {i \in DOMAIN rows : rows[i] # Blank} IN
  [k \in 1..Cardinality(kept) |-> rows[CHOOSE i \in kept : Cardinality({j \in kept : j <= i}) = k]]

\* read_jsonl_vectors and the query readers: blank lines are skipped.
Lines(f) == IF Opens(f) /\ Parses(f) THEN Got(Filled(files[f].rows)) ELSE Failed

\* count_nonempty_lines parses nothing, so a broken line counts.
CountedLines(f) == Got(Filled(files[f].rows))

\* visit_payloads_jsonl: a blank line is a row without metadata.
VisitPayloads(f) == IF Opens(f) /\ Parses(f) THEN Got(files[f].rows) ELSE Failed

\* read_neighbours_strict: every line is the row of its query.
NeighboursStrict(f) ==
  IF Opens(f) /\ Parses(f) /\ \A i \in DOMAIN files[f].rows : files[f].rows[i] # Blank
  THEN Got(files[f].rows) ELSE Failed

-----------------------------------------------------------------------------
\* The count checks.

Unknown == [kind |-> "unknown", n |-> 0]
Count(result) == IF result.ok THEN [kind |-> "count", n |-> Len(result.rows)] ELSE [kind |-> "err", n |-> 0]
IfThere(f, result) == IF Opens(f) THEN Count(result) ELSE Unknown

\* measured_vector_count: what the local files hold, without reading the vectors.
MeasuredVectorCount ==
  IF ~onDisk THEN Unknown
  ELSE CASE ds.layout \in {"tar", "hybrid"} -> IfThere("vectors.npy", NpyRowCount("vectors.npy"))
         [] ds.layout = "npy" -> IfThere("file.npy", NpyRowCount("file.npy"))
         [] ds.layout = "hdf5" -> Count(Hdf5("file.hdf5"))
         [] ds.layout = "jsonl" -> IfThere("vectors.jsonl", CountedLines("vectors.jsonl"))
         [] ds.layout = "sparse" -> IfThere("data.csr", CsrRowCount("data.csr"))
         [] ds.layout = "multivector" -> IfThere("data.mvec", MvecRowCount("data.mvec"))
         [] ds.layout = "h5-multi" -> Unknown

\* compare_counts: more than declared is an error, less a warning.
CompareCounts(declared, measured) ==
  CASE declared = measured -> "ok"
    [] measured > declared -> "err"
    [] measured < declared -> "short"

\* validate_vector_count; an undeclared count is 0.
ValidateVectorCount ==
  LET m == MeasuredVectorCount IN
  CASE m.kind = "err" -> "err"
    [] m.kind = "count" /\ ds.declared > 0 -> CompareCounts(ds.declared, m.n)
    [] OTHER -> "ok"

\* unmeasurable_corpus_is_present
UnmeasurableCorpusIsPresent ==
  CASE ds.layout = "sparse" -> Opens("data.csr")
    [] ds.layout = "multivector" -> Opens("data.mvec")
    [] ds.layout = "h5-multi" -> Opens("part1") /\ Opens("part2")
    [] OTHER -> FALSE

\* corpus_completeness_target: measured, or declared where a count has no cheap measure.
CorpusCompletenessTarget ==
  LET m == MeasuredVectorCount IN
  CASE ValidateVectorCount = "err" -> [kind |-> "err", n |-> 0]
    [] ValidateVectorCount # "err" /\ m.kind = "count" -> m
    [] m.kind = "unknown" /\ UnmeasurableCorpusIsPresent /\ ds.declared > 0 -> [kind |-> "count", n |-> ds.declared]
    [] OTHER -> Unknown

-----------------------------------------------------------------------------
\* The choice of reader.

\* streamable_layout: a C-order '<f4' array whose length fits its header.
Streamable == files["vectors.npy"].at = "whole"

\* in_memory_fits: "little" is less than twice the vectors; unknown memory is no refusal.
InMemoryFits(seen) == seen # "little"

\* auto_streams
AutoStreams(seen) == ds.huge \/ ~InMemoryFits(seen)

\* plan: "stream", "memory" or "err".
Plan(flag, seen) ==
  CASE flag = "memory" -> "memory"
    [] flag = "stream" -> IF ds.layout = "tar" /\ Streamable THEN "stream" ELSE "err"
    [] flag = "auto" -> IF ds.layout = "tar" /\ Streamable /\ AutoStreams(seen) THEN "stream" ELSE "memory"

\* MemorySnapshots::get_or_measure: the first reading of the invocation.
Snapshot(r) == IF inv[r].snapshot = "none" THEN memory ELSE inv[r].snapshot

-----------------------------------------------------------------------------
\* The readers of a corpus: vectors, their metadata, and for hybrid the sparse twins.

Corpus(vectors, meta, twin) ==
  [ok |-> vectors.ok /\ meta.ok /\ twin.ok, rows |-> vectors.rows, meta |-> meta.rows, twin |-> twin.rows]
NoCorpus == Corpus(Failed, Failed, Failed)
Alone(vectors) == Corpus(vectors, Got(<<>>), Got(<<>>))

\* read_compound_data
CompoundData ==
  LET vectors == NpyVectors("vectors.npy")
      meta == VisitPayloads("payloads.jsonl") IN
  IF ~Opens("payloads.jsonl") THEN Alone(vectors)
  ELSE IF Len(meta.rows) = Len(vectors.rows) THEN Corpus(vectors, meta, Got(<<>>)) ELSE NoCorpus

\* preflight_payloads: every payload row parsed and counted against the header.
Preflight ==
  LET meta == VisitPayloads("payloads.jsonl") IN
  Opens("payloads.jsonl") => meta.ok /\ Len(meta.rows) = Len(NpyRowCount("vectors.npy").rows)

\* CompoundStream::open, and the rows it hands out.
CompoundStream == IF Streamable /\ Preflight THEN CompoundData ELSE NoCorpus

\* read_hybrid_data
HybridData ==
  LET dense == NpyVectors("vectors.npy")
      sparse == SparseMatrix("data.csr") IN
  IF Len(dense.rows) = Len(sparse.rows) THEN Corpus(dense, Got(<<>>), sparse) ELSE NoCorpus

\* read_sparse_data, read_multivector_data
SparseData      == Alone(SparseMatrix("data.csr"))
MultivectorData == Alone(MultivectorMatrix("data.mvec"))

\* load_all, and the readers of the layouts it refuses.
LoadAll(reader) ==
  CASE ds.layout = "tar" -> IF reader = "stream" THEN CompoundStream ELSE CompoundData
    [] ds.layout = "hdf5" -> Alone(Hdf5("file.hdf5"))
    [] ds.layout = "npy" -> Alone(NpyVectors("file.npy"))
    [] ds.layout = "jsonl" -> Alone(Lines("vectors.jsonl"))
    [] ds.layout = "sparse" -> SparseData
    [] ds.layout = "hybrid" -> HybridData
    [] ds.layout = "multivector" -> MultivectorData
    [] ds.layout = "h5-multi" -> NoCorpus

-----------------------------------------------------------------------------
\* The readers of queries and ground truth.

Asked(queries, truth) == [ok |-> queries.ok /\ truth.ok, queries |-> queries.rows, truth |-> truth.rows]
NoQueries == [ok |-> FALSE, queries |-> <<>>, truth |-> <<>>]
RowForRow(a) == IF Len(a.queries) = Len(a.truth) THEN a ELSE NoQueries

\* read_jsonl_queries: the ground truth is optional and its rows are not counted.
JsonlQueries ==
  LET queries == Lines("queries.jsonl") IN
  Asked(queries, IF Opens("neighbours.jsonl") THEN Lines("neighbours.jsonl")
                 ELSE Got([i \in DOMAIN queries.rows |-> Blank]))

\* Mutant: the largest id is not looked at.
SparseAnyCorpus ==
  LET gt == IF Opens("neighbours.jsonl") THEN "neighbours.jsonl" ELSE "results.gt" IN
  RowForRow(Asked(SparseMatrix("queries.csr"), IF gt = "results.gt" THEN GtNeighbours(gt) ELSE NeighboursStrict(gt)))

\* read_sparse_queries: neighbours.jsonl wins; rows aligned, ids within the declared corpus.
SparseQueries ==
  LET gt == IF Opens("neighbours.jsonl") THEN "neighbours.jsonl" ELSE "results.gt"
      asked == RowForRow(Asked(SparseMatrix("queries.csr"),
                             IF gt = "results.gt" THEN GtNeighbours(gt) ELSE NeighboursStrict(gt))) IN
  IF ds.declared > 0 /\ files[gt].top >= ds.declared THEN NoQueries ELSE asked

\* read_hybrid_queries
HybridQueries ==
  LET dense == NpyVectors("queries.npy")
      sparse == SparseMatrix("queries.csr") IN
  IF dense.ok /\ sparse.ok /\ Len(dense.rows) = Len(sparse.rows)
  THEN RowForRow(Asked(dense, NeighboursStrict("neighbours.jsonl"))) ELSE NoQueries

\* read_multivector_queries
MultivectorQueries == RowForRow(Asked(MultivectorMatrix("queries.mvec"), NeighboursStrict("neighbours.jsonl")))

\* read_compound_queries: a row carries its own ground truth.
CompoundQueries == Asked(Lines("tests.jsonl"), Lines("tests.jsonl"))

\* read_hdf5_queries: both datasets are in the one file.
Hdf5Queries ==
  LET q == IF Hdf5("file.hdf5").ok THEN Got(ds.queries) ELSE Failed IN Asked(q, q)

\* read_queries and its siblings.
ReadQueries ==
  CASE ds.layout = "tar" -> CompoundQueries
    [] ds.layout = "hdf5" -> Hdf5Queries
    [] ds.layout = "jsonl" -> JsonlQueries
    [] ds.layout = "sparse" -> SparseQueries
    [] ds.layout = "hybrid" -> HybridQueries
    [] ds.layout = "multivector" -> MultivectorQueries
    [] ds.layout \in {"npy", "h5-multi"} -> NoQueries

\* ensure_multivector_normalized, in both multivector readers.
RefusesMetric == ds.layout = "multivector" /\ ds.normalized

-----------------------------------------------------------------------------
\* The steps of an invocation.

Set(r, changes) == inv' = [inv EXCEPT ![r] = changes]
Stays(names) == UNCHANGED names
EndInError == [Nobody EXCEPT !.at = "failed"]
\* The path is checked again; the temporary file is gone.
Unpacked(r) == [inv[r] EXCEPT !.at = "resolve", !.tmp = "none", !.pos = 1, !.tries = 0]

\* run_experiments: a new process, with its own memory snapshots.
StartRun(r, flag) ==
  /\ inv[r].at \in {"off", "failed", "done"}
  /\ inv[r].at # "off" => restarts < MaxRestarts
  /\ restarts' = IF inv[r].at = "off" THEN restarts ELSE restarts + 1
  /\ Set(r, [Nobody EXCEPT !.at = "gate", !.flag = flag])
  /\ Stays(<<ds, files, onDisk, memory, keys>>)

\* resolve_path: the first test decides; what exists is taken as it is.
ResolvePath(r) ==
  /\ inv[r].at = "resolve"
  /\ Set(r, CASE RefusesMetric -> EndInError
              [] ~RefusesMetric /\ onDisk /\ (ds.layout = "h5-multi" => Opens("part1")) -> [inv[r] EXCEPT !.at = "validate"]
              [] ~RefusesMetric /\ ~onDisk /\ ds.link # "none" -> [inv[r] EXCEPT !.at = "fetch", !.tries = 0]
              [] OTHER -> EndInError)
  /\ Stays(<<ds, files, onDisk, memory, keys, restarts>>)

\* with_retries
WithRetries(r) == IF inv[r].tries + 1 < MaxAttempts THEN [inv[r] EXCEPT !.tries = @ + 1] ELSE EndInError

\* fetch_to_file under with_retries.  A body that ends early without an error is kept.
Fetch(r) ==
  /\ inv[r].at = "fetch"
  /\ \/ \E body \in {"whole", "short"} : Set(r, [inv[r] EXCEPT !.at = "create", !.tmp = body])
     \/ Set(r, WithRetries(r))
  /\ Stays(<<ds, files, onDisk, memory, keys, restarts>>)

\* extract_tgz creates the directory before it unpacks; the others create the file.
CreateTarget(r) ==
  /\ inv[r].at = "create"
  /\ onDisk' = (onDisk \/ ds.link = "tgz")
  /\ Set(r, [inv[r] EXCEPT !.at = "unpack", !.pos = 1])
  /\ Stays(<<ds, files, memory, keys, restarts>>)

\* What a reader may find while a member is written, or after its writer died.
Cuts(f, whole) ==
  IF IsLines(f)
  THEN UNION {{[whole EXCEPT !.rows = SubSeq(@, 1, n)], [whole EXCEPT !.rows = Append(SubSeq(@, 1, n), Broken)]} :
                n \in 0..(Len(whole.rows) - 1)}
  ELSE {[whole EXCEPT !.at = "stub"], [whole EXCEPT !.at = "torn"]}

\* Everyone who has validated the corpus and not read it yet reads another one.
Rewritten(i) == [r \in Runs |-> IF i[r].at = "load" THEN [i[r] EXCEPT !.rewritten = TRUE] ELSE i[r]]

\* unpack: the member is truncated, then written.
Truncate(r) ==
  /\ inv[r].at = "unpack"
  /\ LET f == ds.members[inv[r].pos] IN
     \E cut \in Cuts(f, ds.archive[f]) : files' = [files EXCEPT ![f] = cut]
  /\ onDisk' = TRUE
  /\ inv' = Rewritten([inv EXCEPT ![r].at = "write"])
  /\ Stays(<<ds, memory, keys, restarts>>)

\* extract_or_move.  A short body fails where the archive is decoded; a plain copy does not notice.
Write(r) ==
  /\ inv[r].at = "write"
  /\ LET f    == ds.members[inv[r].pos]
         more == [inv[r] EXCEPT !.at = "unpack", !.pos = @ + 1]
     IN
     \/ /\ inv[r].tmp = "short"
        /\ Set(r, IF ds.link = "plain" THEN Unpacked(r) ELSE EndInError)
        /\ UNCHANGED files
     \/ /\ inv[r].tmp = "short" => inv[r].pos < Len(ds.members)
        /\ files' = [files EXCEPT ![f] = ds.archive[f]]
        /\ inv' = Rewritten([inv EXCEPT ![r] = IF inv[r].pos < Len(ds.members) THEN more ELSE Unpacked(r)])
  /\ Stays(<<ds, onDisk, memory, keys, restarts>>)

\* Redis upload in shared-corpus mode: skip when the server holds the target.
SharedGate(r) ==
  /\ inv[r].at = "gate"
  /\ LET target == CorpusCompletenessTarget IN
     Set(r, CASE target.kind = "err" -> EndInError
              [] target.kind = "count" /\ target.n > 0 /\ keys >= target.n ->
                   [inv[r] EXCEPT !.at = "queries", !.via = "skip", !.rows = [i \in 1..keys |-> i],
                                  !.meta = <<>>, !.twin = <<>>, !.warned = ValidateVectorCount = "short",
                                  !.rewritten = FALSE]
              [] OTHER -> [inv[r] EXCEPT !.at = "resolve"])
  /\ Stays(<<ds, files, onDisk, memory, keys, restarts>>)

\* Any other upload.
NoGate(r) ==
  /\ inv[r].at = "gate"
  /\ Set(r, [inv[r] EXCEPT !.at = "resolve"])
  /\ Stays(<<ds, files, onDisk, memory, keys, restarts>>)

\* get_path and validate_vector_count; read_sparse_data compares nothing.
Validate(r) ==
  /\ inv[r].at = "validate"
  /\ LET verdict == IF ds.layout = "sparse" THEN "ok" ELSE ValidateVectorCount IN
     Set(r, IF verdict = "err" THEN EndInError
            ELSE [inv[r] EXCEPT !.at = "load", !.warned = (verdict = "short"), !.rewritten = FALSE])
  /\ Stays(<<ds, files, onDisk, memory, keys, restarts>>)

\* The corpus read; its upload may end anywhere, only a whole one goes on.
Loads(r, reader, chosen, seen) ==
  LET data == LoadAll(reader) IN
  \/ /\ ~data.ok /\ Set(r, EndInError)
     /\ Stays(keys)
  \/ /\ data.ok
     /\ Set(r, [inv[r] EXCEPT !.at = "queries", !.snapshot = seen, !.readers = @ \cup chosen, !.via = "read",
                              !.rows = data.rows, !.meta = data.meta, !.twin = data.twin])
     /\ keys' = IF Len(data.rows) > keys THEN Len(data.rows) ELSE keys
  \/ /\ data.ok /\ Set(r, EndInError)
     /\ keys' \in keys..(IF Len(data.rows) > keys THEN Len(data.rows) ELSE keys)

\* open_upload: the engines that can stream.
OpenUpload(r) ==
  /\ inv[r].at = "load"
  /\ LET seen == IF inv[r].flag = "auto" THEN Snapshot(r) ELSE inv[r].snapshot
         plan == Plan(inv[r].flag, seen) IN
     IF plan = "err" THEN Set(r, EndInError) /\ Stays(keys) ELSE Loads(r, plan, {plan}, seen)
  /\ Stays(<<ds, files, onDisk, memory, restarts>>)

\* read_vectors: the engines that cannot.  auto refuses what memory cannot hold.
ReadVectors(r) ==
  /\ inv[r].at = "load"
  /\ LET asks == inv[r].flag = "auto" /\ ds.layout = "tar" /\ Streamable
         seen == IF asks THEN Snapshot(r) ELSE inv[r].snapshot IN
     IF inv[r].flag = "stream" \/ (asks /\ ~InMemoryFits(seen))
     THEN Set(r, EndInError) /\ Stays(keys)
     ELSE Loads(r, "memory", {}, seen)
  /\ Stays(<<ds, files, onDisk, memory, restarts>>)

\* The search reads the queries; the next configuration starts over at get_path.
ReadQuerySet(r) ==
  /\ inv[r].at = "queries"
  /\ LET asked == ReadQueries IN
     Set(r, IF asked.ok /\ ~RefusesMetric
            THEN [inv[r] EXCEPT !.at = "searched", !.asked = TRUE, !.queries = asked.queries, !.truth = asked.truth]
            ELSE EndInError)
  /\ Stays(<<ds, files, onDisk, memory, keys, restarts>>)

NextConfig(r) ==
  /\ inv[r].at = "searched"
  /\ Set(r, IF inv[r].configs + 1 < ds.configs
            THEN [inv[r] EXCEPT !.at = "gate", !.configs = @ + 1, !.via = "none", !.asked = FALSE, !.warned = FALSE]
            ELSE [Nobody EXCEPT !.at = "done"])
  /\ Stays(<<ds, files, onDisk, memory, keys, restarts>>)

\* The process dies; the files stay as they are.
Kill(r) ==
  /\ inv[r].at \in {"fetch", "create", "unpack", "write"}
  /\ Set(r, EndInError)
  /\ Stays(<<ds, files, onDisk, memory, keys, restarts>>)

\* The vectors of a compound dataset are deleted to reclaim the disk.
ReclaimDisk ==
  /\ ds.layout = "tar" /\ onDisk /\ Opens("vectors.npy") /\ \A r \in Runs : inv[r].at \in {"off", "failed", "done"}
  /\ files' = [files EXCEPT !["vectors.npy"] = Absent]
  /\ Stays(<<ds, onDisk, memory, inv, keys, restarts>>)

\* The server of a local run grows and shrinks.
MemoryMoves ==
  /\ memory # "unknown" /\ memory' \in {"little", "enough"} \ {memory}
  /\ Stays(<<ds, files, onDisk, inv, keys, restarts>>)

SourceNext ==
  \/ \E r \in Runs :
       \/ \E flag \in ds.flags : StartRun(r, flag)
       \/ ResolvePath(r) \/ Fetch(r) \/ CreateTarget(r) \/ Truncate(r) \/ Write(r)
       \/ SharedGate(r) \/ NoGate(r) \/ Validate(r) \/ OpenUpload(r) \/ ReadVectors(r)
       \/ ReadQuerySet(r) \/ NextConfig(r) \/ Kill(r)
  \/ ReclaimDisk \/ MemoryMoves

SourceSpec == SourceInit /\ [][SourceNext]_sourceVars

-----------------------------------------------------------------------------
FullRows == ds.size

\* A run measures the corpus datasets.json describes: a matrix cut short is never
\* read as a smaller one and never satisfies the shared-corpus gate, text cut
\* short is reported, more rows than declared are refused, and every row keeps
\* its own payload and its own sparse twin.  Left out: read_sparse_data, which
\* compares nothing, and a corpus another run rewrites between check and read.
CorpusAsDeclared ==
  \A r \in Runs : inv[r].via # "none" =>
    /\ ds.layout # "jsonl" => Len(inv[r].rows) >= FullRows
    /\ ds.layout = "jsonl" /\ Len(inv[r].rows) < ds.declared => inv[r].warned \/ inv[r].rewritten
    /\ inv[r].via = "read" /\ ds.declared > 0 /\ ds.layout # "sparse" =>
         Len(inv[r].rows) <= ds.declared \/ inv[r].rewritten
    /\ \A beside \in {inv[r].meta, inv[r].twin} \ {<<>>} :
         /\ DOMAIN beside = DOMAIN inv[r].rows
         /\ \A i \in DOMAIN beside : beside[i] \in {inv[r].rows[i], Blank}

\* Every query is scored against its own ground truth, whichever file it came
\* from and whatever a killed extraction left.  Left out: the jsonl layout,
\* whose reader skips blank lines and does not count the rows.
TruthAligned ==
  \A r \in Runs : inv[r].asked /\ ds.layout # "jsonl" => inv[r].truth = inv[r].queries

\* One invocation uploads a dataset through one reader, whatever the server it
\* fills does to the host's memory: upload_time means the same in every row.
OneReader == \A r \in Runs : Cardinality(inv[r].readers) <= 1

\* What is measured is the dataset that was asked for: its corpus, its truth, by
\* one reader for the whole run.
DatasetAsDeclared == CorpusAsDeclared /\ TruthAligned /\ OneReader

=============================================================================
