--------------------------- MODULE MCPublication ---------------------------
(***************************************************************************)
(* The dataset directory from both sides: prepare-msmarco that writes it,  *)
(* and the runs that download, check and read it.  They share no state of   *)
(* these models, so `side` picks the one that moves.                        *)
(***************************************************************************)
EXTENDS Publication, CorpusSource, TLC

CONSTANT Off
RunSymmetry == Permutations(Runs)
VARIABLE side
mcVars == <<side, dirVars, sourceVars>>

WriterOff ==
  /\ pub = NoDigests /\ part = NoDigests /\ man = NoManifest /\ manPart = NoManifest /\ marker = FALSE
  /\ cmd = "idle" /\ stage = "idle" /\ todo = <<>> /\ made = NoDigests /\ newMan = NoManifest
  /\ ends = "none" /\ returned = "none" /\ cut = {}
ReadersOff ==
  /\ ds = Off /\ files = Off /\ onDisk = FALSE /\ memory = "unknown"
  /\ inv = [r \in Runs |-> Nobody] /\ keys = 0 /\ restarts = 0

MCInit ==
  \/ side = "writer" /\ PrepareInit /\ ReadersOff
  \/ side = "readers" /\ WriterOff /\ SourceInit

MCNext ==
  \/ side = "writer" /\ PrepareNext /\ UNCHANGED <<side, sourceVars>>
  \/ side = "readers" /\ SourceNext /\ UNCHANGED <<side, dirVars>>

MCSpec == MCInit /\ [][MCNext]_mcVars

-----------------------------------------------------------------------------
\* Three corpus rows, two queries.
Rows3   == File(<<1, 2, 3>>, 0)
Ask     == File(<<1, 2>>, 0)
Truth   == File(<<1, 2>>, 2)
Members(l) ==
  CASE l = "tar" -> <<"tests.jsonl", "payloads.jsonl", "vectors.npy">>
    [] l = "hdf5" -> <<"file.hdf5">>
    [] l = "npy" -> <<"file.npy">>
    [] l = "jsonl" -> <<"vectors.jsonl", "queries.jsonl", "neighbours.jsonl">>
    [] l = "sparse" -> <<"queries.csr", "results.gt", "data.csr">>
    [] l = "hybrid" -> <<"vectors.npy", "data.csr", "queries.npy", "queries.csr", "neighbours.jsonl">>
    [] l = "multivector" -> <<"data.mvec", "queries.mvec", "neighbours.jsonl">>
    [] l = "h5-multi" -> <<"part1", "part2">>
Content(f) ==
  CASE f \in {"vectors.npy", "payloads.jsonl", "file.hdf5", "file.npy", "vectors.jsonl", "data.csr", "data.mvec"} -> Rows3
    [] f \in {"tests.jsonl", "queries.jsonl", "queries.csr", "queries.npy", "queries.mvec"} -> Ask
    [] f \in {"neighbours.jsonl", "results.gt"} -> Truth
    [] f \in {"part1", "part2"} -> File(<<1>>, 0)
Archive(l) == [f \in Reads(l) |-> IF l = "sparse" /\ f = "neighbours.jsonl" THEN Absent ELSE Content(f)]
Empty(l)   == [f \in Reads(l) |-> Absent]
\* A download is followed by the default reader alone but for one compound dataset.
Dataset(l, declared, link) ==
  [layout |-> l, declared |-> declared, link |-> link, members |-> Members(l), archive |-> Archive(l),
   local |-> Empty(l), huge |-> FALSE, configs |-> 1,
   flags |-> IF link = "none" THEN Flags ELSE {"auto"}, normalized |-> FALSE, size |-> 3, queries |-> <<1, 2>>]
Local(l, f, file) == [Dataset(l, 3, "none") EXCEPT !.local = [Archive(l) EXCEPT ![f] = file]]

MCDatasets ==
  {[Dataset("tar", 3, "tgz") EXCEPT !.flags = {"auto", "stream"}],
   [Dataset("tar", 3, "tgz") EXCEPT !.members = <<"vectors.npy", "payloads.jsonl", "tests.jsonl">>],
   [Dataset("tar", 3, "none") EXCEPT !.local = Archive("tar"), !.configs = 2, !.huge = TRUE],
   [Dataset("tar", 3, "none") EXCEPT !.local = Archive("tar"), !.configs = 2], [Dataset("tar", 2, "none") EXCEPT !.local = Archive("tar")],
   Dataset("hdf5", 3, "plain"), Dataset("hdf5", 4, "plain"), Dataset("npy", 3, "bz2"),
   Dataset("jsonl", 3, "tgz"), [Dataset("jsonl", 0, "none") EXCEPT !.local = [Archive("jsonl") EXCEPT !["vectors.jsonl"] = Ask]], Dataset("sparse", 3, "tgz"), Dataset("hybrid", 3, "tgz"),
   Dataset("multivector", 3, "tgz"), [Dataset("multivector", 3, "none") EXCEPT !.local = Archive("multivector"), !.normalized = TRUE],
   Local("tar", "vectors.npy", [Rows3 EXCEPT !.at = "fortran"]),
   Local("tar", "payloads.jsonl", File(<<1, Blank, 3>>, 0)), Local("tar", "payloads.jsonl", File(<<1, 2>>, 0)),
   Local("sparse", "results.gt", File(<<1>>, 2)),                      \* transposed header
   Local("sparse", "results.gt", File(<<11, 12>>, 5)),                 \* of a larger corpus
   Local("sparse", "neighbours.jsonl", Truth), Local("sparse", "neighbours.jsonl", File(<<1, Blank>>, 1)),
   Local("hybrid", "data.csr", Ask), Local("hybrid", "queries.csr", Rows3),
   Local("multivector", "neighbours.jsonl", File(<<1>>, 1)),
   Local("h5-multi", "part1", File(<<1>>, 0)), Local("h5-multi", "part2", Absent), Local("h5-multi", "part1", Absent),
   [Dataset("tar", 3, "none") EXCEPT !.local = Empty("tar")]}

=============================================================================
