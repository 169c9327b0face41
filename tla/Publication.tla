---------------------------- MODULE Publication ----------------------------
(***************************************************************************)
(* prepare-msmarco's dataset directory: builds and in-place upgrades stage *)
(* every file as <name>.part, seal the digests of the files to come into   *)
(* PREPARED.json, publish by one rename per file and write COMPLETE last.  *)
(* A command may die between any two file operations; the next one first   *)
(* tries to finish a sealed publication (recover_publication).             *)
(*                                                                         *)
(* A file's content is a token: p0 and p1 are payloads without and with    *)
(* the derived fields, t0 and t1 queries without and with KNN truth, h0    *)
(* and h1 hybrid queries computed from p0 and p1, "torn" a partial write.  *)
(***************************************************************************)
EXTENDS Naturals, Sequences

Data  == {"vectors", "payloads", "filter", "tests", "hybrid"}
Files == Data \cup {"manifest"}

CONSTANT Commands   \* the subcommands a user may run

ASSUME CommandsAssumption ==
  Commands \subseteq {"build_full", "build_text", "force_full", "force_text",
                      "derived", "knn", "hybrid"}

NoDigests == [f \in Data |-> "none"]

\* PREPARED.json: its kind, the two truth capabilities, the sealed digests.
Manifest(kind, truth, filtered, digests) ==
  [kind |-> kind, truth |-> truth, filtered |-> filtered, digests |-> digests]
NoManifest   == Manifest("none", FALSE, FALSE, NoDigests)
TornManifest == Manifest("torn", FALSE, FALSE, NoDigests)
Legacy       == Manifest("legacy", FALSE, FALSE, NoDigests)

VARIABLES
  pub, part,       \* per data file: the published and the staged content
  man, manPart,    \* PREPARED.json and PREPARED.json.part
  marker,          \* COMPLETE exists
  cmd, stage,      \* the command running and how far it is
  todo,            \* file operations it has still to do, in order
  made, newMan,    \* the contents it stages
  ends,            \* what it returns after its last operation
  returned,        \* what the last command returned
  cut              \* history: names of a sealed publication cut short

disk == <<pub, part, man, manPart, marker>>
dirVars == <<disk, cmd, stage, todo, made, newMan, ends, returned, cut>>

\* An empty directory, or an extracted tarball of one of the older layouts.
Tarball(p, f, h) ==
  [vectors |-> "v", payloads |-> p, filter |-> f, tests |-> "t1", hybrid |-> h]

PrepareInit ==
  /\ \/ pub = NoDigests /\ man = NoManifest /\ marker = FALSE
     \/ /\ pub \in {Tarball("p0", "none", "none"), Tarball("p1", "f1", "none"),
                    Tarball("p1", "f1", "h1")}
        /\ man \in {NoManifest, Legacy} /\ marker \in BOOLEAN
  /\ part = NoDigests /\ manPart = NoManifest
  /\ cmd = "idle" /\ stage = "idle" /\ todo = <<>>
  /\ made = NoDigests /\ newMan = NoManifest /\ ends = "none"
  /\ returned = "none" /\ cut = {}

-----------------------------------------------------------------------------
\* Reading the directory.

\* Mutant: the recovery looks for the staged files only, also for those that
\* were renamed before the process died.
ArtifactStagedOnly(f) == part[f]

\* artifact_path: the staged file where there is one.
Artifact(f) == IF part[f] # "none" THEN part[f] ELSE pub[f]
ManifestArtifact == IF manPart.kind # "none" THEN manPart ELSE man

Inventory(m) == Data \ (IF m.filtered THEN {} ELSE {"hybrid"})

\* check_legacy_truth: queries, where present, carry a ranking.
LegacyTruth == pub["tests"] \in {"none", "t1"}

\* The capabilities hold of a view of the directory (sizes and SHA-256 tell
\* the contents of this model apart, so both modes of inspect are this one).
Matches(m, view) ==
  /\ \A f \in Inventory(m) : m.digests[f] # "none" /\ view[f] = m.digests[f]
  /\ m.filtered => m.truth
  /\ view["tests"] = IF m.truth THEN "t1" ELSE "t0"

\* Mutant: the loader takes a sealed manifest at its word.
InspectTrusting ==
  CASE man.kind \in {"none", "legacy"} -> IF LegacyTruth THEN "legacy" ELSE "err"
    [] man.kind = "sealed" -> "sealed"

\* inspect(staged = false): "legacy", "sealed" or "err".
Inspect ==
  CASE man.kind \in {"none", "legacy"} -> IF LegacyTruth THEN "legacy" ELSE "err"
    [] man.kind = "sealed" -> IF marker /\ Matches(man, pub) THEN "sealed" ELSE "err"

\* inspect(staged = true), on the view that publication would give.
InspectStaged ==
  CASE ManifestArtifact.kind \in {"none", "legacy"} ->
         IF LegacyTruth THEN "legacy" ELSE "err"
    [] ManifestArtifact.kind = "torn" -> "err"
    [] ManifestArtifact.kind = "sealed" ->
         IF Matches(ManifestArtifact, [f \in Data |-> Artifact(f)]) THEN "sealed" ELSE "err"

HasCorpusFiles ==
  pub["vectors"] = "v" /\ pub["payloads"] # "none" /\ pub["tests"] # "none"

IsComplete ==
  marker /\ pub["filter"] # "none" /\ pub["hybrid"] # "none" /\ HasCorpusFiles

\* Dataset::get_path: check_prepared_dir, then preparation::check.
LoaderAccepts ==
  /\ pub["filter"] # "none" /\ pub["payloads"] = "p1"
  /\ Inspect # "err"

-----------------------------------------------------------------------------
\* Writing it: the operations of a command, in their order.

Op(kind, f) == <<kind, f>>
Stage(f)    == <<Op("tear", f), Op("write", f)>>
Mapped(kind, names) == [i \in 1..Len(names) |-> Op(kind, names[i])]

\* hybrid::prepare: the set belongs to the payloads it was computed from.
HybridOf(view) == IF view["payloads"] = "p1" THEN "h1" ELSE "h0"

\* publish_steps: the marker goes first and comes back last.
PublishSteps(steps) == <<Op("unmark", "COMPLETE")>> \o steps \o <<Op("mark", "COMPLETE")>>

\* publish: rename in reverse order.
Publish(names) ==
  PublishSteps([i \in 1..Len(names) |-> Op("rename", names[Len(names) + 1 - i])])

\* clear_staged: every .part, then the marker.
ClearStaged ==
  Mapped("drop", <<"vectors", "payloads", "filter", "tests", "hybrid", "manifest">>)
    \o <<Op("unmark", "COMPLETE")>>

\* seal: the digest of the staged file where the caller stages it.
Seal(contents, truth, filtered) ==
  LET m == Manifest("sealed", truth, filtered, NoDigests) IN
  [m EXCEPT !.digests =
     [f \in Data |-> IF f \notin Inventory(m) THEN "none"
                     ELSE IF contents[f] # "none" THEN contents[f] ELSE pub[f]]]

\* A fresh build: assemble the corpus, derive, compute the truth, seal, publish.
BuildOps(full) ==
  ClearStaged
    \o <<Op("tear", "vectors"), Op("tear", "payloads"),
         Op("write", "vectors"), Op("write", "payloads")>>
    \o Stage("filter") \o Stage("tests")
    \o (IF full THEN Stage("hybrid") ELSE <<>>)
    \o Stage("manifest")
    \o (IF full
        THEN Publish(<<"vectors", "payloads", "filter", "tests", "hybrid", "manifest">>)
        ELSE PublishSteps(<<Op("remove", "hybrid"), Op("rename", "manifest"),
               Op("rename", "tests"), Op("rename", "filter"),
               Op("rename", "payloads"), Op("rename", "vectors")>>))

\* DERIVED_UPGRADE_PUBLISH.
DerivedPublish ==
  PublishSteps(<<Op("rename", "manifest"), Op("remove", "hybrid"),
                 Op("rename", "payloads"), Op("rename", "filter")>>)

-----------------------------------------------------------------------------
\* The commands.

Forced(c) == c \in {"force_full", "force_text"}
Build(c) == Forced(c) \/ c \in {"build_full", "build_text"}
Full(c)  == c \in {"build_full", "force_full"}

\* A command starts; without --force it first tries to recover.
Start(c) ==
  /\ cmd = "idle"
  /\ cmd' = c /\ stage' = IF Forced(c) THEN "decide" ELSE "recover"
  /\ returned' = "none"
  /\ cut' = IF Forced(c) THEN {} ELSE cut
  /\ UNCHANGED <<disk, todo, made, newMan, ends>>

Return(how) ==
  /\ cmd' = "idle" /\ stage' = "idle" /\ todo' = <<>> /\ returned' = how
  /\ made' = NoDigests /\ newMan' = NoManifest /\ ends' = "none"

\* recover_publication: the renames of what is still staged, in the order of the code.
If(needed, op) == IF needed THEN <<op>> ELSE <<>>
StillStaged(m, f) ==
  IF f = "manifest" THEN manPart.kind # "none" ELSE f \in Inventory(m) /\ part[f] # "none"
Rest(m, f) == If(StillStaged(m, f), Op("rename", f))
RecoverOps(m) ==
  If(~m.filtered, Op("remove", "hybrid"))
    \o Rest(m, "vectors") \o Rest(m, "payloads") \o Rest(m, "tests") \o Rest(m, "hybrid")
    \o Rest(m, "manifest") \o Rest(m, "filter") \o <<Op("mark", "COMPLETE")>>

Recover ==
  /\ stage = "recover"
  /\ \/ /\ marker \/ ManifestArtifact.kind = "none" \/ InspectStaged = "legacy"
        /\ stage' = "decide"
        /\ UNCHANGED <<cmd, todo, returned, made, newMan, ends>>
     \/ /\ ~marker /\ ManifestArtifact.kind # "none" /\ InspectStaged = "err"
        /\ Return("err")
     \/ /\ ~marker /\ ManifestArtifact.kind # "none" /\ InspectStaged = "sealed"
        /\ todo' = RecoverOps(ManifestArtifact)
        /\ stage' = "recovering"
        /\ UNCHANGED <<cmd, returned, made, newMan, ends>>
  /\ UNCHANGED <<disk, cut>>

\* The recovery is complete: an upgrade may have nothing left to do.
Recovered ==
  /\ stage = "recovering" /\ todo = <<>>
  /\ IF cmd = "derived" \/ (cmd = "hybrid" /\ Inspect = "sealed" /\ man.filtered)
     THEN Return("ok")
     ELSE stage' = "decide" /\ UNCHANGED <<cmd, todo, returned, made, newMan, ends>>
  /\ UNCHANGED <<disk, cut>>

\* The command goes to work: the contents it makes, its manifest, its steps.
Work(contents, manifest, ops, how) ==
  /\ made' = contents /\ newMan' = manifest
  /\ todo' = ops /\ ends' = how
  /\ stage' = "work"
  /\ UNCHANGED <<disk, cmd, returned, cut>>

Refuse(how) ==
  /\ Return(how)
  /\ UNCHANGED <<disk, cut>>

\* run: build unless the directory is good, or good enough to be upgraded.
SealedDir   == man.kind = "sealed"
Upgradable  == ~SealedDir /\ HasCorpusFiles
                 /\ (pub["filter"] = "none" \/ pub["hybrid"] = "none")
DecideBuild ==
  /\ stage = "decide" /\ Build(cmd)
  /\ \/ /\ ~Forced(cmd) /\ SealedDir
        /\ Refuse(IF Inspect = "sealed" /\ (Full(cmd) => man.truth /\ man.filtered)
                  THEN "ok" ELSE "err")
     \/ ~Forced(cmd) /\ Upgradable /\ Refuse("err")
     \/ ~Forced(cmd) /\ ~SealedDir /\ ~Upgradable /\ IsComplete /\ Refuse("ok")
     \/ /\ Forced(cmd) \/ (~SealedDir /\ ~Upgradable /\ ~IsComplete)
        /\ LET contents ==
                 [vectors |-> "v", payloads |-> "p1", filter |-> "f1",
                  tests |-> IF Full(cmd) THEN "t1" ELSE "t0",
                  hybrid |-> IF Full(cmd) THEN "h1" ELSE "none"]
           IN Work(contents, Seal(contents, Full(cmd), Full(cmd)),
                   BuildOps(Full(cmd)), "ok")

\* add_derived_fields: rewrite the payloads, write the filter queries.  The
\* published manifest is read only after both are staged.
DecideDerived ==
  /\ stage = "decide" /\ cmd = "derived"
  /\ \/ /\ (SealedDir /\ Inspect = "err") \/ ~HasCorpusFiles
        /\ Refuse("err")
     \/ /\ ~(SealedDir /\ Inspect = "err") /\ HasCorpusFiles
        /\ LET contents == [NoDigests EXCEPT !["payloads"] = "p1", !["filter"] = "f1"]
               manifest == IF SealedDir THEN Seal(contents, man.truth, FALSE) ELSE man
               head == Mapped("drop", <<"filter", "payloads", "manifest">>)
                         \o Stage("payloads") \o Stage("filter")
           IN IF man.kind = "none" THEN Work(contents, manifest, head, "err")
              ELSE Work(contents, manifest, head \o Stage("manifest") \o DerivedPublish, "ok")

\* add_knn_truth: both truth sets over the unchanged corpus.
DecideKnn ==
  /\ stage = "decide" /\ cmd = "knn"
  /\ \/ Inspect # "sealed" /\ Refuse("err")
     \/ Inspect = "sealed" /\ man.truth /\ man.filtered /\ Refuse("ok")
     \/ /\ Inspect = "sealed" /\ ~(man.truth /\ man.filtered)
        /\ LET contents == [NoDigests EXCEPT !["tests"] = "t1", !["hybrid"] = HybridOf(pub)]
           IN Work(contents, Seal(contents, TRUE, TRUE),
                   Stage("tests") \o Stage("hybrid") \o Stage("manifest")
                     \o Publish(<<"tests", "hybrid", "manifest">>), "ok")

\* add_hybrid_queries: filtered truth computed from the published payloads.
DecideHybrid ==
  /\ stage = "decide" /\ cmd = "hybrid"
  /\ \/ /\ \/ SealedDir /\ (Inspect = "err" \/ ~man.truth)
           \/ ~HasCorpusFiles \/ pub["filter"] = "none"
        /\ Refuse("err")
     \/ /\ SealedDir => Inspect = "sealed" /\ man.truth
        /\ HasCorpusFiles /\ pub["filter"] # "none"
        /\ LET contents == [NoDigests EXCEPT !["hybrid"] = HybridOf(pub)]
               manifest == IF SealedDir THEN Seal(contents, TRUE, TRUE) ELSE man
               head == Mapped("drop", <<"hybrid", "manifest">>) \o Stage("hybrid")
           IN IF man.kind = "none" THEN Work(contents, manifest, head, "err")
              ELSE Work(contents, manifest,
                        head \o Stage("manifest") \o Publish(<<"hybrid", "manifest">>), "ok")

-----------------------------------------------------------------------------
\* One file operation.  The removals of "drop" and "unmark" ignore their errors:
\* in a directory that refuses them the next .part, rename or marker, whose
\* errors count, is refused as well, and the command ends where Crash ends it,
\* with the file still there.  "remove" ends the command itself.

SetData(var, f, v) == [var EXCEPT ![f] = v]

Do(kind, f) ==
  CASE kind = "tear" /\ f = "manifest" ->
         manPart' = TornManifest /\ UNCHANGED <<pub, part, man, marker>>
    [] kind = "write" /\ f = "manifest" ->
         manPart' = newMan /\ UNCHANGED <<pub, part, man, marker>>
    [] kind = "drop" /\ f = "manifest" ->
         manPart' = NoManifest /\ UNCHANGED <<pub, part, man, marker>>
    [] kind = "rename" /\ f = "manifest" ->
         man' = manPart /\ manPart' = NoManifest /\ UNCHANGED <<pub, part, marker>>
    [] kind = "tear" /\ f \in Data ->
         part' = SetData(part, f, "torn") /\ UNCHANGED <<pub, man, manPart, marker>>
    [] kind = "write" /\ f \in Data ->
         part' = SetData(part, f, made[f]) /\ UNCHANGED <<pub, man, manPart, marker>>
    [] kind = "drop" /\ f \in Data ->
         part' = SetData(part, f, "none") /\ UNCHANGED <<pub, man, manPart, marker>>
    [] kind = "rename" /\ f \in Data ->
         /\ pub' = SetData(pub, f, part[f]) /\ part' = SetData(part, f, "none")
         /\ UNCHANGED <<man, manPart, marker>>
    [] kind = "remove" ->
         pub' = SetData(pub, f, "none") /\ UNCHANGED <<part, man, manPart, marker>>
    [] kind = "unmark" -> marker' = FALSE /\ UNCHANGED <<pub, part, man, manPart>>
    [] kind = "mark" -> marker' = TRUE /\ UNCHANGED <<pub, part, man, manPart>>

Step ==
  /\ stage \in {"work", "recovering"} /\ todo # <<>>
  /\ Do(Head(todo)[1], Head(todo)[2])
  /\ todo' = Tail(todo)
  /\ cut' = IF marker' THEN {} ELSE cut
  /\ UNCHANGED <<cmd, stage, made, newMan, ends, returned>>

Complete ==
  /\ stage = "work" /\ todo = <<>>
  /\ Return(ends)
  /\ UNCHANGED <<disk, cut>>

\* In the middle of publish_steps: the marker is gone, the manifest is sealed.
Publishing ==
  /\ stage = "work" /\ newMan.kind = "sealed" /\ ~marker
  /\ todo # <<>> /\ ends = "ok"
  /\ \A i \in 1..Len(todo) : todo[i][1] \in {"rename", "remove", "mark"}

\* The process dies, or an operation fails and ends it, between two steps.
Crash ==
  /\ cmd # "idle"
  /\ Return("died")
  /\ cut' = IF Publishing THEN {f \in Data : made[f] # "none"} ELSE cut
  /\ UNCHANGED disk

PrepareNext ==
  \/ \E c \in Commands : Start(c)
  \/ Recover \/ Recovered
  \/ DecideBuild \/ DecideDerived \/ DecideKnn \/ DecideHybrid
  \/ Step \/ Complete \/ Crash

PrepareSpec == PrepareInit /\ [][PrepareNext]_dirVars

-----------------------------------------------------------------------------
\* Properties.

Tokens == [vectors |-> {"v"}, payloads |-> {"p0", "p1"}, filter |-> {"f1"},
           tests |-> {"t0", "t1"}, hybrid |-> {"h0", "h1"}]

\* Published files are whole: a partial write never gets its final name.
DirTypeOK ==
  /\ \A f \in Data : pub[f] \in Tokens[f] \cup {"none"}
  /\ \A f \in Data : part[f] \in Tokens[f] \cup {"none", "torn"}
  /\ man.kind \in {"none", "legacy", "sealed"}
  /\ manPart.kind \in {"none", "torn", "legacy", "sealed"}
  /\ marker \in BOOLEAN
  /\ cmd \in Commands \cup {"idle"}
  /\ stage \in {"idle", "recover", "recovering", "decide", "work"}
  /\ returned \in {"none", "ok", "err", "died"} /\ ends \in {"none", "ok", "err"}
  /\ cut \subseteq Data

\* Whatever was interrupted, whenever the loader opens the directory: what it
\* accepts is one corpus, its filter and hybrid queries computed from the very
\* payloads next to them and its truth as declared.
LoaderSeesOneCorpus ==
  LoaderAccepts =>
    /\ pub["filter"] = "f1" /\ pub["payloads"] = "p1"
    /\ pub["hybrid"] \in {"none", "h1"}
    /\ man.kind = "sealed" => (pub["tests"] = "t1" <=> man.truth)
                              /\ (pub["hybrid"] = "h1" <=> man.filtered)
    /\ man.kind # "sealed" => pub["tests"] = "t1"

\* COMPLETE next to a sealed manifest means that every file it inventories is
\* in place, at every instant of a publication or of its recovery.
MarkerMeansWhole ==
  marker /\ man.kind = "sealed" =>
    Matches(man, pub) /\ (~man.filtered => pub["hybrid"] = "none")

\* A sealed publication that was cut short can be finished by the next
\* command, and so can a recovery that was cut short itself, unless an earlier
\* interrupted command left a .part of a file the publication does not stage.
RecoversUnlessStale ==
  /\ cut # {} /\ cmd = "idle"
  /\ \A f \in Data \ cut : part[f] = "none"
  => InspectStaged = "sealed"

\* The directory can be trusted at every instant: the loader takes one corpus or
\* none, and COMPLETE never vouches for less than the manifest next to it.
PublishedWhole == LoaderSeesOneCorpus /\ MarkerMeansWhole

=============================================================================
