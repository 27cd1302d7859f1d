----------------------------- MODULE DataStore -----------------------------
(***************************************************************************)
(* The files osmium-lab keeps under data_root, and what the code reads off *)
(* them: source staging, published source revisions and current.yaml       *)
(* (crates/data-sync storage.rs, verify.rs, partition.rs) and replay       *)
(* caches (cache.rs).  A disk is a partial function from paths to          *)
(* contents.  The code changes it only by single file-system calls, so an  *)
(* operation is a sequence of calls ("ops") and a process may die between  *)
(* any two of them.                                                        *)
(*                                                                         *)
(* A partition key is [place, sessions]: the directory is named by source, *)
(* market, date and symbol (place); the sessions are part of the identity  *)
(* but not of the path.  Hashes are taken to be injective, so an identity  *)
(* is modelled by what is hashed.                                          *)
(***************************************************************************)
EXTENDS Naturals, Sequences, SequencesExt, FiniteSets, FiniteSetsExt, TLC

----------------------------------------------------------------------------
(* Directories and files                                                   *)

SourceRoot(key) == <<"source", key.place>>
\* attempt_id is a hash of the whole key
Attempt(key) == <<"staging", key.place, key>>
RevisionDir(key, revision) == <<"revision", key.place, revision>>
CacheBuild(key) == <<"build", key.place>>
CacheDir(key, identity) == <<"cache", key.place, identity>>

At(dir, name, n) == [dir |-> dir, name |-> name, n |-> n]
File(dir, name) == At(dir, name, 0)
DirMark(dir) == File(dir, ".")

Has(disk, path) == path \in DOMAIN disk
DirExists(disk, dir) == \E p \in DOMAIN disk : p.dir = dir
Without(disk, paths) == [p \in DOMAIN disk \ paths |-> disk[p]]

----------------------------------------------------------------------------
(* File-system calls.  "create" is OpenOptions::create_new; "absent" is an *)
(* exists() test that makes the operation fail; "move" renames a whole     *)
(* directory.                                                              *)

Call(op, path, to, data, error) ==
  [op |-> op, path |-> path, to |-> to, data |-> data, error |-> error]
Create(path) == Call("create", path, path, "tmp", "AlreadyExists")
Rename(path, to, data) == Call("rename", path, to, data, "")
Put(path, data) == Call("put", path, path, data, "")
Unlink(path) == Call("remove", path, path, "", "")
MakeDir(dir) == Call("put", DirMark(dir), DirMark(dir), "dir", "")
Absent(dir, error) == Call("absent", DirMark(dir), DirMark(dir), "", error)
MoveDir(dir, to) == Call("move", DirMark(dir), DirMark(to), "", "")

Refused(disk, o) ==
  \/ o.op = "create" /\ Has(disk, o.path)
  \/ o.op = "absent" /\ DirExists(disk, o.path.dir)

\* the disk with a file written, and with the files of one directory moved
Written(disk, path, data) ==
  [p \in DOMAIN disk \cup {path} |-> IF p = path THEN data ELSE disk[p]]
Moved(disk, from, to) ==
  LET moved == {p \in DOMAIN disk : p.dir = from}
      there == {[p EXCEPT !.dir = to] : p \in moved}
  IN  [p \in (DOMAIN disk \ moved) \cup there |->
         IF p \in there THEN disk[[p EXCEPT !.dir = from]] ELSE disk[p]]

Applied(disk, o) ==
  CASE o.op \in {"create", "put"} -> Written(disk, o.path, o.data)
    [] o.op = "rename" -> Written(Without(disk, {o.path}), o.to, o.data)
    [] o.op = "remove" -> Without(disk, {o.path})
    [] o.op = "move"   -> Moved(disk, o.path.dir, o.to.dir)
    [] OTHER           -> disk

\* write_atomic_file: a new temporary file, then a rename over the target
WriteAtomic(path, tmp, data) == <<Create(tmp), Rename(tmp, path, data)>>

----------------------------------------------------------------------------
(* Source staging (StagingRevision)                                        *)

PageObject(dir, n) == At(dir, "page.zst", n)
PageMeta(dir, n) == At(dir, "page.yaml", n)
Checkpoint(dir) == File(dir, "checkpoint.json")
\* CursorCheckpoint::save and load: every field is written and read back
SaveCheckpoint(dir, checkpoint) ==
  WriteAtomic(Checkpoint(dir), File(dir, "checkpoint.tmp"), checkpoint)
LoadCheckpoint(disk, dir) == disk[Checkpoint(dir)]
Current(key) == File(SourceRoot(key), "current.yaml")
PartitionFile(key) == File(SourceRoot(key), "partition.yaml")

\* ensure_layout: partition.yaml is written once and must keep naming this key
\* Seeded fault: the key of partition.yaml is not compared
LayoutNeverRefused(disk, key) == FALSE
LayoutRefused(disk, key) ==
  Has(disk, PartitionFile(key)) /\ disk[PartitionFile(key)] # key
LayoutOps(disk, key) ==
  IF Has(disk, PartitionFile(key)) THEN <<>>
  ELSE LET tmp == File(SourceRoot(key), "partition.tmp")
       IN  <<Put(tmp, "tmp"), Rename(tmp, PartitionFile(key), key)>>

\* create_for_partition keeps whatever an earlier attempt left
CreateOps(disk, key) == LayoutOps(disk, key) \o <<MakeDir(Attempt(key))>>

\* resume_at: the staged metadata in page order, as far as the checkpoint says
StagedMetas(disk, dir) ==
  LET pages == {p.n : p \in {q \in DOMAIN disk : q.dir = dir /\ q.name = "page.yaml"}}
      Ordered(i) == CHOOSE n \in pages : Cardinality({m \in pages : m < n}) = i - 1
  IN  [i \in 1..Cardinality(pages) |-> disk[PageMeta(dir, Ordered(i))]]
ResumeRefused(disk, dir, committed) == Len(StagedMetas(disk, dir)) < committed
ResumedPages(disk, dir, committed) == SubSeq(StagedMetas(disk, dir), 1, committed)

\* stage_page of page n (from 0): reuse what an interrupted attempt staged, if
\* it is the same page, else write the object and then its metadata
PageChanged(disk, dir, n, body) ==
  Has(disk, PageMeta(dir, n)) /\ disk[PageMeta(dir, n)] # body
\* Seeded fault: the metadata is written before the object it describes
StagePageMetaFirst(disk, dir, n, body) ==
  IF Has(disk, PageMeta(dir, n)) THEN <<>>
  ELSE WriteAtomic(PageMeta(dir, n), At(dir, "page.tmp", n), body)
         \o WriteAtomic(PageObject(dir, n), At(dir, "page.zst.tmp", n), body)
StagePageOps(disk, dir, n, body) ==
  IF Has(disk, PageMeta(dir, n)) THEN <<>>
  ELSE WriteAtomic(PageObject(dir, n), At(dir, "page.zst.tmp", n), body)
         \o WriteAtomic(PageMeta(dir, n), At(dir, "page.tmp", n), body)

StageDailyOps(dir, daily) ==
  WriteAtomic(File(dir, "daily.zst"), File(dir, "daily.zst.tmp"), daily)
    \o WriteAtomic(File(dir, "daily.yaml"), File(dir, "daily.tmp"), daily)

\* SourceManifest::build: the revision identity covers the daily instrument and
\* every page in order, not the query
RevisionOf(pages, daily) == [daily |-> daily, pages |-> pages]

\* publish: staging-only files go, the manifest is written, the attempt becomes
\* the revision, and only then does current.yaml name it
SealOps(key, revision) ==
  LET dir == Attempt(key)
  IN  <<Unlink(Checkpoint(dir)), Unlink(File(dir, "daily.yaml"))>>
        \o [i \in 1..Len(revision.pages) |-> Unlink(PageMeta(dir, i - 1))]
        \o WriteAtomic(File(dir, "manifest.yaml"), File(dir, "manifest.tmp"), revision)
MoveOps(key, revision) ==
  <<Absent(RevisionDir(key, revision), "RevisionAlreadyExists"),
    MoveDir(Attempt(key), RevisionDir(key, revision))>>
PointOps(key, revision) ==
  WriteAtomic(Current(key), File(SourceRoot(key), "current.tmp"), revision)

\* Seeded fault: current.yaml is written before the attempt is renamed
PublishPointerFirst(key, revision) ==
  SealOps(key, revision) \o PointOps(key, revision) \o MoveOps(key, revision)
PublishOps(key, revision) ==
  SealOps(key, revision) \o (MoveOps(key, revision) \o PointOps(key, revision))

----------------------------------------------------------------------------
(* Verification (LocalSourceRepository, PartitionedSourceRepository)       *)

\* verify_object: the object is there and is the one the manifest describes
ObjectVerifies(disk, path, body) == Has(disk, path) /\ disk[path] = body

\* verify_current: the revision current.yaml names has its manifest and objects
VerificationError(disk, key) ==
  LET revision == disk[Current(key)]
      dir == RevisionDir(key, revision)
      manifest == File(dir, "manifest.yaml")
      objects == {<<PageObject(dir, i - 1), revision.pages[i]>> : i \in 1..Len(revision.pages)}
                   \cup {<<File(dir, "daily.zst"), revision.daily>>}
  IN  IF ~Has(disk, manifest) THEN "NotFound"
      ELSE IF disk[manifest] # revision THEN "ManifestInvariant"
      ELSE IF revision.pages = <<>> THEN "NoTickPages"
      ELSE IF \E o \in objects : ~Has(disk, o[1]) THEN "NotFound"
      ELSE IF \E o \in objects : ~ObjectVerifies(disk, o[1], o[2]) THEN "ChecksumMismatch"
      ELSE "none"
Verifies(disk, key) == Has(disk, Current(key)) /\ VerificationError(disk, key) = "none"

\* VerificationError::source_state
ErrorState(error) == IF error = "NoTickPages" THEN "Incomplete" ELSE "Corrupt"

\* inspect, by the state it reports
Inspect(disk, key) ==
  CASE LayoutRefused(disk, key)     -> "Corrupt"
    [] ~Has(disk, Current(key))     ->
         IF \E p \in DOMAIN disk : p.dir[1] = "staging" /\ p.dir[2] = key.place
         THEN "Building" ELSE "Missing"
    [] OTHER                        ->
         IF Verifies(disk, key) THEN "Complete" ELSE ErrorState(VerificationError(disk, key))

\* read_tick_records: the records of the verified pages, in page order
TickRecords(pages) == FoldLeft(LAMBDA all, page : all \o page.items, <<>>, pages)

----------------------------------------------------------------------------
(* Replay caches                                                           *)

Descriptor(key, revision, mapping, events) ==
  [key |-> key, revision |-> revision, mapping |-> mapping, events |-> events]

\* cache_identity covers the lineage, the mapping and the payload
CacheIdentity(descriptor) ==
  <<descriptor.key, descriptor.revision, descriptor.mapping, descriptor.events>>

\* publish_events builds in one fixed directory and renames it to its identity
CacheOps(key, descriptor) ==
  LET dir == CacheBuild(key)
      place == CacheDir(key, CacheIdentity(descriptor))
  IN  <<Absent(dir, "BuildAlreadyExists"), MakeDir(dir)>>
        \o WriteAtomic(File(dir, "events.bin"), File(dir, "events.bin.tmp"),
                       descriptor.events)
        \o WriteAtomic(File(dir, "descriptor.yaml"), File(dir, "descriptor.tmp"),
                       descriptor)
        \o <<Absent(place, "CacheAlreadyExists"), MoveDir(dir, place)>>

\* the directories below the partition's cache root that hold a descriptor;
\* the build directory is one of them
DescribedDirs(disk, key) ==
  {p.dir : p \in {q \in DOMAIN disk :
     /\ q.name = "descriptor.yaml"
     /\ q.dir[1] \in {"cache", "build"}
     /\ q.dir[2] = key.place}}

\* PartitionCacheCatalog::inspect
\* Seeded fault: any mapping's cache of this partition and revision is current
CatalogAnyMapping(disk, key, revision, mapping) ==
  LET Of(dir) == disk[File(dir, "descriptor.yaml")]
      bound == {dir \in DescribedDirs(disk, key) :
                  Of(dir).revision = revision /\ Of(dir).key = key}
  IN  IF bound = {} THEN [state |-> "Missing"]
      ELSE [state |-> "Valid", dir |-> CHOOSE dir \in bound : TRUE]
Catalog(disk, key, revision, mapping) ==
  LET Of(dir) == disk[File(dir, "descriptor.yaml")]
      bound == {dir \in DescribedDirs(disk, key) :
                  Of(dir).revision = revision /\ Of(dir).key = key}
      fresh == {dir \in bound : Of(dir).mapping = mapping}
  IN  CASE fresh = {} /\ bound = {} -> [state |-> "Missing"]
        [] fresh = {} -> [state |-> "Stale"]
        [] \E dir \in fresh : dir # CacheDir(key, CacheIdentity(Of(dir))) -> [state |-> "Corrupt"]
        [] Cardinality(fresh) > 1 -> [state |-> "Corrupt"]
        [] OTHER -> [state |-> "Valid", dir |-> CHOOSE dir \in fresh : TRUE]

\* LocalCacheFactory::open and CacheReader to the end of the stream: the bound
\* cache is the one described and its payload is the one it was built with
\* Seeded fault: the payload checksum is not compared at the end of the stream
ReadsUnchecked(disk, key, revision, dir) ==
  /\ Has(disk, File(dir, "descriptor.yaml"))
  /\ Has(disk, File(dir, "events.bin"))
  /\ disk[File(dir, "descriptor.yaml")].revision = revision
Reads(disk, key, revision, dir) ==
  /\ Has(disk, File(dir, "descriptor.yaml"))
  /\ Has(disk, File(dir, "events.bin"))
  /\ LET descriptor == disk[File(dir, "descriptor.yaml")]
     IN  /\ descriptor.revision = revision
         /\ dir = CacheDir(key, CacheIdentity(descriptor))
         /\ disk[File(dir, "events.bin")] = descriptor.events
=============================================================================
