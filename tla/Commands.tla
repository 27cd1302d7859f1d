----------------------------- MODULE Commands -----------------------------
(***************************************************************************)
(* The commands of osmium-lab on one data_root (crates/osmium-cli          *)
(* command.rs, with osmium-config plan, run-planner plan.rs, the Teralion  *)
(* sync of provider.rs and sync.rs, and the artifact publication of        *)
(* osmium-runner): data sync, data verify, cache prepare, replay,          *)
(* backtest, run and inspect.  One process runs at a time; it may die      *)
(* between any two file-system calls and be started again.  The archive    *)
(* may change between two answers, an answer may fail, and a published     *)
(* file may be damaged.                                                    *)
(***************************************************************************)
EXTENDS DataStore, CursorPaging

CONSTANTS
  Configs,      \* sequences of partition keys, the universe of a config
  Mappings,     \* normalizer mapping versions of the binaries in use
  Versions,     \* states of the provider's archive
  Archive(_, _, _),  \* the page a version answers for a key and a cursor
  Daily(_, _),  \* the daily instrument a version answers for a key
  Outputs,      \* names given to --output
  MaxFaults     \* crashes, archive changes and damaged files together

ASSUME BoundAssumption == MaxFaults \in Nat
\* ExecutionPlan::new refuses two partitions of one instrument and date
ASSUME ConfigAssumption ==
  \A config \in Configs :
    /\ config \in Seq(ToSet(config))
    /\ \A i, j \in DOMAIN config : config[i].place = config[j].place => i = j

VARIABLES
  disk,       \* the files under data_root and the output directories
  remote,     \* the archive's version
  job,        \* the running command, or Idle
  outcome,    \* how the last command ended
  faults      \* [crashes, changes, damage] so far

vars == <<disk, remote, job, outcome, faults>>

FaultLeft == faults.crashes + faults.changes + faults.damage < MaxFaults

Keys == UNION {ToSet(config) : config \in Configs}
Idle == [step |-> "idle", ops |-> <<>>]

----------------------------------------------------------------------------
(* Planning: PlannedPartition::classify and osmium-config plan             *)

SourceAction(state) ==
  CASE state = "Missing"  -> "DownloadMissingSource"
    [] state = "Building" -> "ResumeOrRestartBuilding"
    [] state = "Complete" -> "ReuseCompleteSource"
    [] OTHER              -> "Reject"
RequiresNetwork(action) == action \in {"DownloadMissingSource", "ResumeOrRestartBuilding"}

CacheAction(state, cache) ==
  CASE state = "Complete" /\ cache.state = "Valid" -> "ReuseValidCache"
    [] state = "Complete" -> "RebuildCacheFromCompleteSource"
    [] OTHER -> "AwaitCompleteSource"

Planned(key, mapping) ==
  LET state == Inspect(disk, key)
      cache == IF state = "Complete"
               THEN Catalog(disk, key, disk[Current(key)], mapping)
               ELSE [state |-> "Missing"]
  IN  [key |-> key, state |-> state, cache |-> cache,
       revision |-> IF state = "Complete" THEN {disk[Current(key)]} ELSE {},
       source |-> SourceAction(state), action |-> CacheAction(state, cache)]
Plan(config, mapping) == [i \in 1..Len(config) |-> Planned(config[i], mapping)]
ReplayReady(plan) == \A i \in 1..Len(plan) : plan[i].action = "ReuseValidCache"

----------------------------------------------------------------------------
(* A command is a list of stages: execute_sync, execute_verify,            *)
(* execute_inspect, prepare_cache, execute_replay, execute_backtest and    *)
(* execute_run                                                             *)

Stages(command) ==
  CASE command = "data sync"     -> <<"plan", "sync">>
    [] command = "data verify"   -> <<"verify">>
    [] command = "inspect"       -> <<"inspect">>
    [] command = "cache prepare" -> <<"plan", "prepare">>
    [] command = "replay"        -> <<"plan", "replay">>
    [] command = "backtest"      -> <<"plan", "backtest">>
    [] command = "run"           ->
         <<"plan", "sync if required", "plan", "prepare", "plan", "replay">>
    [] command = "run --output"  ->
         <<"plan", "sync if required", "plan", "prepare", "plan", "backtest">>
CommandNames == {"data sync", "data verify", "inspect", "cache prepare",
                 "replay", "backtest", "run", "run --output"}

Begin ==
  /\ job = Idle
  /\ \E command \in CommandNames, config \in Configs, mapping \in Mappings, o \in Outputs :
       job' = [step |-> "stage", ops |-> <<>>, stages |-> Stages(command),
               keys |-> config, mapping |-> mapping, output |-> o,
               plan |-> <<>>, todo |-> <<>>, sync |-> <<>>]
  /\ outcome' = "running"
  /\ UNCHANGED <<disk, remote, faults>>

Fail(error) ==
  /\ job' = Idle
  /\ outcome' = error
  /\ UNCHANGED <<disk, remote, faults>>
Proceed(next) ==
  /\ job' = next
  /\ UNCHANGED <<disk, remote, outcome, faults>>
Ready(step) == job # Idle /\ job.ops = <<>> /\ job.step = step
AtStage(name) == Ready("stage") /\ job.stages # <<>> /\ Head(job.stages) = name
NextStage == [job EXCEPT !.stages = Tail(@), !.step = "stage"]

\* the next file-system call of the stage under way
FileCall ==
  /\ job # Idle /\ job.ops # <<>>
  /\ LET o == Head(job.ops) IN
     IF Refused(disk, o) THEN Fail(o.error)
     ELSE /\ disk' = Applied(disk, o)
          /\ job' = [job EXCEPT !.ops = Tail(@)]
          /\ UNCHANGED <<remote, outcome, faults>>

Finish ==
  /\ Ready("stage") /\ job.stages = <<>>
  /\ job' = Idle
  /\ outcome' = "done"
  /\ UNCHANGED <<disk, remote, faults>>

PlanStage ==
  /\ AtStage("plan")
  /\ Proceed([NextStage EXCEPT !.plan = Plan(job.keys, job.mapping)])

\* execute_verify
VerifyStage ==
  /\ AtStage("verify")
  /\ IF \A key \in ToSet(job.keys) : Inspect(disk, key) = "Complete"
     THEN Proceed(NextStage) ELSE Fail("SourceNotComplete")

----------------------------------------------------------------------------
(* data sync: execute_sync_plan, then sync_teralion_partition per key      *)

\* Seeded fault: partitions that are complete are downloaded again
NeverReused(p) == FALSE
Reused(p) == p.source = "ReuseCompleteSource"

SyncStage ==
  /\ AtStage("sync") \/ AtStage("sync if required")
  /\ LET network == \E i \in 1..Len(job.plan) : RequiresNetwork(job.plan[i].source)
         skip == ~network /\ Head(job.stages) = "sync if required"
         rejected == \E i \in 1..Len(job.plan) : job.plan[i].source = "Reject"
     IN  CASE skip     -> Proceed(NextStage)
           [] ~skip /\ rejected -> Fail("SourceNotComplete")
           [] OTHER    -> Proceed(
                IF network
                THEN [job EXCEPT !.todo = job.plan, !.step = "fetch"]
                ELSE NextStage)

SyncDone ==
  /\ Ready("fetch") /\ job.todo = <<>>
  /\ Proceed(NextStage)

SkipReused ==
  /\ Ready("fetch") /\ job.todo # <<>> /\ Reused(Head(job.todo))
  /\ Proceed([job EXCEPT !.todo = Tail(@)])

\* a single response or a page request that fails ends the command
TransportFails ==
  /\ \/ Ready("fetch") /\ job.todo # <<>> /\ ~Reused(Head(job.todo))
     \/ Ready("pages") /\ ~job.sync.checkpoint.terminal
  /\ Fail("Transport")

\* coverage, range and the daily instrument
FetchSingles ==
  /\ Ready("fetch") /\ job.todo # <<>> /\ ~Reused(Head(job.todo))
  /\ LET key == Head(job.todo).key IN
     Proceed([job EXCEPT !.step = "open",
                         !.sync = [daily |-> Daily(remote, key), pages |-> <<>>,
                                   checkpoint |-> FirstCheckpoint(key)]])

\* a checkpoint left by an earlier attempt is resumed, anything else restarts
OpenStaging ==
  /\ Ready("open")
  /\ LET key == Head(job.todo).key
         dir == Attempt(key)
     IN  IF Has(disk, Checkpoint(dir))
         THEN LET saved == LoadCheckpoint(disk, dir) IN
              CASE ResumeRefused(disk, dir, saved.committed) -> Fail("CheckpointPageMismatch")
                [] QueryDrift(saved, key) -> Fail("QueryDrift")
                [] OTHER ->
                     Proceed([job EXCEPT
                       !.step = "pages", !.sync.checkpoint = saved,
                       !.sync.pages = ResumedPages(disk, dir, saved.committed)])
         ELSE IF LayoutRefused(disk, key) THEN Fail("ManifestMismatch")
              ELSE Proceed([job EXCEPT !.step = "pages", !.ops = CreateOps(disk, key)])

\* sync_pages, one page: the page is staged, then the cursor is committed and
\* the checkpoint saved
SavePage(key, n, page, checkpoint) ==
  StagePageOps(disk, Attempt(key), n, page) \o SaveCheckpoint(Attempt(key), checkpoint)

FetchPage ==
  /\ Ready("pages") /\ ~job.sync.checkpoint.terminal
  /\ LET key == Head(job.todo).key
         checkpoint == job.sync.checkpoint
         n == Len(job.sync.pages)
         page == Archive(remote, key, checkpoint.next)
         answer == Answer(checkpoint, page)
     IN  CASE answer # "accepted" -> Fail(answer)
           [] answer = "accepted" /\ n # checkpoint.committed -> Fail("NonContiguousPages")
           [] answer = "accepted" /\ n = checkpoint.committed
                /\ PageChanged(disk, Attempt(key), n, page) ->
                Fail("InterruptedPageChanged")
           [] OTHER ->
                Proceed([job EXCEPT
                  !.ops = SavePage(key, n, page, Committed(checkpoint, page)),
                  !.sync.checkpoint = Committed(checkpoint, page),
                  !.sync.pages = Append(@, page)])

PublishRevision ==
  /\ Ready("pages") /\ job.sync.checkpoint.terminal
  /\ LET key == Head(job.todo).key IN
     Proceed([job EXCEPT
       !.step = "fetch", !.todo = Tail(@), !.sync = <<>>,
       !.ops = StageDailyOps(Attempt(key), job.sync.daily)
                 \o PublishOps(key, RevisionOf(job.sync.pages, job.sync.daily))])

----------------------------------------------------------------------------
(* cache prepare: prepare_cache_plan and prepare_cache                     *)

\* normalisation and ordering of one partition's records by one mapping
Normalized(mapping, records) == [mapping |-> mapping, records |-> records]

PrepareStage ==
  /\ AtStage("prepare")
  /\ Proceed([job EXCEPT !.todo = job.plan, !.step = "prepare"])

PrepareDone ==
  /\ Ready("prepare") /\ job.todo = <<>>
  /\ Proceed(NextStage)

PreparePartition ==
  /\ Ready("prepare") /\ job.todo # <<>>
  /\ LET p == Head(job.todo)
         rest == [job EXCEPT !.todo = Tail(@)]
     IN  CASE p.action = "ReuseValidCache" -> Proceed(rest)
           [] p.action = "AwaitCompleteSource" -> Fail("SourceNotComplete")
           [] OTHER ->  \* RebuildCacheFromCompleteSource
                IF ~Verifies(disk, p.key) THEN Fail("Storage")
                ELSE LET revision == disk[Current(p.key)] IN
                     Proceed([rest EXCEPT !.ops = CacheOps(p.key,
                       Descriptor(p.key, revision, job.mapping,
                         Normalized(job.mapping, TickRecords(revision.pages))))])

----------------------------------------------------------------------------
(* replay and backtest: the planned streams are read to their end, and a   *)
(* successful backtest is published                                        *)

StreamsRead(plan) ==
  \A i \in 1..Len(plan) :
    \E revision \in plan[i].revision : Reads(disk, plan[i].key, revision, plan[i].cache.dir)
StreamEvents(plan) ==
  [i \in 1..Len(plan) |-> disk[File(plan[i].cache.dir, "events.bin")]]

OutputDir(o) == <<"output", o>>
OutputStaging(o) == <<"outstaging", o>>
ArtifactFiles == <<"ledger.bin", "run-manifest.yaml", "strategy.json">>

\* the manifest holds the lineage and the checksum of every other file
Artifacts(plan, events) ==
  [f \in ToSet(ArtifactFiles) |->
     IF f # "run-manifest.yaml" THEN <<f, events>>
     ELSE [lineage |-> [i \in 1..Len(plan) |->
                          [key |-> plan[i].key, revision |-> plan[i].revision,
                           cache |-> plan[i].cache.dir]],
           checksums |-> [g \in {"ledger.bin", "strategy.json"} |-> <<g, events>>]]]

\* publish_artifacts
PublishArtifacts(o, files) ==
  <<Absent(OutputDir(o), "OutputExists"), Absent(OutputStaging(o), "OutputExists"),
    MakeDir(OutputStaging(o))>>
    \o [i \in 1..Len(ArtifactFiles) |->
          Put(File(OutputStaging(o), ArtifactFiles[i]), files[ArtifactFiles[i]])]
    \o <<MoveDir(OutputStaging(o), OutputDir(o))>>

\* inspect_run: every file has the checksum the manifest gives it
InspectAccepts(dir) ==
  /\ Has(disk, File(dir, "run-manifest.yaml"))
  /\ LET checksums == disk[File(dir, "run-manifest.yaml")].checksums
     IN  \A f \in DOMAIN checksums :
           Has(disk, File(dir, f)) /\ disk[File(dir, f)] = checksums[f]

\* execute_inspect of the output directory
InspectStage ==
  /\ AtStage("inspect")
  /\ IF InspectAccepts(OutputDir(job.output)) THEN Proceed(NextStage) ELSE Fail("Artifacts")

ReplayStage ==
  /\ AtStage("replay") \/ AtStage("backtest")
  /\ CASE ~ReplayReady(job.plan) -> Fail("CacheMissing")
       [] ReplayReady(job.plan) /\ ~StreamsRead(job.plan) -> Fail("CacheRead")
       [] OTHER ->
            Proceed(IF Head(job.stages) = "replay" THEN NextStage
                    ELSE [NextStage EXCEPT !.ops =
                            PublishArtifacts(job.output,
                              Artifacts(job.plan, StreamEvents(job.plan)))])

----------------------------------------------------------------------------
(* Faults                                                                  *)

\* the process dies between two calls
Crash ==
  /\ job # Idle /\ FaultLeft
  /\ job' = Idle
  /\ outcome' = "crashed"
  /\ faults' = [faults EXCEPT !.crashes = @ + 1]
  /\ UNCHANGED <<disk, remote>>

ArchiveChanges ==
  /\ FaultLeft
  /\ \E v \in Versions \ {remote} : remote' = v
  /\ faults' = [faults EXCEPT !.changes = @ + 1]
  /\ UNCHANGED <<disk, job, outcome>>

\* a published page or cache payload is no longer what was written
Damage ==
  /\ FaultLeft
  /\ job = Idle
  /\ \E p \in DOMAIN disk :
       \/ /\ p.dir[1] = "revision" /\ p.name = "page.zst"
          /\ disk' = [disk EXCEPT ![p].items = <<"damaged">>]
       \/ /\ p.dir[1] = "cache" /\ p.name = "events.bin"
          /\ disk' = [disk EXCEPT ![p].records = <<"damaged">>]
  /\ faults' = [faults EXCEPT !.damage = @ + 1]
  /\ UNCHANGED <<remote, job, outcome>>

----------------------------------------------------------------------------
Init ==
  /\ disk = << >>
  /\ remote \in Versions
  /\ job = Idle
  /\ outcome = "none"
  /\ faults = [crashes |-> 0, changes |-> 0, damage |-> 0]

Step ==
  \/ FileCall \/ Finish \/ PlanStage \/ VerifyStage
  \/ SyncStage \/ SyncDone \/ SkipReused \/ FetchSingles \/ OpenStaging
  \/ FetchPage \/ PublishRevision
  \/ PrepareStage \/ PrepareDone \/ PreparePartition \/ ReplayStage \/ InspectStage

Next == Begin \/ Step \/ TransportFails \/ Crash \/ ArchiveChanges \/ Damage

Spec == Init /\ [][Next]_vars

----------------------------------------------------------------------------
(* Properties                                                              *)

\* The pages follow one cursor chain from its start, no cursor twice.
IsChain(pages) ==
  /\ \A i \in 1..Len(pages) - 1 : pages[i].next # 0
  /\ \A i, j \in 1..Len(pages) : i # j => pages[i].next # pages[j].next

\* They are a complete chain, and the archive's own unless it changed meanwhile.
IsArchiveOf(pages, key) ==
  LET AskedBy(i) == IF i = 1 THEN 0 ELSE pages[i - 1].next
  IN  /\ IsChain(pages)
      /\ Last(pages).next = 0
      /\ faults.changes = 0 =>
           \A i \in 1..Len(pages) : pages[i] = Archive(remote, key, AskedBy(i))

\* Whatever crashes happened while it was downloaded and published, the
\* revision current.yaml names verifies: StagingRevision::publish moves the
\* whole attempt into place before it moves the pointer.
CurrentAlwaysVerifies ==
  faults.damage = 0 =>
    \A key \in Keys : Has(disk, Current(key)) => Verifies(disk, key)

\* A published revision is a complete cursor chain of the partition that
\* partition.yaml names, and the archive's own pages in the archive's order
\* unless the archive changed under the download: interrupting and resuming
\* loses, repeats and reorders nothing.
RevisionsAreTheArchive ==
  \A key \in Keys :
    Has(disk, Current(key)) =>
      IsArchiveOf(disk[Current(key)].pages, disk[PartitionFile(key)])

\* checkpoint.json never claims more than is staged: every page it counts has
\* its object and its metadata, they agree, and the next cursor is the one the
\* last of them gave.
CheckpointIsBacked ==
  \A key \in Keys :
    LET dir == Attempt(key) IN
    Has(disk, Checkpoint(dir)) =>
      LET saved == disk[Checkpoint(dir)]
          pages == ResumedPages(disk, dir, saved.committed)
      IN  /\ ~ResumeRefused(disk, dir, saved.committed)
          /\ \A i \in 1..saved.committed :
               ObjectVerifies(disk, PageObject(dir, i - 1), pages[i])
          /\ IsChain(pages)
          /\ saved.next = Last(pages).next

\* Every published run is whole, so that inspect accepts it, and its result is
\* the normalisation, by the mapping of its cache, of the source revision its
\* lineage names, for the sessions that were asked for: no stale, torn or
\* damaged cache was replayed.
RunsMatchTheirLineage ==
  \A p \in DOMAIN disk : p.dir[1] = "output" =>
    /\ InspectAccepts(p.dir)
    /\ LET manifest == disk[File(p.dir, "run-manifest.yaml")]
           events == disk[File(p.dir, "ledger.bin")][2]
       IN  \A i \in 1..Len(events) :
                \E revision \in manifest.lineage[i].revision :
                  /\ events[i] = Normalized(manifest.lineage[i].cache[3][3],
                                            TickRecords(revision.pages))
                  /\ IsArchiveOf(revision.pages, manifest.lineage[i].key)

\* The run that is published was computed by the normalizer of the binary that
\* ran it, not by a cache another mapping left behind.
RunsUseTheirOwnMapping ==
  [][\A o \in Outputs :
       ~DirExists(disk, OutputDir(o)) /\ DirExists(disk', OutputDir(o)) =>
         LET events == disk'[File(OutputDir(o), "ledger.bin")][2]
         IN  \A i \in 1..Len(events) : events[i].mapping = job.mapping]_vars

\* What is published stays: current.yaml, a revision's manifest and a run's
\* files are never rewritten by a later command.
PublishedIsImmutable ==
  [][\A p \in DOMAIN disk :
       p.name \in {"current.yaml", "manifest.yaml"} \cup ToSet(ArtifactFiles)
         /\ p.dir[1] \in {"source", "revision", "output"} =>
       Has(disk', p) /\ disk'[p] = disk[p]]_vars

\* What docs/operations/local-data.md says of Building: run the same sync again
\* and it resumes.  A sync does not fail on files an interrupted one left.
InterruptedSyncResumes ==
  outcome \notin {"AlreadyExists", "RevisionAlreadyExists"}
=============================================================================
