------------------------------- MODULE Handover -------------------------------
(***************************************************************************)
(* From the configuration to the plan, and from the plan to its apply:       *)
(* Runner::prepare_plan, prepare_apply, verify_plan_manifest and the ends of *)
(* execute_phase (runner.rs), with the downloads of Transfer, the archives   *)
(* and digests of Workspace, and the journal's check of a claimed job.       *)
(*                                                                         *)
(* One run: its plan is claimed by some agent, its apply by any agent, or by *)
(* one after the other while they refuse it.  Between them the filesystem    *)
(* snapshot lies on the control plane, where something may happen to it.     *)
(* What an interruption does to a run is Execution's subject, what a restart *)
(* does to a job is JobLifecycle's.                                          *)
(*                                                                         *)
(* pack_tar_gz_file refuses to write where execute_phase wants it to (see    *)
(* Execution, SnapshotIsUploaded).  Here the archive goes somewhere else, as *)
(* if that were repaired: otherwise there would be nothing to hand over.     *)
(***************************************************************************)
EXTENDS Transfer, Workspace

CONSTANTS
  Agents,
  Host,             \* what an agent brings: platform and sandbox
  Tools,            \* executables a job's tool may resolve to
  Ids,              \* job ids
  PlanId, Planner,  \* the plan's job id, and the agent that claims it
  Configurations,   \* archives a user may have uploaded
  Archives,         \* more archives, to be extracted only
  Directories,      \* working directories of a workspace
  Environments,     \* names of the variables a job comes with
  Fetching          \* bound: phases whose tool may have to be downloaded

ASSUME HandoverConstants ==
  /\ {1, 2} \subseteq Versions
  /\ PlanId \in Ids /\ Planner \in Agents
  /\ Host \in [Agents -> STRING] /\ Tools \subseteq STRING
  /\ None \notin Tools

\* Archives are read as entries with a content.  Terraform alone writes a plan.
ASSUME ArchivesAreRead ==
  /\ \A archive \in Configurations \union Archives : archive \in Seq(Entries)
  /\ \A archive \in Configurations :
       \A i \in DOMAIN archive : archive[i].body # "plan"

\* (The proof system does not know that a literal is a string.)
ASSUME NamesAreStrings ==
  {"tmp", "archive", "configuration.tar.gz", "plan-snapshot.tar.gz", "secrets",
   "terraform.tfrc", "token", "aws", "provider", "backend", "lock", "tfplan", "plan",
   "counts", ".terrence-agent-plan-metadata.json", "main.tf", "other"} \subseteq STRING

\* working_directory: a job that would leave its run directory is refused.
ASSUME DirectoriesAreSafe ==
  \A d \in Directories : d \in Seq(STRING) /\ IsSafe(d)

\* A manifest that was changed names nothing that exists: nobody forged it.
ASSUME NothingIsForged ==
  "other" \notin Ids \union Tools \union Environments \union {Host[a] : a \in Agents}

VARIABLES
  pc,           \* where the job at work is
  agent, job,   \* who works on which job
  tree,         \* its run directory
  manifest,     \* its execution manifest
  tool,         \* the executable it resolved
  object,       \* what was stored at the job's archive URL (version 1)
  current,      \* the version that is stored now: 1, or 2 when it was changed
  known,        \* the journals: the jobs each agent remembers
  planned,      \* history: what the plan was made with
  intact        \* history: the apply prepared what the plan uploaded

vars == <<transfer, stored, pc, agent, job, tree, manifest, tool, object, current, known,
          planned, intact>>

NoManifest == [id |-> None]

Jobs == [id : Ids, phase : {"plan", "apply"}, dir : Directories,
         environment : Environments]

\* run_inner and the download: the temporary directory and the archive in it.
Fresh(archive) ==
  Over(At(<<"tmp">>, Dir), At(<<"tmp", archive>>, "archive"))

FreshPlan == Fresh("configuration.tar.gz")
FreshApply == Fresh("plan-snapshot.tar.gz")

Init ==
  /\ pc = "idle"
  /\ stored = 1 /\ transfer = Idle
  /\ \E c \in Configurations, d \in Directories, e \in Environments :
       /\ job = [id |-> PlanId, phase |-> "plan", dir |-> d, environment |-> e]
       /\ object = [entries |-> c, manifest |-> NoManifest]
  /\ agent = Planner
  /\ tree = FreshPlan
  /\ manifest = NoManifest
  /\ tool = None
  /\ current = 1
  /\ known = [a \in Agents |-> {}]
  /\ planned = [job |-> job, tree |-> FreshPlan, tool |-> None, host |-> None]
  /\ intact = TRUE

-----------------------------------------------------------------------------
(* The claim                                                                 *)

\* Journal::start: the agent knows another job by this id.
Conflict(a, j) == \E k \in known[a] : k.id = j.id /\ k # j

\* The plan is claimed, and its configuration downloaded.
ClaimPlan ==
  /\ pc = "idle"
  /\ known' = [known EXCEPT ![agent] = @ \union {job}]
  /\ pc' = "configuration"
  /\ Begin("file")
  /\ UNCHANGED <<stored, agent, job, tree, manifest, tool, object, current, planned, intact>>

\* The apply is claimed, with a job id, a working directory and an environment
\* that the control plane chooses.  An agent that knows the id from the plan
\* declines, and the control plane may try another one.
ClaimApply(a, j) ==
  /\ pc \in {"stored", "declined"}
  /\ j.phase = "apply" /\ j \notin known[a]
  /\ agent' = a /\ job' = j
  /\ tree' = FreshApply /\ manifest' = NoManifest /\ tool' = None
  /\ IF Conflict(a, j)
       THEN pc' = "declined" /\ UNCHANGED <<known, transfer, stored>>
       ELSE /\ pc' = "snapshot"
            /\ known' = [known EXCEPT ![a] = @ \union {j}]
            /\ stored' = current
            /\ Begin("file")
  /\ intact' = TRUE
  /\ UNCHANGED <<object, current, planned>>

\* Thirty days later the journals are empty (prune_expired).
Forget ==
  /\ pc = "stored"
  /\ known' = [a \in Agents |-> {}]
  /\ UNCHANGED <<transfer, stored, pc, agent, job, tree, manifest, tool, object, current,
                 planned, intact>>

-----------------------------------------------------------------------------
(* Downloads                                                                 *)

Loading == pc \in {"configuration", "snapshot", "tool"}

\* A step of the download.
Load ==
  /\ Loading
  /\ Download
  /\ UNCHANGED <<pc, agent, job, tree, manifest, tool, object, current, known, planned,
                 intact>>

\* An archive that somebody changed or that was not received whole: a body is
\* another one, an entry is missing, or there is one more.
Changed(archive) ==
  {ReplaceAt(archive, i, [archive[i] EXCEPT !.body = "other"]) :
     i \in {k \in DOMAIN archive : archive[k].kind = "file"}}
  \union {RemoveAt(archive, i) : i \in DOMAIN archive}
  \union {Append(archive, Entry(<<"main.tf">>, "file", "other"))}

\* The same for the manifest: one of its fields is another one.
ChangedManifest(m) ==
  IF m = NoManifest THEN {}
  ELSE {[m EXCEPT ![f] = "other"] :
          f \in {"id", "host", "tool", "environment", "lock", "state", "plan"}}
       \union {[m EXCEPT ![f] = <<>>] : f \in {"dir", "snapshot", "providers"}}

ChangedObject(o) ==
  ({[o EXCEPT !.entries = e] : e \in Changed(o.entries)}
   \union {[o EXCEPT !.manifest = m] : m \in ChangedManifest(o.manifest)}) \ {o}

\* Something happens to what is stored, before or while it is downloaded.  What
\* it was changed to is chosen when it is read.
Replace ==
  /\ pc \in {"configuration", "stored", "snapshot"}
  /\ current = 1 /\ current' = 2
  /\ IF pc = "stored" THEN UNCHANGED <<transfer, stored>> ELSE Overwritten(2)
  /\ UNCHANGED <<pc, agent, job, tree, manifest, tool, object, known, planned, intact>>

\* What was received is what was stored first.
Received == Whole(transfer.output, 1)

\* What a finished download can be read as, if it can be read.  Blocks that do
\* not belong together, or not all of them, may well be, even as what was stored:
\* the checksum of the compression stands behind the last entry, where nobody reads.
Readings ==
  (IF Whole(transfer.output, 2) THEN {} ELSE {object})
  \union (IF Received THEN {} ELSE ChangedObject(object))

Unreadable == ~ \E v \in {1, 2} : Whole(transfer.output, v)

DownloadFailed ==
  /\ Loading /\ transfer.st = "failed"
  /\ pc' = IF job.phase = "plan" THEN "failed" ELSE "undone"
  /\ transfer' = Idle
  /\ UNCHANGED <<stored, agent, job, tree, manifest, tool, object, current, known, planned,
                 intact>>

-----------------------------------------------------------------------------
(* Preparation                                                               *)

\* The directory that the commands of a job run in (create_dir_all), and the file
\* of its credentials (write_cli_config).
Credentials == <<"secrets", "terraform.tfrc">>
WorkingIn(t, dir) == MakeDirs(t, Prefixes(dir) \ {<<>>})

Furnished(t, dir) == WriteFile(WorkingIn(t, dir), Credentials, "token")

Furnishable(t, dir) ==
  MayMakeDirs(t, Prefixes(dir) \ {<<>>}) /\ Writable(WorkingIn(t, dir), {Credentials})

\* prepare_plan, from the download to its end.  The archive is downloaded into
\* the directory that is then looked through for a single directory.
PreparePlan ==
  /\ pc = "configuration" /\ transfer.st = "done"
  /\ \/ \E o \in Readings :
          LET x == Extract(o.entries, FreshPlan)
              f == Flatten(x.tree)
          IN  IF x.ok /\ f.ok /\ Furnishable(f.tree, job.dir)
                THEN pc' = "resolve" /\ tree' = Furnished(f.tree, job.dir)
                ELSE pc' = "failed" /\ UNCHANGED tree
     \/ /\ Unreadable
        /\ pc' = "failed" /\ UNCHANGED tree
  /\ transfer' = Idle
  /\ UNCHANGED <<stored, agent, job, manifest, tool, object, current, known, planned,
                 intact>>

\* prepare_apply does not flatten, and reads the manifest.
PrepareApply ==
  /\ pc = "snapshot" /\ transfer.st = "done"
  /\ \/ \E o \in Readings :
          LET x == Extract(o.entries, FreshApply)
          IN  IF x.ok /\ Furnishable(x.tree, job.dir) /\ o.manifest # NoManifest
                THEN /\ pc' = "resolve"
                     /\ tree' = Furnished(x.tree, job.dir)
                     /\ manifest' = o.manifest
                ELSE pc' = "refused" /\ UNCHANGED <<tree, manifest>>
     \/ /\ Unreadable
        /\ pc' = "refused" /\ UNCHANGED <<tree, manifest>>
  /\ intact' = Received
  /\ transfer' = Idle
  /\ UNCHANGED <<stored, agent, job, tool, object, current, known, planned>>

\* resolve_binary finds the tool installed or in the cache.
Resolve ==
  /\ pc = "resolve"
  /\ tool' \in Tools
  /\ pc' = "run"
  /\ UNCHANGED <<transfer, stored, agent, job, tree, manifest, object, current, known,
                 planned, intact>>

\* Or it has to be downloaded.
ResolveByDownload ==
  /\ pc = "resolve" /\ job.phase \in Fetching
  /\ pc' = "tool"
  /\ stored' \in Versions
  /\ Begin("memory")
  /\ UNCHANGED <<agent, job, tree, manifest, tool, object, current, known, planned,
                 intact>>

\* Its checksum is checked.
ToolDownloaded ==
  /\ pc = "tool" /\ transfer.st = "done"
  /\ IF Whole(transfer.output, transfer.version)
       THEN tool' \in Tools /\ pc' = "run"
       ELSE /\ pc' = IF job.phase = "plan" THEN "failed" ELSE "undone"
            /\ UNCHANGED tool
  /\ transfer' = Idle
  /\ UNCHANGED <<stored, agent, job, tree, manifest, object, current, known, planned,
                 intact>>

-----------------------------------------------------------------------------
(* The plan                                                                  *)

\* What init and plan leave in the directory they run in.
Results(dir) ==
  Over(Over(At(Providers(dir) \o <<"aws">>, "provider"),
            At(dir \o <<".terraform", "terraform.tfstate">>, "backend")),
       Over(At(dir \o <<".terraform.lock.hcl">>, "lock"), At(dir \o <<"tfplan">>, "plan")))

\* The commands of the plan fail, or succeed.
RunPlan ==
  /\ pc = "run" /\ job.phase = "plan"
  /\ \/ pc' = "failed" /\ UNCHANGED tree
     \/ /\ Writable(tree, DOMAIN Results(job.dir))
        /\ pc' = "seal" /\ tree' = WriteFiles(tree, Results(job.dir))
  /\ UNCHANGED <<transfer, stored, agent, job, manifest, tool, object, current, known,
                 planned, intact>>

\* The manifest of the plan that job j of agent a made in tree t.
ManifestOf(a, j, t, binary) ==
  [id |-> j.id, host |-> Host[a], tool |-> binary, environment |-> j.environment,
   dir |-> j.dir, plan |-> FileDigest(t, j.dir \o <<"tfplan">>),
   snapshot |-> SnapshotDigest(t), lock |-> LockDigest(t, j.dir),
   state |-> StateDigest(t, j.dir), providers |-> ProviderDigests(t, j.dir)]

Metadata == <<".terrence-agent-plan-metadata.json">>

\* Mutant of Seal: the digests are taken before the metadata is written.
SealFirst ==
  /\ pc = "seal"
  /\ tree' = WriteFile(tree, Metadata, "counts")
  /\ manifest' = ManifestOf(agent, job, tree, tool)
  /\ planned' = [job |-> job, tree |-> tree', tool |-> tool, host |-> Host[agent]]
  /\ pc' = "pack"
  /\ UNCHANGED <<transfer, stored, agent, job, tool, object, current, known, intact>>

\* The metadata of the plan is written, unless a directory is in its place, and
\* then the manifest.
Seal ==
  /\ pc = "seal"
  /\ IF Writable(tree, {Metadata})
       THEN /\ tree' = WriteFile(tree, Metadata, "counts")
            /\ manifest' = ManifestOf(agent, job, tree', tool)
            /\ planned' = [job |-> job, tree |-> tree', tool |-> tool, host |-> Host[agent]]
            /\ pc' = "pack"
       ELSE pc' = "failed" /\ UNCHANGED <<tree, manifest, planned>>
  /\ UNCHANGED <<transfer, stored, agent, job, tool, object, current, known, intact>>

\* The directory is packed and uploaded, or the upload fails.
Upload ==
  /\ pc = "pack"
  /\ \/ pc' = "failed" /\ UNCHANGED <<object, current>>
     \/ /\ pc' = "stored"
        /\ object' = [entries |-> Pack(tree), manifest |-> manifest]
        /\ current' = 1
  /\ UNCHANGED <<transfer, stored, agent, job, tree, manifest, tool, known, planned,
                 intact>>

-----------------------------------------------------------------------------
(* The apply                                                                 *)

\* Mutant of Verified: the digest of the snapshot is not compared.
VerifiedLoosely ==
  LET m == manifest IN
  /\ m.id = job.id /\ m.host = Host[agent] /\ m.tool = tool
  /\ m.plan # None /\ m.plan = FileDigest(tree, job.dir \o <<"tfplan">>)
  /\ m.lock = LockDigest(tree, job.dir)
  /\ m.state = StateDigest(tree, job.dir)
  /\ m.providers = ProviderDigests(tree, job.dir)
  /\ m.dir = job.dir /\ m.environment = job.environment

\* verify_plan_manifest
Verified ==
  LET m == manifest IN
  /\ m.id = job.id /\ m.host = Host[agent] /\ m.tool = tool
  /\ m.plan # None /\ m.plan = FileDigest(tree, job.dir \o <<"tfplan">>)
  /\ m.snapshot = SnapshotDigest(tree)
  /\ m.lock = LockDigest(tree, job.dir)
  /\ m.state = StateDigest(tree, job.dir)
  /\ m.providers = ProviderDigests(tree, job.dir)
  /\ m.dir = job.dir /\ m.environment = job.environment

\* The saved plan is applied, or refused.
Verify ==
  /\ pc = "run" /\ job.phase = "apply"
  /\ pc' = IF Verified THEN "applying" ELSE "refused"
  /\ UNCHANGED <<transfer, stored, agent, job, tree, manifest, tool, object, current, known,
                 planned, intact>>

Ended == pc \in {"failed", "undone", "refused", "applying"} /\ UNCHANGED vars

-----------------------------------------------------------------------------
Next ==
  \/ ClaimPlan \/ Forget \/ Load \/ Replace \/ DownloadFailed
  \/ \E a \in Agents, j \in Jobs : ClaimApply(a, j)
  \/ PreparePlan \/ PrepareApply \/ Resolve \/ ResolveByDownload \/ ToolDownloaded
  \/ RunPlan \/ Seal \/ Upload \/ Verify
  \/ Ended

Spec == Init /\ [][Next]_vars

-----------------------------------------------------------------------------
(* Properties                                                                *)

\* Variables have their types, and the run directory is one: whatever was
\* extracted, flattened and written, what a path leads through are directories.
TypeOK ==
  /\ TransferType
  /\ pc \in {"idle", "configuration", "snapshot", "tool", "resolve", "run", "seal", "pack",
             "stored", "declined", "applying", "refused", "undone", "failed"}
  /\ agent \in Agents /\ job \in Jobs /\ tool \in Tools \union {None}
  /\ current \in {1, 2}
  /\ known \in [Agents -> SUBSET Jobs] /\ intact \in BOOLEAN
  /\ \A p \in DOMAIN tree : \A q \in Parents(p) : q \in DOMAIN tree /\ tree[q] = Dir

\* The loop over an archive's entries takes exactly the archives that can be
\* unpacked in any order without one entry being in another's way or in that
\* of the run directory's own files, and makes exactly what they name
\* (extract_tar_gz_reader).
ExtractionIsExact ==
  pc \in {"idle", "stored"} =>
    \A archive \in {object.entries} \union Changed(object.entries)
                    \union (IF pc = "idle" THEN Archives ELSE {}),
       t \in {FreshPlan, FreshApply} :
      LET x == Extract(archive, t)
      IN  /\ x.ok = Extractable(archive, t)
          /\ x.ok => x.tree = Extracted(archive, t)

\* What the commands of a run can read in t: everything but the credentials and
\* the temporary files and, when they run in a directory below, the providers
\* above it.
Relevant(t, dir) ==
  {p \in Files(t) : ~IsExcluded(p) /\ (dir # <<>> => ~IsPrefix(Providers(<<>>), p))}

\* An apply goes on only with what was planned, though the snapshot was out of
\* the agents' hands: the files, the executable, the platform and sandbox, the
\* working directory, the environment and the job's id (verify_plan_manifest).
AppliedIsPlanned ==
  pc = "applying" =>
    LET paths == Relevant(planned.tree, planned.job.dir)
    IN  /\ Relevant(tree, job.dir) = paths
        /\ \A p \in paths : tree[p] = planned.tree[p]
        /\ planned.tool = tool /\ planned.host = Host[agent]
        /\ job = [planned.job EXCEPT !.phase = "apply"]

\* The other way round, an apply is refused only for a cause: the agent knows
\* its id from the plan, it comes with another id, working directory or
\* environment, to another platform or tool, its snapshot was changed on the
\* way, or the working directory lies where nothing is packed.
RefusedForCause ==
  pc \in {"refused", "declined"} =>
    \/ pc = "declined" /\ \E k \in known[agent] : k.phase = "plan" /\ k.id = job.id
    \/ job # [planned.job EXCEPT !.phase = "apply"]
    \/ planned.host # Host[agent] \/ tool \notin {None, planned.tool}
    \/ ~intact
    \/ job.dir # <<>> /\ IsExcluded(job.dir)

\* archive.rs:601 (extracts_and_flattens_git_style_archives): an archive with a
\* single directory at its root leaves the content of that directory in the
\* run directory (prepare_plan).
ConfigurationIsFlattened ==
  pc = "resolve" /\ job.phase = "plan" =>
    LET x == Extract(object.entries, <<>>)
    IN  current = 1 => DOMAIN Flatten(x.tree).tree \subseteq DOMAIN tree
=============================================================================
