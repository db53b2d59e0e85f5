# Verification of terrence-agent

This directory holds TLA+ models of the agent in this repository, the TLC
configurations that check them on small instances, and proofs that TLAPS checks
for every instance. The agent is one Rust process. It registers with a Terrence
control plane, claims plan and apply jobs one at a time, runs Terraform or
OpenTofu for each in a private run directory, delivers the log and the outcome,
and keeps a journal on disk so that a restart neither repeats a job nor loses
its outcome.

Line numbers refer to the files under `src/src/`.

## 1. Inventory

| Component | State | Operations | Talks to |
|---|---|---|---|
| Poll loop (`main.rs`) | idle round, shutdown token, the journal entry in hand | `register_with_retry`, `poll_once`, `finish_journal_entry`, `wait_for_shutdown` | journal, runner, client |
| Execution journal (`journal.rs`, `manifest.rs`) | one JSON record per job: manifest, state, `retain_work_dir`, completion | `open`, `start`, `mark_executing`, `record_completion`, `mark_completion_acked`, `mark_cleanup_done`, `unfinished`, `prune_expired` | disk |
| Runner (`runner.rs`) | run directory, deadline, three cancellation tokens, child processes | `run`, `execute_phase`, `run_streamed`, `capture_state_file`, `capture_json`, `start_heartbeat`, `cleanup_manifest` | client, logs, toolchain, sandbox, archive, provenance |
| Log delivery (`logs.rs`) | queue of writes, spool files, sequence number | `append`, `upload_logs`, `flush_chunk`, `replay_pending`, `finish_log` | client, disk |
| Client (`client.rs`, `protocol.rs`) | agent id, session token, message index | `register`, `put_status`, `job_status`, `claim`, `forward_once`, `deregister`, artifact transfer | control plane |
| Toolchain cache (`toolchain.rs`, `diagnostics.rs`) | cache entries with metadata, a lock file | `resolve`, `publish_archive`, `cached_binary`, `prune_cache`, `verify_cache` | disk shared between processes |
| Archives, provenance (`archive.rs`, `provenance.rs`) | none between calls | pack, extract, flatten, digest, persist | disk |
| Sandbox (`sandbox.rs`, `landlock-runner.c`) | process group | `choose_command`, `terminate_child` | kernel |
| Metrics (`observability.rs`) | counters, readiness, current job | one setter per event, health endpoint | every component |
| Configuration, provider cache, diagnostics | none that changes | parse and check at start | - |

Interaction. The poll loop is the only task that touches the journal. While a
job runs, four more tasks do: the heartbeat (polls for cancellation, sends
"busy"), the log uploader, two readers of the child's output. The forwarding
loop and the signal task run beside the poll loop throughout. They share the
client (session state behind separate locks), the cancellation tokens and the
metrics. Nothing but the journal, the run directories, the log spool and the
toolchain cache survives the process.

What is hard in each component, and what makes it correct:

* *Poll loop and journal*: a crash, a failing write or a lost answer between any
  two of some ten writes and requests per job. Correct: a job runs at most once,
  the control plane hears one outcome of it and hears it before the journal lets
  go, the run directory lives as long as it is needed and no longer, and no
  record blocks the others.
* *Runner*: deadline, remote cancellation, two kinds of shutdown and the end of
  the process race; an apply that failed may have changed resources. Correct:
  every run ends with an outcome that says what the state needs, no child
  outlives its run, a forced shutdown is not held up.
* *Log delivery*: bounded memory and disk, retries, a spool that outlives the
  process. Correct: what reaches the control plane is a prefix-closed, ordered
  stream, complete unless it is reported as incomplete.
* *Client session*: concurrent senders across a re-registration. Correct: no
  request carries the id of one session and the token of another, a status that
  is older than another is recognisable.
* *Toolchain cache*: several processes and a prune command. Correct: what
  `resolve` returns is the requested version, complete, and still there.
* *Archives and provenance*: a snapshot that leaves the agent's hands between plan
  and apply, downloads that break off, archives whose entries get in each other's
  way. Correct: an apply runs on what was planned or not at all, and what is
  refused is refused for a reason.

`PROJECT.json` lists every hazard found with its line.

## 2. Plan

1. `JobContract`, `JobLifecycle`, `JobLifecycle_proofs`: what a job is promised,
   and the poll loop with its journal (done, sections 3 to 6).
2. `RunContract`, `Execution`, `Execution_proofs`: `Runner::run` with its stages, the
   IaC processes, cancellation, the deadlines and state recovery (done, sections 3 to 5).
3. `LogSpool`, `LogSpool_proofs`: uploader and spool across restarts and across
   the two jobs of a run (done, sections 3 to 5).
4. `ToolchainCache`, `ToolchainCache_proofs`: several agents and prunes on one cache
   entry (done, sections 3 to 5).
5. `AgentSession`, `AgentSession_proofs`: registration, headers, message index,
   claims, heartbeat, forwarding, shutdown and deregistration (done, sections 3 to 5).
6. `Transfer`, `Workspace`, `Handover` and a module of proofs for each: downloads, the
   run directory as data, and the plan and the apply of one run on one or two agents
   (done, sections 3 to 5).
7. Left: the small numeric functions (`idle_backoff`, `parse_retry_after`, the job timeout) against
   reference definitions; a composition of `JobLifecycle` with `Execution`'s answers in
   the place of `RunOutcomes`.

Abstract specifications: `JobContract` (1), `RunContract` (2), `TransferSpec`, which
`Handover` implements, and `Workspace!Extracted` with `Extractable`, which say without an
order of entries what `extract_tar_gz_file` computes entry by entry (6).

Which module uses which: `Handover` extends `Transfer` and `Workspace`; `JobLifecycle`
and `Execution` instantiate their contracts. The others are linked by what they hand
over: `Execution`'s outcome is `JobLifecycle`'s completion, whose report is a request of
`AgentSession`; `LogSpool` serves the commands of `Execution`; `ToolchainCache` is the
`Resolve` of `Handover`.

## 3. The models

### JobLifecycle: state

| Variable | Code |
|---|---|
| `journal` | the files under `<data_dir>/journal`, one record per job id |
| `dirs` | the directories under `<data_dir>/runs` |
| `pc`, `job`, `dir`, `completion`, `fresh` | where `main` and `poll_once` are, and the locals that matter: the entry in hand, `outcome.work_dir`, `outcome.completion`, and whether this call of `poll_once` executed the job itself |
| `shutdown` | the cancellation token of the first signal |
| `pool`, `told` | the control plane: what a claim can be answered with, and the outcomes it accepted |
| `runs`, `orphans` | history: executions of each job since the journal forgot it, and the directories of executions that were cut short |
| `faults`, `offers` | counters of the bounds |

The program counter: `down` (no process), `register`, `poll` (top of
`poll_once`), `mark` (claimed, before `mark_executing`), `run` and `running`
(`Runner::run`), `record`, `report`, `ack`, `clean`, `done` (the steps of
`record_completion` and `finish_journal_entry`), `exit` (single-job mode).

### JobLifecycle: actions

Every journal write and every request is one action, so that a crash or failure
can fall between any two. `Start` is `Journal::open` with its pruning.
`FinishFirst` is the branch of `poll_once` for unfinished records; `FinishEntry`
is `finish_journal_entry` up to its first request or write, and `Report`,
`MarkAcked`, `CleanUp`, `MarkCleanupDone` are the rest. `ClaimNew`, `ClaimKnown`
and `ClaimConflict` are the three ways `Journal::start` answers; `ClaimLost` is
every way a job is given away with nothing to show for it in the journal (the
answer lost, shutdown winning the `select!`, an invalid payload, a failing
write). `MarkExecuting` includes the status "busy", whose failure changes
nothing. `RunStart`/`RunEnd`/`RunRefused` are `Runner::run`. Failures:
`Crash`, `Signal`, `RegisterRejected`, `ClaimUnauthorized`, `ReportAnswerLost`,
`ReportFailed`, `CleanUpFailed`, `WriteFailed`, one for each `?` that leaves
`poll_once`.

Data. A completion is its status, `state_recovery_required` and whether its
record exceeds the 16 MiB of `Journal::read`; the status `restarted` stands for
the errored completion with lifecycle `agent_restarted`. A fingerprint is one of
two values: the same payload or a changed one.

### JobLifecycle: what is left out

The second signal (it changes `Runner::run` and the exit code, not the journal);
the forwarding loop and how a session is replaced (`AgentSession`); the lengths of delays; operating-system crashes that undo a
rename whose directory was not synced (`sync_directory` ignores errors); two
processes on one data directory, which nothing in the code prevents and its
documentation does not offer.

### JobLifecycle: the contract

`JobContract` says what is promised with no journal and no crash in it: a job is
admitted, executed at most once, settled with one outcome, told that outcome
any number of times, and closed only after it was told. After its retention time
a closed job may be forgotten. `JobLifecycle!Contract` is the refinement
mapping: the stage of a job is read off its record's state.

### LogSpool

One run's spool directory, used by one job after the other (`job`), each with an
uploader and a log of its own at the control plane.

| Variable | Code |
|---|---|
| `written`, `closed` | what `LogWriter::append` was given, and whether every writer is dropped |
| `pc`, `cur`, `mode` | where `upload_logs` is, the file in hand, and why: a chunk stored and sent at once (`new`), stored behind others (`queued`), replayed (`old`), the terminator (`end`) |
| `opened`, `flushed`, `next`, `lastAcked`, `closing`, `todo` | the locals of `upload_logs` and `replay_pending`, `Spool::next_sequence` |
| `incomplete`, `verdict` | the flag shared with the writers; what `finish()` returned |
| `files`, `temporary` | the spool directory: files in place, and files written but not renamed |
| `received` | the control plane: what arrived on each log |

Output is counted in pieces, piece n being what the n-th chunk holds. A file has
its sequence number, its kind, the job that stored it, and its data, which may be
cut short. A request is `Send` (accepted; the answer may be lost, then
`SendFailed` follows) or `SendFailed` alone. `Store` is the rename; a failure or a
crash during it leaves nothing, the whole temporary file or a cut one
(`Remains`). `Start` recovers temporary files as `recover_temporary_files` does,
without a look at their contents; `StartUnopened` stands for every way
`Spool::open` fails, the partial recoveries included. `Tick`, `Flush`, `Close`
are the branches of the `select!`; `BeginReplay` to `ReplayEnd` are
`replay_pending`, `FinishAgain`, `FinishNew`, `FinishGivesUp`, `FinishFailed` the
ways through `finish_log`. `CleanUpStale` removes a spool nobody uses.

Left out: the bound of the channel (it delays writers), the size of chunks, the
seven days after which a spool is stale. A full spool is a failing store.

### Execution

| Variable | Code |
|---|---|
| `phase`, `local`, `marker` | the payload's phase; whether the configuration keeps its state in `exec_dir`; the apply marker that lies in the run directory when the apply begins |
| `pc`, `stage` | where the run is: the stage (a command or an upload) and what it waits for |
| `failed`, `trouble`, `got`, `answer` | `apply_error`, `state_recovery_error`, the state that was read, the `JobOutcome` |
| `canceled`, `expired` | the tokens of `ExecutionControl`; the deadlines that have passed |
| `alive`, `held` | the commands whose process group runs; those whose output pipe a process outside the group keeps open while a reader waits for its end |
| `lost` | the local state file was truncated |
| `started`, `passed`, `late` | history: commands started, stages passed, commands started with a token already set |

`run_streamed`, `capture_state_file` and `capture_json` are one state machine:
`CanceledBefore` and `Clear` (the tokens are asked), `NotStarted` and `Spawn` (which
asks the deadline only after the process runs), the branches of the `select!` (`ExitSeen`, `CancelSeen`,
`TimeoutSeen`, `PullTimeoutSeen`; any that is ready may win), `Joined` and
`ReaderFails`. Between `Clear` and `Spawn` the command is built, while the heartbeat or
the signal task may set a token. They differ in what they do after a timeout and in whether a reader
holds a `LogWriter`, which is what `Close` (`LogStream::finish`) waits for. `GoesOn`
is what `execute_phase` makes of the result: `PlanGoesOn` and `ApplyGoesOn`. The
stage `repull` is the recovery pull of a canceled apply, with tokens and a
deadline of its own. `Marked` is the way of an apply that finds
`.terrence-apply-execution-finished` in its run directory: no command runs, and the
file's content is taken for the result (runner.rs:887). Nothing keeps a
configuration from bringing such a file (archive.rs:335). A state is `final` if it was read after the apply command
ended, `early` if a process spawned past the deadline was still applying.

Left out: the marker that an apply itself writes, which no later execution finds, since
each creates a new run directory; a failing `wait` for a child; the escalation of
signals inside `terminate_child`.

`RunContract` promises one answer, after the end of the apply command; once
resources may have changed, the answer carries the final state or asks for
recovery, and an apply is finished only with its final state and nothing to
recover. In a run directory that is marked nothing is changed, and "finished" comes
with the state that was found. `Execution!Contract` reads the apply command off `started` and `alive`.

Of the snapshot only its place is modelled: `Packs` compares the two paths that
`execute_phase` gives `pack_tar_gz_file`. As the code stands no plan comes to the
stage `snapshot`, so `FinishedIsWhole` speaks of applies; its half about plans
counts once packing succeeds. `JobLifecycle` lets a plan finish all the same: its
`RunOutcomes` are what `poll_once` may be given, and its results hold for fewer.

### ToolchainCache

One entry of the cache, that is, one release. Entries have locks of their own,
so nothing is lost by looking at one.

| Variable | Code |
|---|---|
| `pc`, `dir` | per agent: where `resolve` is, and its `temp_dir` |
| `holder` | who holds `CacheLock` |
| `entry`, `temps` | the directory that `entry_dir` names, and those under a temporary name |
| `content` | which of the two files (binary, metadata) a directory holds |
| `durable`, `settled` | which of them, and whether the entry's name in the product's directory, would survive a power loss |
| `product` | the directory of the product, above the entry: absent, made since the last power loss (`fresh`), or older (`kept`) |
| `ppc`, `name`, `target` | per prune: where `remove_dir_all` is, the name it was given, the directory behind it |
| `pruned` | history |

`Look` to `Confirm` are the steps of `resolve`, each with its error path
(`Discard` is the removal of `temp_dir`). A directory has an identity apart from
its name, because `remove_dir_all` opens a directory by name and then works on
what it opened, whatever the name has become since. `Stop` is the drop of a
resolve by the job's deadline or the death of its process, both of which release
the lock; `PowerLoss` keeps of each directory at least what is both there and
synced (`Reverts`), or takes the product's directory as a whole (`Vanishes`): it is
created by `secure_directory`, which does not sync the directory above (toolchain.rs:321),
and the sync after the rename (toolchain.rs:170) makes durable what is in it, not its
own name. `Serve` is `cached_binary` on an existing entry: an entry that lacks a
file is an error, never a reason to download again.

`PartialOnlyByPrune` has its exception for a reason. Prune takes no lock and visits
directories under construction. What it found incomplete may be complete, and
published, when it removes the files, and the entry is then refused for good.

Left out: files that somebody else changed (a wrong digest is one of the errors
of `Serve`), a machine that loses power while others on the same network volume
run on, a binary whose data was lost although its name survived (only possible
in a temporary directory nobody will publish), and a removal by prune that a
power loss undoes.

### AgentSession

| Variable | Code |
|---|---|
| `pc` | where `main` is, from `register_with_retry` to `deregister` |
| `heart` | the heartbeat task of `start_heartbeat`: `off`, or where it waits |
| `fwd` | the forwarding loop: its step, the agent id it read for its headers, the request in hand |
| `agentId`, `token`, `messageIndex` | the fields of `Client`, each behind a lock of its own or atomic |
| `registered` | the flag of `Metrics` |
| `owed` | the journal holds a completion that is not acknowledged |
| `attempts`, `shutdown` | the deregistration attempts; the shutdown token |
| `waiting` | per task, the request whose answer it waits for |
| `late` | requests their sender gave up and that may still arrive |
| `issued`, `live`, `jobs`, `belief`, `queue`, `answered` | the control plane |
| `handed`, `executed` | history of the forwarded requests |

Every request is an action that sends it and one for each way it ends: the answer,
the refusal (401), the failure. What a task does on a 401 is its own: the poll loop
registers, the others log it. A request that is given up, by its timeout, by the
`select!` that drops it or by the abort of the heartbeat, goes to `late`, from where
`Arrive` takes it at any later time. `RegisterAnswered` and `TokenStored` are two
steps, because id and token are stored one after the other; the forwarding loop reads
them in two steps too (`TakeReadsId`, `TakeSend`), because it is the one task that runs
while another registers. The message index is drawn before the headers are read and
before the request is sent (`put_status`).

The control plane is external and is modelled as the code uses it: it knows one
session per agent, a registration replaces it, it may end a session, it answers 401
exactly to requests of another one, and of two statuses the one with the higher index
counts. Sessions are numbered; the token 0 is the agent's own pool token, which it
sends when a registration brought none.

Left out: the journal and the run beyond "a job is claimed, runs, owes a completion"
(`JobLifecycle`, `Execution`), a journal that refuses a job being one case of
`StartFailed`; single-job mode; several jobs at a time, which the agent does not do;
the restart of the process, with which the session and the counter begin anew; what
still arrives after the process has ended; an unreadable token file, which is one
more failing request.

### Transfer

One download, in blocks, in the two forms of `client.rs`: `get_artifact_file` into a
file and `get_artifact_retry` into memory. An action is an answer (`Accepted`, `Rejected`, an
error status, none) or a step of the body (`Chunk`, `Broken`, `Complete`). An answer has
one of three statuses, 200, 206 or another that is not an error, and any part of the
object for its body: the code takes every success (client.rs:577, 954), throws away what
it has only on a 200, and compares no end of a body with a size. What the server did
to the output is kept in `faulty`, so that `DownloadIsWhole` can name the causes. They differ as the code does: a file is asked for again
after any error status, and its `Content-Range` is not looked at; memory is asked for again
only after a transient one. `Overwritten` replaces the object at any time, since no
request says which version it wants. Left out: the pauses, redirects, and the hosts
a URL may name.

### Workspace

Operators for `archive.rs` and `provenance.rs` on a tree, a function from paths to
contents. `Extract` applies `ExtractEntry` to one entry of the archive after the other, in
the order of its checks; `Flatten`, `Pack` and the digests follow. `Writable` and
`WriteFiles` are what other programs do to the directory. The recursions are recursive
functions (`after`, `walk`) and a tree is laid over another by `Over`, so that the prover
can reason about them. `Pack` lists a directory before what is in it, in an order of its
own; the code's is by name. A digest is what it is computed from, which
makes it injective. Left out: limits on sizes, counts and depths, modes, the tar
encoding, compression, and links in a tree (extraction makes none; an entry that is
a link is refused).

### Handover

One run: the plan from its configuration archive to the uploaded snapshot, the apply
from the download to the point where it may start, by agents that each have a journal.

| Variable | Code |
|---|---|
| `pc`, `agent`, `job` | where `run_inner` is, of which agent, on which job |
| `tree` | the run directory |
| `manifest`, `tool` | the execution manifest, the executable |
| `transfer`, `stored`, `object`, `current` | the download, and what lies at its URL |
| `known` | the journals: jobs by id, without the fields that rotate |
| `planned`, `intact` | history: what the plan was made with; whether the apply got what was uploaded |

`ClaimPlan` and `ClaimApply` include the journal's answer to an id it knows;
`PreparePlan` and `PrepareApply` are `prepare_plan` and `prepare_apply` after their
download; `Seal` writes the metadata and then takes the digests for the manifest;
`Verify` is `verify_plan_manifest`. The control plane chooses the apply's job id,
working directory and environment freely. What happens to the snapshot meanwhile is
one change of one entry, or of one field of its manifest (`ChangedObject`), chosen when
it is read; a download that is not whole may be readable, and then reads as one of these
or even as what was stored, since the end of the compressed data is behind the last
entry (`Readings`).
Several changes at once, made to agree with each other, are not considered: the
manifest holds digests and is not signed.

The plan's job id and agent are fixed, which loses nothing: ids are only compared,
and agents differ only in what `Host` gives them, all of which the apply's agent ranges
over. The archive is packed to some other place than the code's, as if the defect that
`execution_snapshot` shows were repaired; otherwise no snapshot would exist. The manifest is
kept beside the tree, from which the digests leave it out anyway. The effects of `init` and
`plan` are external: they leave a provider, a lock file, a backend state and a plan
file (`Results`), or fail, as they must where a directory lies in the way of one of
these. For the same reason `Seal` may fail to write the metadata. A download of the tool is followed by the check of its checksum.

Left out: cancellation, deadlines and the process's end (`Execution`,
`JobLifecycle`), `schema_version`, the phase and the run id in the manifest, which are
constant here, and file modes.

## 4. What is checked

| Run | Instance | Result |
|---|---|---|
| `lifecycle_safety` | 2 jobs (plan, apply), 2 fingerprints, 3 directories, single-job mode, large records, 3 faults, 1 repeated offer, symmetry over directories and fingerprints; about 480,000 states | type, the four safety properties and `ImplementsContract` hold |
| `lifecycle_live` | the same without single-job mode and large records, 2 faults; about 125,000 states | the four liveness properties hold |
| `lifecycle_wedge` | with large records | `PendingIsReported` fails |
| `spool_all` | 2 jobs on one spool, 2 pieces each, 1 fault; about 58,000 states | type, three safety properties, `FilesLeaveDelivered` and two liveness properties hold |
| `spool_foreign` | the same | `ReplayReachesItsLog` fails |
| `execution_all` | the whole model, which has no parameters; about 41,000 states | type, three safety properties, `ImplementsRunContract` and `RunEnds` hold |
| `execution_localstate` | the same | `AppliedStateSurvives` fails |
| `execution_snapshot` | the same | `SnapshotIsUploaded` fails |
| `cache_all` | 2 agents, 1 prune, 2 directories, 1 fault; about 353,000 states | type, three safety properties, `PublishedLasts` and `ResolveEnds` hold |
| `session_all` | 1 job, 1 forwarded request, 1 sign of life, 2 faults, 2 deregistration attempts; about 480,000 states | type, three safety properties, `SessionIsReplaced` and `SignalStops` hold |
| `handover_all` | 2 agents, 2 tools, 2 job ids, 2 configurations, 2 working directories, 100 more archives, 3 versions of an object, 2 download attempts; about 154,000 states | type and four safety properties hold |
| `handover_flatten` | 1 agent, 1 tool, a checkout for the configuration | `ConfigurationIsFlattened` fails |

Bounds. Two jobs are enough for one record to stand in the way of another, for
the order by job id to matter and for two records to compete for a directory
name; a third job adds no new pair. Three directories let a leaked one exist
beside two live ones. Three faults allow a crash during the recovery from a
failure during the recovery from a crash. One repeated offer brings a finished
job back, before or after the journal has forgotten it, with the same or a
changed payload. The proofs below show that the safety results do not depend on
these numbers.

In `LogSpool` a second job is what makes foreign files; two pieces are enough for
one to be queued behind another, for a gap and for the terminator to repeat the
last of several; failing requests are not counted, so every pattern of them is
covered. The safety properties were also checked with (jobs, pieces, faults) =
(2, 2, 2), (1, 3, 2) and (3, 1, 2), and are proved for all. `Execution` is finite
as it stands: each command runs at most once, there are two signals and two
deadlines, so TLC's answer is complete. Its proofs say why it holds.

In `ToolchainCache` one agent uses, waits for or inspects what the other builds;
two directories are enough for an abandoned one beside one under construction or
published. Resolves and their failures are not counted. The inductive invariant
was also checked with two prunes, and the safety properties are proved for all.

In `AgentSession` two faults are what a late message needs: one request given up and
one more failure, an ended session or a repeated hand-out, while it is on its way.
Registrations are counted by nothing else, since each new one needs an ended session
or a failed request. One job and one forwarded request suffice, because each kind of
status, claim and completion then exists once and can still arrive out of order; a
sign of life beside the poll loop's own "busy" gives two that may be late. The cfg
has two deregistration attempts, the code three: the first, and the last. The safety
properties are proved for all of these numbers.

In `Handover` three versions of an object have two blocks, one, and three with a limit of
two: a part can end early or begin elsewhere, a replacement can be shorter or
longer, and the limit can be met and passed; two download attempts, where the code has three, allow a break at every place
and a replacement behind it, and `Transfer_proofs` covers every number. Two agents
are the one that planned and another on a platform of its own; that an apply comes to
the agent that planned, with its journal emptied meanwhile, is included. Only the plan's tool
may have to be downloaded (`Fetching`): an apply would only repeat it. The archives of
`MCArchives` are all pairs of ten entries that can be in each other's way or in that
of the run's own files. Of the two configurations one has what an ordinary one has, the
other files in the places where the plan leaves its own.

Fairness. `JobLifecycle!FairSpec` asks for weak fairness of `Progress`, the steps the process
takes by itself. The poll loop is one task which the runtime keeps scheduling and
which never waits without a timer or a request that times out; a stopped process
is started again (`deploy/`: a Kubernetes deployment, systemd's
`Restart=on-failure`, and after a stop by signal whoever sent the signal);
`Runner::run` ends, which the code ensures by its deadline as long as the command
leaves no process behind that keeps its output open (`run_streamed` waits for the
readers without a limit); and requests succeed once the `MaxFaults` failures are
used up. No fairness is asked of failures, of the control plane's offers or of
time.

`LogSpool!FairSpec` asks for weak fairness of the uploader's task and for strong
fairness of `Flush(TRUE)` and `Close`: tokio's `select!` polls its branches in
random order, so neither a message nor the end of the channel is passed over
for ever in favour of the ticks. `UploaderStops` needs no successful request;
`ChunkGetsThrough` has as its premise that requests which are tried again and
again get through.

`Execution!FairSpec` asks for weak fairness of the runner's task and of the passing
of both deadlines. No process is assumed to end by itself. `RunEnds` has as its
premise that from some time on no process outlives its command; what happens
without it is described under the disagreements.

`ToolchainCache!FairSpec` asks for weak fairness of the steps of a resolve, whose
downloads and commands have time limits of their own (`client.rs`, the fifteen
seconds of `binary_version`), and for strong fairness of `Lock`: the kernel queues
the waiters of `flock`. Nothing is asked of prune.

`AgentSession!FairSpec` asks for weak fairness of `Main` as a whole: some task of the
runtime runs the poll loop, each of its requests has a time limit
(`client.rs`), and `Runner::run` ends. Nothing is asked of the heartbeat, of the
forwarding loop, whose target may never answer, or of the control plane, and
`SignalStops` holds all the same, because `main` waits five seconds for the
forwarding loop and no longer.

### Disagreements found

* *One large record stops the agent* (`lifecycle_wedge`). `Journal::write` writes
  records that `Journal::read` refuses, and one refused record fails
  `Journal::unfinished`, hence every later poll.
* *A plan's log ends up in the apply's* (`spool_foreign`). The spool is named by the
  run, so what a plan could not deliver is sent by its apply, to the apply's log.
* *A local state is truncated before it is pulled* (`execution_localstate`). The
  output file of `state pull` is the file in which a local backend keeps the state.
* *No plan can finish* (`execution_snapshot`). The archive of the run directory is
  to be written to `tmp/plan-snapshot.tar.gz` below that directory, and
  `pack_tar_gz_file` refuses an archive inside its source. Packing and the stages
  are tested apart; no test runs a plan to its end.
* *A checkout is not flattened* (`handover_flatten`). `flatten_single_directory` looks
  for a directory that is alone, in a run directory that always holds `tmp` as well.

The models show more, without a run of its own:

* *A run directory outlives its job* (`orphans` in `JobLifecycle`, main.rs:441). The
  journal learns the directory's name only with the completion, so a process that
  dies during a run leaves a directory, credentials included, that nothing removes;
  the repository's README says they are "removed when a job finishes".
  `DirectoriesAccounted` says that this is the only leak.
* *Single-job mode can execute a second job* (main.rs:344). An error after the run is
  returned before `config.single` is looked at.
* *A deadline or cancellation can pass unheeded* (`held` in `Execution`,
  runner.rs:1349). After a command has exited its output is read to the end without a
  limit; a process that inherited the output holds the run, past deadline,
  cancellation and both signals.
* *A command can start after a cancellation* (`Clear` and `Spawn` in `Execution`,
  runner.rs:1301). The tokens are asked before the command is built, and may be set
  before it is spawned. `CancelLetsOneStart` says that it is one command only, killed
  as soon as it is waited for, and that an apply started so asks for recovery.
* *An apply can be skipped and reported as finished* (`Marked`, runner.rs:887). A
  configuration that brings `.terrence-apply-execution-finished` makes the agent take
  the apply as done and report the state that was there before.
* *A download can be returned short or foreign* (`faulty` in `Transfer`, client.rs:577).
  A 206 that ends early, an answer without a length that is closed early, or a
  success with another status that carries on what was collected. Checksums catch it
  for tools; an archive must fail to unpack, and a file that ends behind its last
  entry does not.
* *The first entry of a product can vanish* (`Vanishes` in `ToolchainCache`,
  toolchain.rs:321). A power loss may take the product's directory with an entry that
  `resolve` has returned; it is downloaded again.
* *An interrupted apply does not ask for recovery* (`Restarted`, main.rs:429).
* *The agent that planned declines the apply* (`Conflict` in `Handover`). The manifest
  wants the plan's job id, the journal refuses a known id with another payload.
  Another agent, or the same one thirty days later, may apply.
* *A session may be left behind* (`RegisterAbandoned`). A signal during the first
  registration ends the process without a deregistration, though the request may
  have arrived.
* *Files the plan used are not in its snapshot*. Whatever a configuration brings in
  a root directory `tmp` or `secrets` is used by the plan, and neither packed nor
  digested; a workspace whose working directory lies there can be planned and
  never applied (`RefusedForCause` names it).

## 5. What is proved

`JobLifecycle_proofs` proves, for any sets of jobs, directories and fingerprints
and any numbers of faults and offers, under `ConstantsAssumption` (the sets of
values are disjoint from the "none" values; job ids are numbers):

| Theorem | States |
|---|---|
| `TypeCorrect` | `Spec => []TypeOK` |
| `NeverRunTwice` | `Spec => []AtMostOneRun` |
| `ToldOneOutcome` | `Spec => []OneOutcomeTold` |
| `ToldBeforeAcked` | `Spec => []AckedWasTold`: a job is acknowledged only after the control plane accepted its outcome (proved only) |
| `DirectoryStays` | `Spec => []DirectoryKept` |
| `NoOtherLeak` | `Spec => []DirectoriesAccounted` |
| `KeepsContract` | `Spec => ImplementsContract` |

The argument. None of the properties is inductive. `IInv` adds to them

* `RecordInv`: what a record's state says of the past, for example that a job
  whose record is at most `executing` was told nothing and names no directory,
  and that one below `executing` never ran;
* `HandInv`: what the place in `poll_once` says of the record in hand, for
  example that before a run the record says `executing`, the job has not run, and
  no other record is unfinished (the reason why a new run directory cannot be one
  that an acknowledged record is about to remove);
* `DirInv`: the directory in hand and those of the live records are all
  different, and a record about to be marked done names no directory on disk
  unless it is retained.

`NextType`, `NextRecord`, `NextHand` and `NextDirs` show that each step preserves
its part, one case per action. `ContractNext` maps each action to a step of
`JobContract` or a stutter, `IInv` supplying that the outcomes told are exactly
the one recorded. TLC checked `IInv` on the instance of `lifecycle_safety` before
it was proved.

`LogSpool_proofs` proves, for any numbers of jobs, pieces and faults (no
assumption on the constants is needed):

| Theorem | States |
|---|---|
| `SpoolInvariant` | `Spec => []IInv` |
| `SpoolTypeCorrect` | `Spec => []TypeOK` |
| `OneContentPerNumber` | `Spec => []SeqNamesOneContent` |
| `DeliveredInOrder` | `Spec => []OrderedWhileComplete` |
| `CompleteOrReported` | `Spec => []CompleteUnlessReported` |
| `LeavesOnlyDelivered` | `Spec => FilesLeaveDelivered` |

The argument. `IInv` conjoins `TypeOK` and

* `ModeInv`: what the place in `upload_logs` says of the file in hand;
* `NumberInv`: numbers in the spool are distinct and below the next one, and stand
  for the same content in the spool and in the log. This is why a lost answer, a
  repeated chunk or the terminator that repeats the last chunk's number never give
  a number a second content;
* `StoreInv`: a file that is being stored is new to the spool and to the log, and
  the terminator comes only to an empty spool;
* `QueueInv`: own chunks lie in the order of their pieces, behind what earlier
  jobs left;
* `DeliveryInv`: while nothing is known to be missing, the spool holds exactly the
  suffix of the output that is not yet delivered, so that the first file of the
  spool (`FirstOut`) is always the next piece of the log;
* `OrderInv` and the two properties about what was received.

One lemma per action (`FlushKeeps`, `SendKeeps`, ...) shows that each part is
preserved; `UploaderKeeps` puts them together.

`ToolchainCache_proofs` proves, for any numbers of agents, prunes, directories and
faults, under `CacheAssumption` (`None` is neither an agent nor a directory):

| Theorem | States |
|---|---|
| `CacheInvariant` | `Spec => []IInv` |
| `CacheTypeCorrect` | `Spec => []TypeOK` |
| `NeverReplaced` | `Spec => []NothingToReplace` |
| `OnlyPruneHurts` | `Spec => []PartialOnlyByPrune` |
| `CleansUp` | `Spec => []LeftoversOnlyByFaults` |
| `EntryLasts` | `Spec => PublishedLasts` |

The argument. The lock has one holder (`LockInv`), so at most one resolve is past
its second look at the entry, and only that one publishes; no two resolves share a
directory (`DirInv`). What is about to be renamed is whole, and durable, unless
prune took a file of it (`FillInv`), which the rename turns into the same fact
about the entry (`EntryInv`). Prune records what it touches, so its steps preserve
both. `SettledInv` says that the entry's name is durable in the product's directory
before `resolve` returns; what `EntryLasts` cannot exclude, and names, is the loss of that
directory while its own name is not (`product = "fresh"`).

`AgentSession_proofs` proves, for any numbers of jobs, forwarded requests, signs of
life, faults and deregistration attempts, under `SessionConstants` (`NoForwarded` is no
request; the bounds are numbers, the attempts at least one):

| Theorem | States |
|---|---|
| `SessionInvariant` | `Spec => []IInv` |
| `SessionTypeCorrect` | `Spec => []TypeOK` |
| `SessionsAreNotMixed` | `Spec => []OnlyForwardingMixes` |
| `BelievedIdle` | `Spec => []IdleIsBelieved` |
| `OncePerHandout` | `Spec => []ExecutedOncePerHandout` |

The argument. `IInv` conjoins the type and the properties with

* `AttemptInv`: a deregistration attempt is left until the last one is on its way;
* `IdentityInv`: while the poll loop works, id and token are of one registration. No
  heartbeat exists at any other time (`LoopType`), hence `OnlyForwardingMixes`;
* `IndexInv`: every index around, at the control plane, on the wire or late, was drawn
  from the counter, which no registration resets;
* `ReportInv`: the completion on its way has an index above all others. The run's end
  aborts the heartbeat before the completion draws its index, so nothing can draw
  one behind it;
* `QuietInv`: with nothing to report, the control plane takes the agent for idle,
  and no busy status that is still to arrive has an index above the one it knows.
  `ReportInv` is what makes this true when the completion is accepted, and it
  implies `IdleIsBelieved`;
* `ForwardInv`: a request in the loop's hand was handed out once more often than
  executed, and an answer is only sent, or on its way, for one that was executed.

Each part has a lemma of its own (`IdentityKept`, `IndexKept`, `ReportKept`,
`QuietKept`, `ForwardKept`), over lemmas that say once what sending, receiving and
giving up a request does (`Sent`, `Freed`, `GivenUp`).

`Transfer_proofs` proves, for any versions, sizes, limit and number of attempts, under
`TransferConstants`:

| Theorem | States |
|---|---|
| `TransferInvariant` | `TransferSpec => []TInv` |
| `TransferTypeCorrect` | `TransferSpec => []TransferType` |
| `ReturnsWhole` | `TransferSpec => []DownloadIsWhole` |

`TransferSpec` is a download by itself, with anything before and after it. `TInv` adds
`Coherent` to the type: while the server did nothing worse than end a body early, the
output is the beginning of the version being read and the next block is the one behind
it; if it did nothing at all, what is still to come is all the rest; and memory never
goes on with another part than the one it asked for, once it has asked for one. `Handover` uses `Transfer` this way
(`DownloadsAreTransfers` below), and its runs check the same property there.

`Execution_proofs` proves, with no assumption, since the model has no constants:

| Theorem | States |
|---|---|
| `ExecutionInvariant` | `Spec => []IInv` |
| `ExecutionTypeCorrect` | `Spec => []TypeOK` |
| `Supervised` | `Spec => []SupervisedUnlessLate` |
| `FinishedWhole` | `Spec => []FinishedIsWhole` |
| `OneStartAfterCancel` | `Spec => []CancelLetsOneStart` |
| `ImplementsContract` | `Spec => ImplementsRunContract` |

The argument. While no deadline has passed nothing runs that the runner does not wait
for, so a state that was pulled in time after the apply command is the one it left; a
state pulled too late counts as trouble, and trouble makes the answer ask for recovery.
`IInv` adds to the type and to `SupervisedUnlessLate`

* `PassedInv`: what has succeeded by the time a stage is reached, unless an error was
  noted (`failed`, `trouble`) or the marker stands for the apply; `Whole` follows at the
  places that answer "finished";
* `ApplyOnce`: the apply command is started by an apply, never past a marker, and no
  stage comes back to it;
* `LateInv`: a command that starts late passed the tokens before any was set, so none
  has started late before it; and from a late apply every way leads to "canceled".
* `StateInv`: a state that counts as final was read with the apply command at its end;
* `AnswerInv`: the answer is truthful before it is given (`close`), and no command that
  could make it a lie is left when it is given (`done`).

One lemma per part shows that it is preserved (`NextSupervised` to `NextLate`), and
`ContractNext` maps the start, the end and the answer to the contract's three actions,
and everything else to a stutter.

`Workspace_proofs` proves facts about operators, for every archive (a sequence of
entries, in which a directory has no content) and every tree:

| Theorem | States |
|---|---|
| `ExtractIsExact` | `Extract` succeeds exactly if the archive is `Extractable`, and then makes `Extracted` |
| `PackComesBack` | a packed tree can be extracted into a directory of temporary files, and what comes back is what is not excluded, each path with its content |

The argument. The recursions are recursive functions over an interval, and what they
compute is an induction over its numbers. The library's induction theorems take an
operator as a parameter, which the provers cannot instantiate; `NatSetInduction` and
`UpToInduction` say the same about a set, and are derived from the well-foundedness of
the natural numbers. `Reached` is the invariant of the loop of
`extract_tar_gz_file`: after n entries, either they were extractable and the tree is the
old one with what they name, or the loop has failed (`Turn`, over `DirectoryTurn`,
`FileTurn`, `SkippedTurn` and `RefusedTurn`). `WalkIs` does the same for packing.
Around them stand the lemmas that every operator keeps a tree a tree
(`MakeDirsTree`, `WriteFilesTree`, `ExtractTree`, `FlattenTree`) and what it does to its
files, and that trees which differ only in what is not packed have the same digests
(`AlikeDigests`).

`Handover_proofs` proves, for any agents, hosts, tools, configurations, archives, working
directories, environments and downloads:

| Theorem | States |
|---|---|
| `HandoverInvariant` | `Spec => []HInv` |
| `HandoverTypeCorrect` | `Spec => []TypeOK` |
| `HandoverDownloads` | `Spec => []DownloadIsWhole` |
| `ExtractionExact` | `Spec => []ExtractionIsExact` |
| `OnlyWhatWasPlanned` | `Spec => []AppliedIsPlanned` |
| `OnlyForCause` | `Spec => []RefusedForCause` |
| `DownloadsAreTransfers` | `Spec => TransferSpec` |

The assumptions: `HandoverConstants` (types; the executables do not include the "none"
value), `ArchivesAreRead` (archives are sequences of entries, and no configuration
brings the content that stands for this run's plan), `DirectoriesAreSafe` (working
directories do not lead out of the run directory: `run_inner` refuses those that do), and
`NothingIsForged` (the value "other", which a changed field of a manifest gets, is no
id, tool, environment or host: a manifest that was rewritten to agree with another claim
is out of scope, see above). `NamesAreStrings` and `LiteralsAreStrings` say that literals are strings,
which the prover does not know by itself. TLC evaluates all of them.

The argument. `HInv` is `TInv` with

* `Phases`: where the plan is at work and where the apply, and that a command has a tool;
* `Planning`: a tree has no plan until the commands leave one, and then one, where the
  job's working directory is. That is what keeps an apply with an emptied `dir` in its
  manifest from taking another file for the plan;
* `HandedOver`: what is stored is the packed tree of the plan with its manifest;
* `Applying`: the apply works in what extraction makes of something it read, which is
  what was stored or a change of it, and goes on only if `Verified`;
* `Remembered`: until the apply is accepted, a journal holds nothing but the plan;
* `RefusedForCause`.

`OnlyWhatWasPlanned` splits on what was read. If the entries were changed, the manifest
was not, so the digests of the tree are those of the planned tree, and the files the
commands read have them (`DigestsTell`). If they were not, the tree is the planned one but
for what is not packed (`PackComesBack`, `BackIsAlike`), and a field of the manifest that
was changed either names nothing that exists or has no part in the conclusion.
`OnlyForCause` goes the other way: what comes back unchanged to a place like the one it was
planned at can be prepared (`BackIsFurnishable`) and has the digests that are compared
(`AlikeDigests`). TLC checked `HInv` as an invariant before it was proved, on a smaller
instance to the end and on that of `handover_all` in part.

Only model-checked: the liveness properties, since TLAPS does not reason about fairness
and `ENABLED`, and the violations. Every other property of every passing run is proved.

### Not modelled

* *Configuration* is read and checked once at start, by sequential code without state.
* *Sandbox*: the Landlock rules are kernel policy; `terminate_child` is one step of
  `Execution`.
* *Provider cache*: a directory that is verified at start and then only read.
* *Metrics* other than the registered flag take part in no decision of the agent.
  The current-job gauge is cleared only on the path without an earlier return
  (main.rs:343), which only a dashboard would notice.
* *Parsing and validation* in `protocol.rs` and of URLs, hosts and addresses in
  `client.rs`: pure functions of one input, which their tests cover.
* *Diagnostics* print and keep nothing, except `prune_cache` (`ToolchainCache`).
* *Deployment*: service and build files.
* *Delays*: `idle_backoff`, `parse_retry_after` and the jitter decide when, not what.

## 6. Files

| File | Content |
|---|---|
| `JobContract.tla` | abstract specification of a job's life |
| `JobLifecycle.tla` | poll loop, journal, run directories; mutants used to test the properties precede the definition they alter |
| `MCJobLifecycle.tla`, `JobLifecycle_*.cfg` | instances for TLC |
| `JobLifecycle_proofs.tla` | theorems of section 5 |
| `LogSpool.tla`, `LogSpool_*.cfg` | uploader and spool, with its bounds as constants, and its instances |
| `LogSpool_proofs.tla` | theorems about it |
| `ToolchainCache.tla`, `ToolchainCache_*.cfg` | the cache of binaries and its instances |
| `ToolchainCache_proofs.tla` | theorems about it |
| `RunContract.tla` | abstract specification of one run |
| `Execution.tla`, `Execution_*.cfg` | the stages and processes of a run |
| `Execution_proofs.tla` | theorems about it |
| `AgentSession.tla`, `AgentSession_all.cfg` | the session with the control plane and its instance |
| `AgentSession_proofs.tla` | theorems about it |
| `Transfer.tla`, `Transfer_proofs.tla` | a download, and theorems about it |
| `Workspace.tla`, `Workspace_proofs.tla` | the run directory as data: operators only, and what they compute |
| `Handover.tla`, `MCHandover.tla`, `Handover_*.cfg` | plan and apply of one run, and its instances |
| `Handover_proofs.tla` | theorems about it |
| `PROJECT.json` | components, runs, mutants, source map, findings, hazards, theorems |
