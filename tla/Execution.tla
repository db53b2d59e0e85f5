------------------------------ MODULE Execution ------------------------------
(***************************************************************************)
(* One run of a job (runner.rs, Runner::run): the stages of a plan or an     *)
(* apply, the IaC process that a stage starts, and what may happen to it     *)
(* meanwhile: a cancellation by the control plane, a first and a second      *)
(* termination signal, the execution deadline, and processes that outlive    *)
(* the command which started them.                                           *)
(*                                                                           *)
(* The runner is one task; its steps interleave with processes, signals and  *)
(* the clock.  The model is finite as it stands and has no parameters.       *)
(***************************************************************************)
EXTENDS SequencesExt

\* The IaC commands, by the function that runs them.
Streamed == {"init", "plan", "apply"}            \* run_streamed
Captured == {"show", "schema", "repull"}         \* capture_json
Commands == Streamed \union Captured \union {"pull"}   \* capture_state_file
\* "repull" is the state pull of a canceled apply.
\* What is handed over, and "manifest", the plan's provenance, which is written
\* into the run directory before that is packed as the snapshot.
Uploads == {"json", "schemas", "manifest", "snapshot", "artifact"}
Tokens == {"remote", "shutdown", "force"}

VARIABLES
  phase,     \* "plan" or "apply"
  local,     \* whether the configuration keeps its state in exec_dir (local backend)
  marker,    \* APPLY_EXECUTION_MARKER in the run directory: "none", "clean", "failed"
  pc,        \* "start", "prepare", "enter", "spawn", "wait", "join", "upload", "close",
             \* "done"
  stage,     \* the command or upload that the runner is at
  failed,    \* apply_error.is_some()
  trouble,   \* state_recovery_error.is_some()
  got,       \* the state a state pull has read: "none", "early" or "final"
  answer,    \* the outcome of the run
  canceled,  \* the cancellation tokens that are set
  expired,   \* the deadlines that have passed: of the job, of the recovery
  alive,     \* the commands whose process group runs
  held,      \* the commands whose output another process keeps open for a reader
  lost,      \* the local backend's state file was truncated
  started,   \* history: the commands started
  passed,    \* history: the stages that succeeded
  late       \* history: the commands started after a cancellation

progress == <<pc, stage, failed, trouble, got, answer>>
world == <<canceled, expired, alive, held>>
history == <<lost, started, passed, late>>
vars == <<phase, local, marker, progress, world, history>>

Answers == [status : {"finished", "errored", "canceled"}, recovery : BOOLEAN,
            state : {"none", "early", "final"}]
NoAnswer == [status |-> "none", recovery |-> FALSE, state |-> "none"]

\* completion_from_result, and the outcomes that Runner::run builds from errors.
Outcome(s, r, st) == [status |-> s, recovery |-> r, state |-> st]
Errored == Outcome("errored", phase = "apply", "none")
CanceledWith(st) == Outcome("canceled", phase = "apply", st)
-----------------------------------------------------------------------------
(* Control                                                                   *)

\* The recovery pull has tokens and a deadline of its own.
Heeded(c) == IF c = "repull" THEN {} ELSE canceled
Deadline(c) == IF c = "repull" THEN "recovery" ELSE "job"

\* ExecutionControl::reason: the tokens are asked in a fixed order.
Reason ==
  IF "force" \in canceled THEN "force"
  ELSE IF "remote" \in canceled THEN "remote" ELSE "shutdown"

\* The state that a pull started now would find.
Fresh == IF "apply" \in started \ alive THEN "final" ELSE "early"

Go(s) ==
  /\ stage' = s
  /\ pc' = IF s \in Commands THEN "enter" ELSE "upload"
  /\ UNCHANGED answer

\* The run has its result; Runner::run_inner still finishes the log.
Finish(a) ==
  /\ answer' = a /\ pc' = "close"
  /\ UNCHANGED stage

Failure(r) == IF r \in Tokens THEN CanceledWith("none") ELSE Errored

\* What execute_phase does with the result of a command: "ok", "error" or the
\* token that canceled it.
PlanGoesOn(r) ==
  /\ \/ stage \in {"init", "plan", "show"} /\ r # "ok" /\ Finish(Failure(r))
     \/ stage = "init" /\ r = "ok" /\ Go("plan")
     \/ stage = "plan" /\ r = "ok" /\ Go("show")
     \/ stage = "show" /\ r = "ok" /\ Go("json")
     \/ stage = "schema" /\ Go(IF r = "ok" THEN "schemas" ELSE "manifest")
  /\ UNCHANGED <<failed, trouble>>

ApplyGoesOn(r) ==
  \/ /\ stage = "apply" /\ r \notin Tokens
     /\ failed' = (r = "error") /\ Go("pull")
     /\ UNCHANGED trouble
  \/ /\ stage = "pull" /\ r \notin Tokens
     /\ trouble' = (trouble \/ r = "error") /\ Go("artifact")
     /\ UNCHANGED failed
  \/ /\ stage \in {"apply", "pull"} /\ r = "force"
     /\ Finish(CanceledWith("none"))
     /\ UNCHANGED <<failed, trouble>>
  \/ /\ stage \in {"apply", "pull"} /\ r \in {"remote", "shutdown"}
     /\ Go("repull")
     /\ UNCHANGED <<failed, trouble>>
  \/ /\ stage = "repull"
     /\ Finish(CanceledWith(IF r = "ok" THEN got ELSE "none"))
     /\ UNCHANGED <<failed, trouble>>

GoesOn(r) ==
  /\ PlanGoesOn(r) \/ ApplyGoesOn(r)
  /\ passed' = IF r = "ok" THEN passed \union {stage} ELSE passed
-----------------------------------------------------------------------------
(* The runner: before the commands                                           *)

\* The payload is refused or the run directory cannot be created.
RunRefused ==
  /\ pc = "start"
  /\ Finish(Errored)
  /\ UNCHANGED <<phase, local, marker, failed, trouble, got, world, history>>

\* run_inner: a run that starts during a shutdown is canceled at once.
RunBegins ==
  /\ pc = "start"
  /\ IF canceled # {} THEN Finish(CanceledWith("none"))
                      ELSE pc' = "prepare" /\ UNCHANGED <<stage, answer>>
  /\ UNCHANGED <<phase, local, marker, failed, trouble, got, world, history>>

\* Mutant of Prepare: an apply begins like a plan.
PrepareAlwaysInit ==
  /\ pc = "prepare" /\ "job" \notin expired /\ Go("init")
  /\ UNCHANGED <<phase, local, marker, failed, trouble, got, world, history>>

\* The archive or snapshot is fetched, the tool resolved, the heartbeat started.
\* Only the deadline ends these waits.
Prepare ==
  /\ pc = "prepare" /\ "job" \notin expired
  /\ Go(IF phase = "plan" THEN "init" ELSE "apply")
  /\ UNCHANGED <<phase, local, marker, failed, trouble, got, world, history>>

PrepareFailed ==
  /\ pc = "prepare"
  /\ Finish(Errored)
  /\ UNCHANGED <<phase, local, marker, failed, trouble, got, world, history>>

\* The plan's arguments, or the manifest the apply got from its plan, are refused.
Refused ==
  /\ pc = "enter" /\ stage \in {"plan", "apply"}
  /\ Finish(Errored)
  /\ UNCHANGED <<phase, local, marker, failed, trouble, got, world, history>>
-----------------------------------------------------------------------------
(* The runner: a command                                                     *)

\* An apply whose marker lies in the run directory is taken as executed.
Runs == stage = "apply" => marker = "none"

\* The marker, which a configuration may bring along, decides in the command's place:
\* an empty one says that the apply succeeded, any other is its error.
Marked ==
  /\ pc = "enter" /\ ~Runs
  /\ failed' = (marker = "failed") /\ Go("pull")
  /\ UNCHANGED <<phase, local, marker, trouble, got, world, history>>

\* Before a command starts the tokens are asked.
CanceledBefore ==
  /\ pc = "enter" /\ Runs /\ Heeded(stage) # {}
  /\ GoesOn(Reason)
  /\ UNCHANGED <<phase, local, marker, got, world, lost, started, late>>

\* Mutant of Clear: the tokens are not asked.
ClearUnasked ==
  /\ pc = "enter" /\ Runs
  /\ pc' = "spawn"
  /\ UNCHANGED <<phase, local, marker, stage, failed, trouble, got, answer, world, history>>

\* No token is set.  A token that another task sets from now on is seen only when
\* the command runs.
Clear ==
  /\ pc = "enter" /\ Runs /\ Heeded(stage) = {}
  /\ pc' = "spawn"
  /\ UNCHANGED <<phase, local, marker, stage, failed, trouble, got, answer, world, history>>

\* The command cannot be built or spawned.  After a state pull the runner looks
\* for a state file all the same: it finds the local backend's, or an old one.
NotStarted ==
  /\ pc = "spawn"
  /\ got' \in IF stage = "pull" THEN {"none", IF local THEN Fresh ELSE "early"} ELSE {got}
  /\ GoesOn("error")
  /\ UNCHANGED <<phase, local, marker, world, lost, started, late>>

\* What a pull started now may deliver.  The reader of "pull" truncates STATE_FILE
\* first, which is the state itself if the backend is local; only a pull that is
\* given up at once may still find it.
Deliverable(over) ==
  {"none"} \union
  (IF lost \/ (local /\ stage = "pull" /\ ~over) THEN {} ELSE {Fresh})

\* The command is spawned with its readers, and only then is the deadline asked:
\* past the deadline the runner goes on and leaves the process running.
Spawn ==
  /\ pc = "spawn"
  /\ alive' = alive \union {stage} /\ started' = started \union {stage}
  /\ lost' = (lost \/ (stage = "pull" /\ local))
  /\ late' = IF canceled = {} THEN late ELSE late \union {stage}
  /\ LET over == Deadline(stage) \in expired IN
       /\ got' \in IF stage \in {"pull", "repull"} THEN Deliverable(over) ELSE {got}
       /\ IF over THEN GoesOn("error")
          ELSE pc' = "wait" /\ UNCHANGED <<stage, failed, trouble, answer, passed>>
  /\ UNCHANGED <<phase, local, marker, canceled, expired, held>>

\* select! picks any of its branches that is ready.
ExitSeen ==
  /\ pc = "wait" /\ stage \notin alive
  /\ pc' = "join"
  /\ UNCHANGED <<phase, local, marker, stage, failed, trouble, got, answer, world, history>>

\* Mutant of CancelSeen: the process is not terminated.
CancelSeenLeavesChild ==
  /\ pc = "wait"
  /\ \E r \in Heeded(stage) : GoesOn(r)
  /\ UNCHANGED <<phase, local, marker, got, world, lost, started, late>>

\* terminate_child kills the process group, drain_task gives the readers up.
CancelSeen ==
  /\ pc = "wait"
  /\ alive' = alive \ {stage} /\ held' = held \ {stage}
  /\ \E r \in Heeded(stage) : GoesOn(r)
  /\ UNCHANGED <<phase, local, marker, got, canceled, expired, lost, started, late>>

\* Mutant of TimeoutSeen: streamed commands are waited for without a deadline.
TimeoutSeenCaptured ==
  /\ pc = "wait" /\ Deadline(stage) \in expired /\ stage \in Captured
  /\ alive' = alive \ {stage} /\ held' = held \ {stage}
  /\ GoesOn("error")
  /\ UNCHANGED <<phase, local, marker, got, canceled, expired, lost, started, late>>

TimeoutSeen ==
  /\ pc = "wait" /\ Deadline(stage) \in expired /\ stage # "pull"
  /\ alive' = alive \ {stage} /\ held' = held \ {stage}
  /\ GoesOn("error")
  /\ UNCHANGED <<phase, local, marker, got, canceled, expired, lost, started, late>>

\* After a state pull the readers are awaited, even when it was terminated; a
\* process that left the group may hold its output open.
PullTimeoutSeen ==
  /\ pc = "wait" /\ Deadline(stage) \in expired /\ stage = "pull"
  /\ alive' = alive \ {stage}
  /\ held' \in {held, held \union {stage}}
  /\ trouble' = TRUE /\ pc' = "join"
  /\ UNCHANGED <<phase, local, marker, stage, failed, got, answer, canceled, expired, history>>

\* The readers have seen the end of the output; only then does the exit status,
\* or what was captured, count.
Joined ==
  /\ pc = "join" /\ stage \notin held
  /\ \E r \in {"ok", "error"} : GoesOn(r)
  /\ UNCHANGED <<phase, local, marker, got, world, lost, started, late>>
\* A reader gives up before the end of the output, for instance because there is
\* too much of it; the other reader goes on by itself.
ReaderFails ==
  /\ pc = "join" /\ stage \in held /\ stage # "pull"
  /\ GoesOn("error")
  /\ UNCHANGED <<phase, local, marker, got, world, lost, started, late>>
-----------------------------------------------------------------------------
(* The runner: uploads and the end                                           *)

\* await_deadline; a small state travels inside the completion instead.
Uploaded ==
  /\ pc = "upload" /\ stage \notin {"artifact", "manifest"} /\ "job" \notin expired
  /\ CASE stage = "json" -> Go("schema")
       [] stage = "schemas" -> Go("manifest")
       [] stage = "snapshot" -> Finish(Outcome("finished", FALSE, "none"))
  /\ passed' = passed \union {stage}
  /\ UNCHANGED <<phase, local, marker, failed, trouble, got, world, lost, started, late>>

\* Schemas may stay away; the local steps of the manifest and the packing fail too.
UploadFailed ==
  /\ pc = "upload" /\ stage # "artifact"
  /\ IF stage = "schemas" THEN Go("manifest") ELSE Finish(Errored)
  /\ UNCHANGED <<phase, local, marker, failed, trouble, got, world, history>>

\* The directory of the run, and where the plan puts the archive of it.
WorkDir == <<"run">>
SnapshotPath == WorkDir \o <<"tmp", "plan-snapshot.tar.gz">>

\* pack_tar_gz_file refuses to write an archive inside its source.
Packs(source, archive) == ~IsPrefix(source, archive)

\* The manifest is written, and the run directory packed.
Pack ==
  /\ pc = "upload" /\ stage = "manifest"
  /\ IF Packs(WorkDir, SnapshotPath) THEN Go("snapshot") ELSE Finish(Errored)
  /\ passed' = passed \union {stage}
  /\ UNCHANGED <<phase, local, marker, failed, trouble, got, world, lost, started, late>>

\* Mutant of Conclude: the apply command's own failure is forgotten.
ConcludeWithoutError(committed) ==
  /\ pc = "upload" /\ stage = "artifact"
  /\ committed => got # "none"
  /\ LET recovery == ~committed \/ trouble
     IN Finish(Outcome(IF recovery THEN "errored" ELSE "finished", recovery,
                       IF committed THEN got ELSE "none"))
  /\ passed' = IF committed THEN passed \union {stage} ELSE passed
  /\ UNCHANGED <<phase, local, marker, failed, trouble, got, world, lost, started, late>>

\* The end of an apply: the state, if there is one, is handed over as an artifact
\* or inline, and the manifest written.
Conclude(committed) ==
  /\ pc = "upload" /\ stage = "artifact"
  /\ committed => got # "none"
  /\ LET recovery == ~committed \/ trouble
         status == IF failed \/ recovery THEN "errored" ELSE "finished"
     IN Finish(Outcome(status, recovery, IF committed THEN got ELSE "none"))
  /\ passed' = IF committed THEN passed \union {stage} ELSE passed
  /\ UNCHANGED <<phase, local, marker, failed, trouble, got, world, lost, started, late>>

ConcludeFailed ==
  /\ pc = "upload" /\ stage = "artifact"
  /\ Finish(Errored)
  /\ UNCHANGED <<phase, local, marker, failed, trouble, got, world, history>>

\* Mutant of Close: the readers are not waited for.
CloseAtOnce ==
  /\ pc = "close" /\ pc' = "done"
  /\ UNCHANGED <<phase, local, marker, stage, failed, trouble, got, answer, world, history>>

\* LogStream::finish ends when no reader holds a LogWriter any more, and a reader
\* that was not given up holds one as long as anybody may write.
Close ==
  /\ pc = "close" /\ Streamed \intersect (alive \union held) = {}
  /\ pc' = "done"
  /\ UNCHANGED <<phase, local, marker, stage, failed, trouble, got, answer, world, history>>
-----------------------------------------------------------------------------
(* The world around it                                                       *)

\* A command ends; a process it has started may keep its output open.
Exits(c) ==
  /\ c \in alive
  /\ alive' = alive \ {c}
  /\ held' \in {held, held \union {c}}
  /\ UNCHANGED <<phase, local, marker, progress, canceled, expired, history>>

HolderExits(c) ==
  /\ c \in held
  /\ held' = held \ {c}
  /\ UNCHANGED <<phase, local, marker, progress, canceled, expired, alive, history>>

\* The first termination signal and the second.
Signal ==
  /\ "force" \notin canceled
  /\ canceled' = canceled \union (IF "shutdown" \in canceled THEN {"force"} ELSE {"shutdown"})
  /\ UNCHANGED <<phase, local, marker, progress, expired, alive, held, history>>

\* The heartbeat learns of a cancellation, from the first command to the result.
RemoteCancel ==
  /\ pc \in {"enter", "spawn", "wait", "join", "upload"} /\ "remote" \notin canceled
  /\ canceled' = canceled \union {"remote"}
  /\ UNCHANGED <<phase, local, marker, progress, expired, alive, held, history>>

Expire(d) ==
  /\ d \notin expired
  /\ d = "job" => pc # "start"
  /\ d = "recovery" => stage = "repull"
  /\ expired' = expired \union {d}
  /\ UNCHANGED <<phase, local, marker, progress, canceled, alive, held, history>>
-----------------------------------------------------------------------------
Init ==
  /\ phase \in {"plan", "apply"} /\ local \in BOOLEAN
  /\ marker \in IF phase = "apply" THEN {"none", "clean", "failed"} ELSE {"none"}
  /\ pc = "start" /\ stage = "none"
  /\ failed = FALSE /\ trouble = FALSE /\ got = "none" /\ answer = NoAnswer
  /\ canceled = {} /\ expired = {} /\ alive = {} /\ held = {}
  /\ lost = FALSE /\ started = {} /\ passed = {} /\ late = {}

Runner ==
  \/ RunRefused \/ RunBegins \/ Prepare \/ PrepareFailed \/ Refused
  \/ Marked \/ CanceledBefore \/ Clear \/ NotStarted \/ Spawn
  \/ ExitSeen \/ CancelSeen \/ TimeoutSeen \/ PullTimeoutSeen \/ Joined
  \/ Uploaded \/ UploadFailed \/ Pack \/ ConcludeFailed \/ Close
  \/ \E committed \in BOOLEAN : Conclude(committed)

Next ==
  \/ Runner
  \/ \E c \in Commands : Exits(c) \/ HolderExits(c)
  \/ ReaderFails \/ Signal \/ RemoteCancel
  \/ \E d \in {"job", "recovery"} : Expire(d)

Spec == Init /\ [][Next]_vars

\* The runner is scheduled and time passes.  Nothing makes a process end, or its
\* output exceed a limit.
FairSpec ==
  /\ Spec /\ WF_vars(Runner)
  /\ \A d \in {"job", "recovery"} : WF_vars(Expire(d))
-----------------------------------------------------------------------------
(* Properties                                                                *)

PlanStages == {"init", "plan", "show", "json", "schema", "schemas", "manifest", "snapshot"}
ApplyStages == {"apply", "pull", "repull", "artifact"}

\* Type correctness: a run keeps to the stages of its phase, and waits only for a
\* command it has started (execute_phase).
TypeOK ==
  /\ phase \in {"plan", "apply"} /\ local \in BOOLEAN
  /\ marker \in {"none", "clean", "failed"} /\ (marker # "none" => phase = "apply")
  /\ pc \in {"start", "prepare", "enter", "spawn", "wait", "join", "upload", "close", "done"}
  /\ stage \in {"none"} \union (IF phase = "plan" THEN PlanStages ELSE ApplyStages)
  /\ pc \in {"enter", "spawn", "wait", "join"} => stage \in Commands
  /\ pc \in {"wait", "join"} => stage \in started
  /\ pc = "upload" => stage \in Uploads
  /\ failed \in BOOLEAN /\ trouble \in BOOLEAN /\ got \in {"none", "early", "final"}
  /\ answer \in Answers \union {NoAnswer}
  /\ canceled \subseteq Tokens /\ expired \subseteq {"job", "recovery"}
  /\ started \subseteq Commands /\ alive \subseteq started /\ held \subseteq started
  /\ lost \in BOOLEAN /\ passed \subseteq PlanStages \union ApplyStages
  /\ late \subseteq started

\* The processes that the runner does not wait for.
Orphans == alive \ (IF pc = "wait" THEN {stage} ELSE {})

\* At most one IaC process of a run works in its directory, and none without the
\* runner, unless a deadline has passed: a command spawned too late is left
\* running (runner.rs: run_streamed, capture_json, capture_state_file).
SupervisedUnlessLate == expired = {} => Orphans = {}

\* A cancellation can come between the question for it and the spawn, so that one
\* command still starts, but no second one except the state pull that recovers what
\* an apply has done; and an apply that starts so is answered as canceled, which
\* asks for recovery (runner.rs: ExecutionControl::reason, execute_phase).
CancelLetsOneStart ==
  /\ \A c, d \in late \ {"repull"} : c = d
  /\ pc = "done" /\ "apply" \in late => answer.status = "canceled"

\* A run reported as finished is whole, through every way in which errors are
\* swallowed on the way: an apply has pulled its state and handed it over, and it
\* has applied, or left that to the run whose marker it found; a plan would have
\* delivered its JSON and its snapshot (execute_phase).
FinishedIsWhole ==
  pc = "done" /\ answer.status = "finished" =>
    IF phase = "plan" THEN {"init", "plan", "show", "json", "snapshot"} \subseteq passed
    ELSE /\ {"pull", "artifact"} \subseteq passed
         /\ "apply" \in passed \/ (marker = "clean" /\ "apply" \notin started)

\* The run as RunContract sees it: the answer counts once Runner::run returns.
Contract == INSTANCE RunContract WITH
  marked <- marker # "none",
  change <- CASE "apply" \notin started -> "none"
              [] "apply" \in alive -> "running"
              [] OTHER -> "ended",
  answer <- IF pc = "done" THEN answer ELSE NoAnswer

\* Runner::run implements RunContract: it answers after the end of the apply
\* command, and where resources may have changed the answer carries the final
\* state or asks for its recovery; a marked run directory changes nothing more.
ImplementsRunContract == Contract!Spec

\* Whatever a command does, the run ends, provided that no process outlives the
\* command it belongs to: deadlines and cancellation reach every wait.
RunEnds == <>[](Orphans = {} /\ held = {}) => <>(pc = "done")

\* README.md:114 says that the final state is pulled after an apply and reported:
\* it is in the answer, or still where Terraform has put it.
AppliedStateSurvives ==
  pc = "done" /\ "apply" \in passed => answer.state = "final" \/ ~lost

\* README.md:112 says that a run uploads the plan filesystem snapshot: a plan that
\* came as far as its manifest ends with that upload, done or failed.
SnapshotIsUploaded ==
  pc = "done" /\ "manifest" \in passed => stage = "snapshot"
=============================================================================
