----------------------------- MODULE JobLifecycle -----------------------------
(***************************************************************************)
(* The life of a job in one agent process and its durable journal:          *)
(* main.rs (poll loop, poll_once, finish_journal_entry), journal.rs (the    *)
(* on-disk records) and the run directories of runner.rs, composed with     *)
(* the control plane that hands jobs out and is told their outcome.         *)
(*                                                                         *)
(* The process is the program counter pc and what poll_once holds in its    *)
(* local variables; the journal and the run directories survive it.  Every  *)
(* journal write and every request is an action of its own, so a crash, a   *)
(* failing write or a lost answer can fall between any two of them.  The    *)
(* entry in the process's hand always equals the record it last wrote or    *)
(* read (nobody else writes the journal), so only its job id is kept.       *)
(***************************************************************************)
EXTENDS Naturals, FiniteSets

CONSTANTS
  Jobs,           \* job ids, numbers in the order of the ids
  ApplyJobs,      \* the jobs whose phase is apply; the others are plans
  Fingerprints,   \* payload fingerprints
  Dirs,           \* run directory names
  LargeStates,    \* whether an inline state can push a record over 16 MiB
  Single,         \* TERRENCE_AGENT_SINGLE
  MaxFaults,      \* bound: crashes, signals, failed writes and failed requests
  MaxOffers,      \* bound: jobs the control plane hands out again
  NoJob, NoDir, NoFingerprint, NoCompletion

\* A completion as far as it matters here: recovery is its
\* state_recovery_required, large an encoding of more than 16 MiB.
Completions == [status : {"finished", "errored", "canceled", "restarted"},
                recovery : BOOLEAN, large : BOOLEAN]

ASSUME ConstantsAssumption ==
  /\ Jobs \subseteq Nat
  /\ ApplyJobs \subseteq Jobs
  /\ LargeStates \in BOOLEAN
  /\ Single \in BOOLEAN
  /\ MaxFaults \in Nat
  /\ MaxOffers \in Nat
  /\ NoJob \notin Jobs
  /\ NoDir \notin Dirs
  /\ NoFingerprint \notin Fingerprints
  /\ NoCompletion \notin Completions

VARIABLES
  journal,        \* the journal directory: one record per job
  dirs,           \* the run directories on disk
  pc,             \* where the process is
  job,            \* the job in the process's hand
  dir,            \* the run directory of the running job, not yet in a record
  completion,     \* the outcome of runner.run, not yet in a record
  fresh,          \* the hand's job was executed by this call of poll_once
  shutdown,       \* the shutdown token
  pool,           \* control plane: what it would answer a claim with
  told,           \* control plane: outcomes it accepted, by job
  runs,           \* history: executions since the journal last forgot a job
  orphans,        \* history: directories of executions that were cut short
  faults, offers  \* the bounds' counters

disk == <<journal, dirs>>
hand == <<job, dir, completion, fresh>>
process == <<pc, hand, shutdown>>
server == <<pool, told>>
history == <<runs, orphans>>
vars == <<disk, process, server, history, faults, offers>>

-----------------------------------------------------------------------------
(* Data                                                                      *)

\* What finish_journal_entry reports for a job that was executing when its
\* process went away ("agent restarted before durable completion").
Restarted == [status |-> "restarted", recovery |-> FALSE, large |-> FALSE]

\* What Runner::run can return.  A plan never needs state recovery; an apply
\* that was canceled or failed outright always does, and a finished one never.
RunOutcomes(j) ==
  {c \in Completions :
     /\ c.status # "restarted"
     /\ j \notin ApplyJobs => ~c.recovery /\ ~c.large
     /\ c.status = "finished" => ~c.recovery
     /\ j \in ApplyJobs /\ c.status = "canceled" => c.recovery
     /\ c.large => LargeStates}

\* What Runner::run returns when it refuses the payload or cannot create a run
\* directory: no command ran, yet an apply asks for state recovery.
Refused(j) == [status |-> "errored", recovery |-> j \in ApplyJobs, large |-> FALSE]

Records == [state : {"absent", "claimed", "executing", "completion_pending",
                     "completion_acked", "cleanup_done"},
            fingerprint : Fingerprints \union {NoFingerprint},
            workDir : Dirs \union {NoDir},
            retain : BOOLEAN,
            completion : Completions \union {NoCompletion},
            expired : BOOLEAN]

\* No file for the job.
NoRecord == [state |-> "absent", fingerprint |-> NoFingerprint, workDir |-> NoDir,
             retain |-> FALSE, completion |-> NoCompletion, expired |-> FALSE]

State(j) == journal[j].state

\* Journal::read refuses a file over the limit; Journal::write does not.
Readable(r) == r.completion # NoCompletion => ~r.completion.large

\* One bad file makes Journal::unfinished fail as a whole.
AllReadable == \A j \in Jobs : Readable(journal[j])

\* Mutants of Unfinished: no filter on finished records; records below the
\* acknowledgement left out; acknowledged records left out.
UnfinishedUnfiltered == {j \in Jobs : State(j) \notin {"absent", "claimed"}}
UnfinishedAckedOnly == {j \in Jobs : State(j) = "completion_acked" /\ ~journal[j].retain}
UnfinishedUnacked == {j \in Jobs : State(j) \in {"executing", "completion_pending"}}

\* Journal::unfinished: records that still need an acknowledgement or cleanup.
Unfinished ==
  {j \in Jobs : \/ State(j) \in {"executing", "completion_pending"}
                \/ State(j) = "completion_acked" /\ ~journal[j].retain}

-----------------------------------------------------------------------------
(* Helpers                                                                   *)

\* Journal::update: the record is replaced as a whole by an atomic rename, and
\* is young again.
Updated(j, state, workDir, retain, c) ==
  [journal EXCEPT ![j] = [state |-> state, fingerprint |-> journal[j].fingerprint,
                          workDir |-> workDir, retain |-> retain,
                          completion |-> c, expired |-> FALSE]]

\* Journal::prune_expired, applied to the records it finds.
Expired(records) ==
  {j \in Jobs : /\ records[j].state = "cleanup_done"
                /\ ~records[j].retain
                /\ records[j].expired}

Prune(records) ==
  LET gone == Expired(records)
  IN  /\ journal' = [j \in Jobs |-> IF j \in gone THEN NoRecord ELSE records[j]]
      /\ runs' = [j \in Jobs |-> IF j \in gone THEN 0 ELSE runs[j]]
      /\ told' = [j \in Jobs |-> IF j \in gone THEN {} ELSE told[j]]

\* The process goes on at p with job j, run directory d and outcome c in hand.
Hold(p, j, d, c, f) ==
  pc' = p /\ job' = j /\ dir' = d /\ completion' = c /\ fresh' = f

\* The entry is dropped: poll_once returns, or the process is gone.
Drop(p) == Hold(p, NoJob, NoDir, NoCompletion, FALSE)

Advance(from, to) == pc = from /\ pc' = to /\ UNCHANGED hand

Fault == faults < MaxFaults /\ faults' = faults + 1

\* A directory that only the process knew of is lost with the entry in hand.
Orphan == orphans' = orphans \union (IF dir = NoDir THEN {} ELSE {dir})

\* Mutant of AfterAck: retain_work_dir is not looked at.
AfterAckIgnoresRetain(j) == "clean"

\* The step after the acknowledgement: a retained directory is left alone.
AfterAck(j) == IF journal[j].retain THEN "done" ELSE "clean"

\* Mutants of FinishEntry: a pending record is terminalized like an executing
\* one; an executing record is executed again.
FinishEntryTerminalizesPending(j) ==
  \/ State(j) \in {"executing", "completion_pending"}
     /\ Hold("record", j, journal[j].workDir, Restarted, FALSE)
  \/ State(j) = "completion_acked" /\ Hold(AfterAck(j), j, NoDir, NoCompletion, FALSE)
FinishEntryRetries(j) ==
  \/ State(j) = "executing" /\ Hold("run", j, NoDir, NoCompletion, TRUE)
  \/ State(j) = "completion_pending" /\ Hold("report", j, NoDir, NoCompletion, FALSE)
  \/ State(j) = "completion_acked" /\ Hold(AfterAck(j), j, NoDir, NoCompletion, FALSE)

\* finish_journal_entry, up to its first request or write, for the record the
\* journal holds of j.
FinishEntry(j) ==
  \/ State(j) \in {"claimed", "executing"} /\ Hold("record", j, journal[j].workDir, Restarted, FALSE)
  \/ State(j) = "completion_pending" /\ Hold("report", j, NoDir, NoCompletion, FALSE)
  \/ State(j) = "completion_acked" /\ Hold(AfterAck(j), j, NoDir, NoCompletion, FALSE)
  \/ State(j) = "cleanup_done" /\ Drop("poll")

-----------------------------------------------------------------------------
Init ==
  /\ journal = [j \in Jobs |-> NoRecord]
  /\ dirs = {}
  /\ pc = "down"
  /\ job = NoJob /\ dir = NoDir /\ completion = NoCompletion /\ fresh = FALSE
  /\ shutdown = FALSE
  /\ \E f \in Fingerprints : pool = Jobs \X {f}
  /\ told = [j \in Jobs |-> {}]
  /\ runs = [j \in Jobs |-> 0]
  /\ orphans = {}
  /\ faults = 0 /\ offers = 0

-----------------------------------------------------------------------------
(* Startup and exit                                                          *)

\* main up to registration: Journal::open prunes.
Start ==
  /\ pc = "down"
  /\ pc' = "register"
  /\ Prune(journal)
  /\ UNCHANGED <<dirs, hand, shutdown, pool, orphans, faults, offers>>

\* register_with_retry returns; errors but a rejection are retried.
Register ==
  /\ ~shutdown
  /\ Advance("register", "poll")
  /\ UNCHANGED <<disk, shutdown, server, history, faults, offers>>

\* The process ends.  What it held in memory is gone.
Die ==
  /\ Drop("down")
  /\ Orphan
  /\ shutdown' = FALSE
  /\ UNCHANGED <<disk, server, runs, offers>>

\* The registration is rejected (401): main returns the error.
RegisterRejected == pc = "register" /\ Fault /\ Die

\* The loop is left on shutdown or after the one job of single-job mode.
Exit ==
  /\ \/ pc \in {"register", "poll"} /\ shutdown
     \/ pc = "exit"
  /\ Die
  /\ UNCHANGED faults

Crash == pc # "down" /\ Fault /\ Die

\* The first termination signal.
Signal ==
  /\ pc # "down" /\ ~shutdown
  /\ Fault
  /\ shutdown' = TRUE
  /\ UNCHANGED <<disk, pc, hand, server, history, offers>>

-----------------------------------------------------------------------------
(* poll_once                                                                 *)

\* The journal can be read and owes nothing, so poll_once asks for a job.
MayClaim == pc = "poll" /\ ~shutdown /\ AllReadable /\ Unfinished = {}

\* The journal cannot be read, or there is no job to claim: Idle.
IdlePoll ==
  /\ pc = "poll" /\ ~shutdown
  /\ AllReadable => Unfinished = {}
  /\ UNCHANGED vars

\* Before claiming, the first unfinished record (by job id) is finished.
FinishFirst ==
  /\ pc = "poll" /\ ~shutdown /\ AllReadable
  /\ \E j \in Unfinished :
       /\ \A k \in Unfinished : j <= k
       /\ FinishEntry(j)
  /\ UNCHANGED <<disk, shutdown, server, history, faults, offers>>

\* The control plane answers a claim with job j.
HandOut(j, f) == MayClaim /\ <<j, f>> \in pool /\ pool' = pool \ {<<j, f>>}

\* Journal::start on a job it has never seen.
ClaimNew(j, f) ==
  /\ HandOut(j, f)
  /\ State(j) = "absent"
  /\ journal' = [journal EXCEPT ![j] =
                   [NoRecord EXCEPT !.state = "claimed", !.fingerprint = f]]
  /\ Hold("mark", j, NoDir, NoCompletion, TRUE)
  /\ UNCHANGED <<dirs, shutdown, told, history, faults, offers>>

\* Mutant of ClaimKnown: the state of the existing record is not looked at.
ClaimKnownExecutes(j, f) ==
  /\ HandOut(j, f)
  /\ State(j) # "absent" /\ journal[j].fingerprint = f
  /\ Hold("mark", j, NoDir, NoCompletion, TRUE)
  /\ UNCHANGED <<disk, shutdown, told, history, faults, offers>>

\* Journal::start finds the job: one that never got past "claimed" goes on,
\* any other is finished, not executed.
ClaimKnown(j, f) ==
  /\ HandOut(j, f)
  /\ State(j) # "absent" /\ journal[j].fingerprint = f
  /\ IF State(j) = "claimed"
       THEN Hold("mark", j, NoDir, NoCompletion, TRUE)
       ELSE FinishEntry(j)
  /\ UNCHANGED <<disk, shutdown, told, history, faults, offers>>

\* Journal::start finds the job under another fingerprint and fails.
ClaimConflict(j, f) ==
  /\ HandOut(j, f)
  /\ State(j) # "absent" /\ journal[j].fingerprint # f
  /\ UNCHANGED <<disk, process, told, history, faults, offers>>

\* The control plane gave the job away and the agent has nothing to show for
\* it: the answer is lost, shutdown wins the select, or start cannot write.
ClaimLost(j, f) ==
  /\ HandOut(j, f)
  /\ Fault
  /\ UNCHANGED <<disk, process, told, history, offers>>

\* A 401 on a claim sends the loop back to registration.
ClaimUnauthorized ==
  /\ MayClaim
  /\ Fault
  /\ Advance("poll", "register")
  /\ UNCHANGED <<disk, shutdown, server, history, offers>>

MarkExecuting ==
  /\ Advance("mark", "run")
  /\ journal' = Updated(job, "executing", journal[job].workDir, journal[job].retain, NoCompletion)
  /\ UNCHANGED <<dirs, shutdown, server, history, faults, offers>>

\* Runner::run gets a fresh run directory and starts on the job.
RunStart(d) ==
  /\ pc = "run"
  /\ d \notin dirs
  /\ dirs' = dirs \union {d}
  /\ Hold("running", job, d, NoCompletion, fresh)
  /\ runs' = [runs EXCEPT ![job] = @ + 1]
  /\ UNCHANGED <<journal, shutdown, server, orphans, faults, offers>>

RunRefused ==
  /\ pc = "run"
  /\ Hold("record", job, NoDir, Refused(job), fresh)
  /\ UNCHANGED <<disk, shutdown, server, history, faults, offers>>

RunEnd ==
  /\ pc = "running"
  /\ \E c \in RunOutcomes(job) : Hold("record", job, dir, c, fresh)
  /\ UNCHANGED <<disk, shutdown, server, history, faults, offers>>

-----------------------------------------------------------------------------
(* record_completion and the rest of finish_journal_entry                    *)

RecordCompletion ==
  /\ pc = "record"
  /\ journal' = Updated(job, "completion_pending", dir, completion.recovery, completion)
  /\ Hold("report", job, NoDir, NoCompletion, fresh)
  /\ UNCHANGED <<dirs, shutdown, server, history, faults, offers>>

\* The control plane accepts the outcome of the job in hand.
Accept == told' = [told EXCEPT ![job] = @ \union {journal[job].completion}]

Report ==
  /\ Advance("report", "ack")
  /\ Accept
  /\ UNCHANGED <<disk, shutdown, pool, history, faults, offers>>

\* The control plane accepts, but its answer does not arrive.
ReportAnswerLost ==
  /\ pc = "report"
  /\ Fault
  /\ Accept
  /\ Drop("poll")
  /\ UNCHANGED <<disk, shutdown, pool, history, offers>>

\* Mutant of ReportFailed: the error is logged and not returned.
ReportFailedSwallowed ==
  /\ Fault
  /\ Advance("report", "ack")
  /\ UNCHANGED <<disk, shutdown, server, history, offers>>

\* The control plane does not accept; on a 401 the agent registers again.
ReportFailed ==
  /\ pc = "report"
  /\ Fault
  /\ Drop("poll") \/ Drop("register")
  /\ UNCHANGED <<disk, shutdown, server, history, offers>>

\* Mutant of MarkAcked: the record keeps its completion.
MarkAckedKeepsCompletion ==
  /\ Advance("ack", AfterAck(job))
  /\ journal' = Updated(job, "completion_acked", journal[job].workDir,
                        journal[job].retain, journal[job].completion)
  /\ UNCHANGED <<dirs, shutdown, server, history, faults, offers>>

MarkAcked ==
  /\ Advance("ack", AfterAck(job))
  /\ journal' = Updated(job, "completion_acked", journal[job].workDir, journal[job].retain, NoCompletion)
  /\ UNCHANGED <<dirs, shutdown, server, history, faults, offers>>

CleanUp ==
  /\ Advance("clean", "done")
  /\ dirs' = dirs \ {journal[job].workDir}
  /\ UNCHANGED <<journal, shutdown, server, history, faults, offers>>

\* Mutant of CleanUpFailed: the error is ignored.
CleanUpFailedIgnored ==
  /\ Fault
  /\ Advance("clean", "done")
  /\ UNCHANGED <<disk, shutdown, server, history, offers>>

CleanUpFailed ==
  /\ pc = "clean"
  /\ Fault
  /\ Drop("poll")
  /\ UNCHANGED <<disk, shutdown, server, history, offers>>

\* mark_cleanup_done prunes; then a job executed by this call ends
\* single-job mode.
MarkCleanupDone ==
  /\ pc = "done"
  /\ Prune(Updated(job, "cleanup_done", journal[job].workDir, journal[job].retain, NoCompletion))
  /\ Drop(IF Single /\ fresh THEN "exit" ELSE "poll")
  /\ UNCHANGED <<dirs, shutdown, pool, orphans, faults, offers>>

\* A journal write fails: poll_once returns the error and drops the entry.
WriteFailed ==
  /\ pc \in {"mark", "record", "ack", "done"}
  /\ Fault
  /\ Orphan
  /\ Drop("poll")
  /\ UNCHANGED <<disk, shutdown, server, runs, offers>>

-----------------------------------------------------------------------------
(* The surroundings                                                          *)

\* The control plane hands a job out again, perhaps with a changed payload.
OfferAgain(j, f) ==
  /\ offers < MaxOffers
  /\ <<j, f>> \notin pool
  /\ pool' = pool \union {<<j, f>>}
  /\ offers' = offers + 1
  /\ UNCHANGED <<disk, process, told, history, faults>>

\* Thirty days pass without a write to j's record.  Only a finished record's
\* age is ever acted on.
Age(j) ==
  /\ State(j) = "cleanup_done" /\ ~journal[j].expired
  /\ journal' = [journal EXCEPT ![j].expired = TRUE]
  /\ UNCHANGED <<dirs, process, server, history, faults, offers>>

-----------------------------------------------------------------------------
\* What the process does by itself when nothing goes wrong.
Progress ==
  \/ Start \/ Register \/ Exit
  \/ FinishFirst
  \/ \E j \in Jobs, f \in Fingerprints :
       ClaimNew(j, f) \/ ClaimKnown(j, f) \/ ClaimConflict(j, f)
  \/ MarkExecuting
  \/ \E d \in Dirs : RunStart(d)
  \/ RunRefused \/ RunEnd
  \/ RecordCompletion \/ Report \/ MarkAcked \/ CleanUp \/ MarkCleanupDone

\* What goes wrong, at most MaxFaults times.
Failure ==
  \/ Crash \/ Signal \/ RegisterRejected \/ ClaimUnauthorized
  \/ \E j \in Jobs, f \in Fingerprints : ClaimLost(j, f)
  \/ ReportAnswerLost \/ ReportFailed \/ CleanUpFailed \/ WriteFailed

Surroundings ==
  \/ \E j \in Jobs, f \in Fingerprints : OfferAgain(j, f)
  \/ \E j \in Jobs : Age(j)

Next == Progress \/ Failure \/ Surroundings \/ IdlePoll

Spec == Init /\ [][Next]_vars

\* The loop is a single task that is never disabled for good: the runtime
\* schedules it, runner.run ends by its deadline, a supervisor restarts the
\* process, and requests succeed once the failures are used up.
FairSpec == Spec /\ WF_vars(Progress)

-----------------------------------------------------------------------------
(* Safety                                                                    *)

DiskType ==
  /\ journal \in [Jobs -> Records]
  /\ \A j \in Jobs :
       journal[j].completion # NoCompletion <=> journal[j].state = "completion_pending"
  /\ dirs \subseteq Dirs

HandType ==
  /\ pc \in {"down", "register", "poll", "mark", "run", "running", "record",
             "report", "ack", "clean", "done", "exit"}
  /\ job \in Jobs \union {NoJob}
  /\ job = NoJob <=> pc \in {"down", "register", "poll", "exit"}
  /\ dir \in Dirs \union {NoDir}
  /\ completion \in Completions \union {NoCompletion}
  /\ completion # NoCompletion <=> pc = "record"
  /\ fresh \in BOOLEAN

ServerType ==
  /\ pool \subseteq Jobs \X Fingerprints
  /\ told \in [Jobs -> SUBSET (Completions \union {NoCompletion})]

CounterType ==
  /\ shutdown \in BOOLEAN
  /\ runs \in [Jobs -> Nat]
  /\ orphans \subseteq Dirs
  /\ faults \in 0..MaxFaults /\ offers \in 0..MaxOffers

\* Variables and hand have their types, a hand is full exactly while an entry
\* is being worked on, and a record holds a completion exactly while pending.
TypeOK == DiskType /\ HandType /\ ServerType /\ CounterType

\* However claims are repeated and wherever the agent crashes, a job the journal
\* remembers is executed at most once ("no state below completion_pending may
\* execute the job again", journal.rs).
AtMostOneRun == \A j \in Jobs : runs[j] <= 1

\* The control plane is never told two different outcomes of one job, and what
\* it was told is what the journal holds until it is acknowledged: a resend
\* after a lost answer or a restart repeats the outcome.
OneOutcomeTold ==
  \A j \in Jobs :
    /\ \A a, b \in told[j] : a = b
    /\ State(j) = "completion_pending" => told[j] \subseteq {journal[j].completion}

\* The journal gives up an outcome only once the control plane has accepted it.
AckedWasTold ==
  \A j \in Jobs :
    State(j) \in {"completion_acked", "cleanup_done"} => told[j] # {}

\* A run directory stays on disk until its job's outcome is acknowledged, and
\* for good when the outcome asks for state recovery.
DirectoryKept ==
  \A j \in Jobs :
    /\ journal[j].workDir # NoDir
    /\ State(j) = "completion_pending" \/ journal[j].retain
    => journal[j].workDir \in dirs

\* A run directory on disk belongs to the running job, or is named by a record
\* that still needs it, unless its execution was cut short before the record
\* named it: nothing else leaks one, pruning the journal included.
DirectoriesAccounted ==
  \A d \in dirs \ orphans :
    \/ d = dir
    \/ \E j \in Jobs :
         /\ journal[j].workDir = d
         /\ \/ journal[j].retain
            \/ State(j) \in {"completion_pending", "completion_acked"}

(* Implementation of the contract                                            *)

Stage(j) ==
  CASE State(j) \in {"absent", "claimed"} -> "unknown"
    [] State(j) = "executing" -> "admitted"
    [] State(j) = "completion_pending" -> "settled"
    [] OTHER -> "closed"

Contract == INSTANCE JobContract WITH
  Outcomes <- Completions,
  NoOutcome <- NoCompletion,
  stage <- [j \in Jobs |-> Stage(j)],
  executions <- runs,
  outcome <- [j \in Jobs |-> journal[j].completion]

\* Through crashes, restarts, failed writes and repeated claims the agent
\* keeps the contract of JobContract.
ImplementsContract == Contract!Spec

(* Liveness, under FairSpec                                                  *)

\* An offered job is taken sooner or later: no unfinished record of another
\* job, no re-registration and no restart blocks the claims for ever.
OfferIsTaken ==
  \A j \in Jobs, f \in Fingerprints : <<j, f>> \in pool ~> <<j, f>> \notin pool

\* A job that was marked as executing is settled, though its process may die.
ExecutingIsSettled ==
  \A j \in Jobs : State(j) = "executing" ~> State(j) # "executing"

\* A recorded outcome reaches the control plane ("a record with a completion is
\* safe to resend", journal.rs).
PendingIsReported ==
  \A j \in Jobs : State(j) = "completion_pending" ~> told[j] # {}

\* An acknowledged job that needs no state recovery has its directory removed.
AckedIsCleaned ==
  \A j \in Jobs :
    State(j) = "completion_acked" /\ ~journal[j].retain
      ~> State(j) # "completion_acked" /\ journal[j].workDir \notin dirs
=============================================================================
