--------------------------- MODULE Execution_proofs ---------------------------
(***************************************************************************)
(* Proofs about Execution: its types, its safety properties and that it      *)
(* implements RunContract.                                                   *)
(***************************************************************************)
EXTENDS Execution, TLAPS

\* Where the runner is at a stage.
AtStage == {"enter", "spawn", "wait", "join", "upload"}

\* The stages behind the present one succeeded, unless the error was noted or a
\* marker was found; and what succeeded was started.
PassedInv ==
  /\ "apply" \in passed => "apply" \in started
  /\ pc \in AtStage =>
       /\ stage \in PlanStages \ {"init"} => "init" \in passed
       /\ stage \in PlanStages \ {"init", "plan"} => "plan" \in passed
       /\ stage \in PlanStages \ {"init", "plan", "show"} => "show" \in passed
       /\ stage \in PlanStages \ {"init", "plan", "show", "json"} => "json" \in passed
       /\ stage \in {"pull", "artifact"} /\ ~failed => "apply" \in passed \/ marker = "clean"
       /\ stage = "artifact" /\ ~trouble => "pull" \in passed

\* Whatever calls itself finished is whole, before the log is closed too.
Whole ==
  answer.status = "finished" =>
    IF phase = "plan" THEN {"init", "plan", "show", "json", "snapshot"} \subseteq passed
    ELSE {"pull", "artifact"} \subseteq passed /\ ("apply" \in passed \/ marker = "clean")

\* The apply command is started by an apply, and once, and never past a marker.
ApplyOnce ==
  /\ "apply" \in started => phase = "apply"
  /\ pc \in {"start", "prepare"} => started = {} /\ stage = "none"
  /\ pc \in {"enter", "spawn"} /\ stage = "apply" => "apply" \notin started
  /\ pc = "spawn" /\ stage = "apply" => marker = "none"
  /\ marker # "none" => "apply" \notin started

\* A state that counts as final was read after the apply command had ended; and
\* one that was pulled without trouble is no earlier than that.
StateInv ==
  /\ "recovery" \in expired => stage = "repull"
  /\ got = "final" => "apply" \in started \ alive
  /\ \/ pc \in {"wait", "join"} /\ stage = "pull"
     \/ pc = "upload" /\ stage = "artifact" /\ ~trouble
     => ("apply" \in started => got \in {"none", "final"})

\* The answer is what RunContract asks for, before it counts too.
AnswerInv ==
  /\ pc \notin {"close", "done"} => answer = NoAnswer
  /\ pc \in {"close", "done"} =>
       /\ answer \in Answers
       /\ answer.state = "final" => got = "final"
       /\ phase = "plan" => ~answer.recovery /\ answer.state = "none"
       /\ "apply" \in started /\ answer.state # "final" => answer.recovery
       /\ phase = "apply" /\ answer.status = "canceled" => answer.recovery
       /\ phase = "apply" /\ answer.status = "finished" =>
            /\ ~answer.recovery /\ answer.state # "none"
            /\ answer.state = "final" \/ (marker # "none" /\ "apply" \notin started)
  /\ pc = "done" => "apply" \notin alive

\* A command that starts after a cancellation was asked for before it, so that none
\* such has started yet; an apply that does ends in the recovery or without one.
LateInv ==
  /\ canceled = {} => late = {}
  /\ pc = "spawn" /\ stage # "repull" => late = {}
  /\ \A c, d \in late \ {"repull"} : c = d
  /\ "apply" \in late =>
       /\ stage \in {"apply", "pull", "repull"}
       /\ stage = "apply" => pc \in {"wait", "join", "close", "done"}
       /\ stage = "pull" => pc \in {"enter", "close", "done"}
       /\ pc \in {"close", "done"} => answer.status = "canceled"

IInv ==
  /\ TypeOK /\ SupervisedUnlessLate
  /\ PassedInv /\ Whole /\ ApplyOnce /\ StateInv /\ AnswerInv /\ LateInv

-----------------------------------------------------------------------------
(* Types                                                                     *)

\* Where execute_phase goes on after a command.
LEMMA GoesOnType ==
  ASSUME TypeOK, pc \in {"enter", "spawn", "wait", "join"}, NEW r \in {"ok", "error"} \union Tokens,
         GoesOn(r)
  PROVE  /\ pc' \in {"enter", "upload", "close"}
         /\ stage' \in (IF phase = "plan" THEN PlanStages ELSE ApplyStages)
         /\ pc' = "enter" => stage' \in Commands
         /\ pc' = "upload" => stage' \in Uploads
         /\ failed' \in BOOLEAN /\ trouble' \in BOOLEAN
         /\ answer' \in Answers \union {NoAnswer}
         /\ passed' \subseteq PlanStages \union ApplyStages
<1>1. stage \in (IF phase = "plan" THEN PlanStages ELSE ApplyStages)
  BY DEF TypeOK, Commands, Streamed, Captured
<1>2. \A st \in {"none", "early", "final"} : CanceledWith(st) \in Answers
  BY DEF CanceledWith, Outcome, Answers, TypeOK
<1>3. Errored \in Answers
  BY DEF Errored, Outcome, Answers, TypeOK
<1>4. Failure(r) \in Answers
  BY <1>2, <1>3 DEF Failure
<1>5. passed' \subseteq PlanStages \union ApplyStages
  BY <1>1 DEF GoesOn, TypeOK
<1>6. CASE PlanGoesOn(r)
  BY <1>1, <1>4, <1>5, <1>6
     DEF PlanGoesOn, Go, Finish, TypeOK, PlanStages, ApplyStages, Commands, Streamed, Captured, Uploads
<1>7. CASE ApplyGoesOn(r)
  BY <1>1, <1>2, <1>5, <1>7
     DEF ApplyGoesOn, Go, Finish, TypeOK, PlanStages, ApplyStages, Commands, Streamed, Captured, Uploads
<1> QED
  BY <1>6, <1>7 DEF GoesOn

\* The next stage of Go, and the end of Finish.
LEMMA GoType ==
  ASSUME TypeOK, NEW s \in (IF phase = "plan" THEN PlanStages ELSE ApplyStages), Go(s)
  PROVE  /\ stage' = s /\ pc' \in {"enter", "upload"} /\ answer' = answer
         /\ pc' = "enter" => s \in Commands
         /\ pc' = "upload" => s \in Uploads
BY DEF Go, TypeOK, PlanStages, ApplyStages, Commands, Streamed, Captured, Uploads

LEMMA AnswersType ==
  ASSUME TypeOK
  PROVE  /\ Errored \in Answers
         /\ \A st \in {"none", "early", "final"} : CanceledWith(st) \in Answers
         /\ \A s \in {"finished", "errored", "canceled"}, r \in BOOLEAN,
               st \in {"none", "early", "final"} : Outcome(s, r, st) \in Answers
         /\ Fresh \in {"early", "final"}
BY DEF Errored, CanceledWith, Outcome, Answers, Fresh, TypeOK

LEMMA NextType == TypeOK /\ [Next]_vars => TypeOK'
<1> SUFFICES ASSUME TypeOK, [Next]_vars PROVE TypeOK'
  OBVIOUS
<1> USE DEF progress, world, history
<1>1. CASE RunRefused
  BY <1>1, AnswersType DEF RunRefused, Finish, TypeOK
<1>2. CASE RunBegins
  BY <1>2, AnswersType DEF RunBegins, Finish, TypeOK
<1>3. CASE Prepare
  <2>1. (IF phase = "plan" THEN "init" ELSE "apply")
          \in (IF phase = "plan" THEN PlanStages ELSE ApplyStages)
    BY DEF PlanStages, ApplyStages
  <2> QED
    BY <1>3, <2>1, GoType DEF Prepare, TypeOK
<1>4. CASE PrepareFailed
  BY <1>4, AnswersType DEF PrepareFailed, Finish, TypeOK
<1>5. CASE Refused
  BY <1>5, AnswersType DEF Refused, Finish, TypeOK
<1>6. CASE CanceledBefore
  <2>1. Reason \in Tokens
    BY DEF Reason, Tokens
  <2> QED
    BY <1>6, <2>1, GoesOnType DEF CanceledBefore, TypeOK
<1>7. CASE NotStarted
  <2>1. got' \in {"none", "early", "final"}
    BY <1>7, AnswersType DEF NotStarted, TypeOK
  <2> QED
    BY <1>7, <2>1, GoesOnType DEF NotStarted, TypeOK
<1>8. CASE Spawn
  <2>1. got' \in {"none", "early", "final"}
    BY <1>8, AnswersType DEF Spawn, Deliverable, TypeOK
  <2>2. stage \in Commands /\ lost' \in BOOLEAN
    BY <1>8 DEF Spawn, TypeOK
  <2>3. CASE Deadline(stage) \in expired
    BY <1>8, <2>1, <2>2, <2>3, GoesOnType DEF Spawn, TypeOK
  <2>4. CASE Deadline(stage) \notin expired
    BY <1>8, <2>1, <2>2, <2>4 DEF Spawn, TypeOK
  <2> QED
    BY <2>3, <2>4
<1>9. CASE ExitSeen
  BY <1>9 DEF ExitSeen, TypeOK
<1>10. CASE CancelSeen
  <2>1. PICK r \in Tokens : GoesOn(r)
    BY <1>10 DEF CancelSeen, Heeded, TypeOK
  <2> QED
    BY <1>10, <2>1, GoesOnType DEF CancelSeen, TypeOK
<1>11. CASE TimeoutSeen
  BY <1>11, GoesOnType DEF TimeoutSeen, TypeOK
<1>12. CASE PullTimeoutSeen
  BY <1>12 DEF PullTimeoutSeen, TypeOK
<1>13. CASE Joined
  BY <1>13, GoesOnType DEF Joined, TypeOK
<1>14. CASE ReaderFails
  BY <1>14, GoesOnType DEF ReaderFails, TypeOK
<1>15. CASE Uploaded
  <2>1. stage \in PlanStages /\ phase = "plan" /\ stage \in {"json", "schemas", "snapshot"}
    BY <1>15 DEF Uploaded, TypeOK, Uploads, PlanStages, ApplyStages
  <2>2. CASE stage = "snapshot"
    BY <1>15, <2>1, <2>2, AnswersType DEF Uploaded, Finish, TypeOK
  <2>3. CASE stage = "json"
    BY <1>15, <2>1, <2>3, GoType DEF Uploaded, TypeOK, PlanStages
  <2>4. CASE stage = "schemas"
    BY <1>15, <2>1, <2>4, GoType DEF Uploaded, TypeOK, PlanStages
  <2> QED
    BY <2>1, <2>2, <2>3, <2>4
<1>16. CASE UploadFailed
  <2>1. stage = "schemas" => "manifest" \in PlanStages /\ phase = "plan"
    BY DEF TypeOK, PlanStages, ApplyStages
  <2>2. CASE stage = "schemas"
    BY <1>16, <2>1, <2>2, GoType DEF UploadFailed, TypeOK
  <2>3. CASE stage # "schemas"
    BY <1>16, <2>3, AnswersType DEF UploadFailed, Finish, TypeOK
  <2> QED
    BY <2>2, <2>3
<1>17. CASE Pack
  <2>1. stage \in PlanStages /\ "snapshot" \in PlanStages /\ phase = "plan"
    BY <1>17 DEF Pack, TypeOK, PlanStages, ApplyStages
  <2>2. CASE Packs(WorkDir, SnapshotPath)
    BY <1>17, <2>1, <2>2, GoType DEF Pack, TypeOK
  <2>3. CASE ~Packs(WorkDir, SnapshotPath)
    BY <1>17, <2>1, <2>3, AnswersType DEF Pack, Finish, TypeOK
  <2> QED
    BY <2>2, <2>3
<1>18. ASSUME NEW committed \in BOOLEAN, Conclude(committed)
       PROVE  TypeOK'
  <2>1. "artifact" \in ApplyStages
    BY DEF ApplyStages
  <2> QED
    BY <1>18, <2>1, AnswersType DEF Conclude, Finish, TypeOK
<1>19. CASE ConcludeFailed
  BY <1>19, AnswersType DEF ConcludeFailed, Finish, TypeOK
<1>20. CASE Close
  BY <1>20 DEF Close, TypeOK
<1>21. ASSUME NEW c \in Commands, Exits(c) \/ HolderExits(c)
       PROVE  TypeOK'
  <2>1. CASE Exits(c)
    <3>1. alive' \subseteq started /\ held' \subseteq started
      BY <2>1 DEF Exits, TypeOK
    <3> QED
      BY <2>1, <3>1 DEF Exits, TypeOK
  <2>2. CASE HolderExits(c)
    <3>1. held' \subseteq started
      BY <2>2 DEF HolderExits, TypeOK
    <3> QED
      BY <2>2, <3>1 DEF HolderExits, TypeOK
  <2> QED
    BY <1>21, <2>1, <2>2
<1>22. CASE Signal
  BY <1>22 DEF Signal, TypeOK, Tokens
<1>23. CASE RemoteCancel
  BY <1>23 DEF RemoteCancel, TypeOK, Tokens
<1>24. ASSUME NEW d \in {"job", "recovery"}, Expire(d)
       PROVE  TypeOK'
  BY <1>24 DEF Expire, TypeOK
<1>25. CASE UNCHANGED vars
  BY <1>25 DEF vars, TypeOK
<1>26. CASE Marked
  <2>1. phase = "apply" /\ "pull" \in ApplyStages
    BY <1>26 DEF Marked, Runs, TypeOK, ApplyStages
  <2> QED
    BY <1>26, <2>1, GoType DEF Marked, TypeOK
<1>27. CASE Clear
  BY <1>27 DEF Clear, TypeOK
<1> QED
  BY <1>26, <1>27, <1>1, <1>2, <1>3, <1>4, <1>5, <1>6, <1>7, <1>8, <1>9, <1>10, <1>11, <1>12, <1>13, <1>14,
     <1>15, <1>16, <1>17, <1>18, <1>19, <1>20, <1>21, <1>22, <1>23, <1>24, <1>25
     DEF Next, Runner

-----------------------------------------------------------------------------
(* What the steps have in common                                             *)

\* Where a command leads: errors and cancellations end a run or lead on to the
\* state pull, and only what succeeded is recorded as passed.
LEMMA GoesOnShape ==
  ASSUME TypeOK, pc \in {"enter", "spawn", "wait", "join"}, NEW r \in {"ok", "error"} \union Tokens,
         GoesOn(r)
  PROVE  /\ pc' \in {"enter", "upload", "close"}
         /\ stage = "repull" => stage' = "repull"
         /\ stage' # "apply" \/ pc' = "close"
         /\ pc' = "upload" /\ stage' = "artifact" /\ ~trouble' => r = "ok" /\ stage = "pull"
         /\ pc' # "close" => answer' = answer
         /\ pc' = "close" =>
              \/ phase = "plan" /\ answer' = Failure(r) /\ r # "ok"
              \/ phase = "apply" /\ answer' = CanceledWith("none")
              \/ phase = "apply" /\ answer' = CanceledWith(got) /\ r = "ok"
         /\ passed' = IF r = "ok" THEN passed \union {stage} ELSE passed
<1>1. stage \in (IF phase = "plan" THEN PlanStages ELSE ApplyStages) /\ phase \in {"plan", "apply"}
  BY DEF TypeOK, Commands, Streamed, Captured
<1>2. passed' = IF r = "ok" THEN passed \union {stage} ELSE passed
  BY DEF GoesOn
<1>3. CASE PlanGoesOn(r)
  BY <1>1, <1>2, <1>3
     DEF PlanGoesOn, Go, Finish, PlanStages, ApplyStages, Commands, Streamed, Captured
<1>4. CASE ApplyGoesOn(r)
  BY <1>1, <1>2, <1>4
     DEF ApplyGoesOn, Go, Finish, PlanStages, ApplyStages, Commands, Streamed, Captured, Tokens
<1> QED
  BY <1>3, <1>4 DEF GoesOn

\* The steps of the runner that go on after a command, with their result.
GoesOnAfter ==
  \/ CanceledBefore \/ NotStarted \/ (Spawn /\ Deadline(stage) \in expired)
  \/ CancelSeen \/ TimeoutSeen \/ Joined \/ ReaderFails

LEMMA GoingOn ==
  ASSUME TypeOK, GoesOnAfter
  PROVE  \E r \in {"ok", "error"} \union Tokens :
           /\ GoesOn(r) /\ pc \in {"enter", "spawn", "wait", "join"}
           /\ r = "ok" => pc = "join" /\ stage \in started /\ got' = got /\ UNCHANGED started
           /\ UNCHANGED <<phase, marker>> /\ started \subseteq started'
           /\ started' \subseteq started \union {stage}
           /\ started' # started => pc = "spawn"
<1>1. CASE CanceledBefore
  BY <1>1 DEF CanceledBefore, Reason, Tokens
<1>2. CASE NotStarted
  BY <1>2 DEF NotStarted
<1>3. CASE Spawn /\ Deadline(stage) \in expired
  BY <1>3 DEF Spawn
<1>4. CASE CancelSeen
  BY <1>4 DEF CancelSeen, Heeded, TypeOK, Tokens
<1>5. CASE TimeoutSeen
  BY <1>5 DEF TimeoutSeen
<1>6. CASE Joined
  BY <1>6 DEF Joined, world, TypeOK
<1>7. CASE ReaderFails
  BY <1>7 DEF ReaderFails, world
<1> QED
  BY <1>1, <1>2, <1>3, <1>4, <1>5, <1>6, <1>7 DEF GoesOnAfter

\* The steps of the world: the runner stays where it is.
World ==
  \/ \E c \in Commands : Exits(c) \/ HolderExits(c)
  \/ Signal \/ RemoteCancel
  \/ \E d \in {"job", "recovery"} : Expire(d)

LEMMA WorldFacts ==
  ASSUME TypeOK, World
  PROVE  /\ UNCHANGED <<phase, marker, pc, stage, failed, trouble, got, answer>>
         /\ UNCHANGED <<lost, started, passed, late>> /\ canceled \subseteq canceled'
         /\ alive' \subseteq alive /\ expired \subseteq expired'
         /\ "recovery" \in expired' => "recovery" \in expired \/ stage = "repull"
<1>1. ASSUME NEW c \in Commands, Exits(c) \/ HolderExits(c)
      PROVE  /\ UNCHANGED <<phase, marker, progress, expired, canceled, history>>
             /\ alive' \subseteq alive
  BY <1>1 DEF Exits, HolderExits
<1>2. CASE Signal
  BY <1>2 DEF Signal, progress, history
<1>3. CASE RemoteCancel
  BY <1>3 DEF RemoteCancel, progress, history
<1>4. ASSUME NEW d \in {"job", "recovery"}, Expire(d)
      PROVE  /\ UNCHANGED <<phase, marker, progress, alive, canceled, history>>
             /\ expired' = expired \union {d} /\ (d = "recovery" => stage = "repull")
  BY <1>4 DEF Expire
<1>5. CASE \E c \in Commands : Exits(c) \/ HolderExits(c)
  BY <1>1, <1>5 DEF progress, history
<1>6. CASE Signal \/ RemoteCancel
  BY <1>2, <1>3, <1>6
<1>7. CASE \E d \in {"job", "recovery"} : Expire(d)
  <2>1. PICK d \in {"job", "recovery"} : Expire(d)
    BY <1>7
  <2>2. UNCHANGED <<phase, marker, progress, alive, canceled, history>>
    BY <1>4, <2>1
  <2>3. expired' = expired \union {d} /\ (d = "recovery" => stage = "repull")
    BY <1>4, <2>1
  <2> QED
    BY <2>2, <2>3 DEF progress, history
<1> QED
  BY <1>5, <1>6, <1>7 DEF World

\* The steps that end a run without a command.
Ends == RunRefused \/ PrepareFailed \/ Refused \/ ConcludeFailed

LEMMA EndsFacts ==
  ASSUME TypeOK, Ends
  PROVE  /\ pc \in {"start", "prepare", "enter", "upload"} /\ pc' = "close" /\ answer' = Errored
         /\ UNCHANGED <<phase, marker, stage, failed, trouble, got, world, history>>
         /\ pc = "enter" => stage \in {"plan", "apply"}
         /\ pc = "upload" => stage \in Uploads
BY DEF Ends, RunRefused, PrepareFailed, Refused, ConcludeFailed, Finish, TypeOK

\* The kinds of steps.
LEMMA Steps ==
  ASSUME [Next]_vars
  PROVE  \/ World \/ Ends \/ GoesOnAfter \/ RunBegins \/ Prepare \/ Marked \/ Clear
         \/ Spawn /\ Deadline(stage) \notin expired
         \/ ExitSeen \/ PullTimeoutSeen \/ Uploaded \/ UploadFailed \/ Pack \/ Close
         \/ \E committed \in BOOLEAN : Conclude(committed)
         \/ UNCHANGED vars
BY DEF Next, Runner, World, Ends, GoesOnAfter

-----------------------------------------------------------------------------
(* The invariant                                                             *)

LEMMA InitHolds == Init => IInv
<1> SUFFICES ASSUME Init PROVE IInv
  OBVIOUS
<1>1. TypeOK
  BY DEF Init, TypeOK
<1>2. SupervisedUnlessLate
  BY DEF Init, SupervisedUnlessLate, Orphans
<1>3. PassedInv /\ Whole
  BY DEF Init, PassedInv, AtStage, Whole, NoAnswer
<1>4. ApplyOnce /\ StateInv /\ AnswerInv
  BY DEF Init, ApplyOnce, StateInv, AnswerInv
<1>5. LateInv
  BY DEF Init, LateInv
<1> QED
  BY <1>1, <1>2, <1>3, <1>4, <1>5 DEF IInv

LEMMA NextSupervised == TypeOK /\ SupervisedUnlessLate /\ [Next]_vars => SupervisedUnlessLate'
<1> SUFFICES ASSUME TypeOK, SupervisedUnlessLate, [Next]_vars, expired' = {}
             PROVE  Orphans' = {}
  BY DEF SupervisedUnlessLate
<1> USE DEF world
<1>1. CASE World
  BY <1>1, WorldFacts DEF SupervisedUnlessLate, Orphans
<1>2. CASE Ends
  BY <1>2, EndsFacts DEF SupervisedUnlessLate, Orphans
<1>3. CASE GoesOnAfter
  <2>1. expired = {} /\ alive' \subseteq Orphans
    BY <1>3 DEF GoesOnAfter, CanceledBefore, NotStarted, Spawn, CancelSeen, TimeoutSeen, Joined,
                ReaderFails, Orphans, Deadline
  <2>2. PICK r \in {"ok", "error"} \union Tokens : GoesOn(r) /\ pc \in {"enter", "spawn", "wait", "join"}
    BY <1>3, GoingOn
  <2>3. pc' # "wait"
    BY <2>2, GoesOnShape
  <2> QED
    BY <2>1, <2>3 DEF SupervisedUnlessLate, Orphans
<1>4. CASE RunBegins \/ Prepare \/ Marked \/ Clear
  BY <1>4 DEF RunBegins, Prepare, Marked, Clear, Finish, Go, SupervisedUnlessLate, Orphans
<1>5. CASE Spawn /\ Deadline(stage) \notin expired
  BY <1>5 DEF Spawn, SupervisedUnlessLate, Orphans
<1>6. CASE ExitSeen \/ PullTimeoutSeen \/ Close
  BY <1>6 DEF ExitSeen, PullTimeoutSeen, Close, SupervisedUnlessLate, Orphans, Deadline
<1>7. CASE Uploaded \/ UploadFailed \/ Pack
  BY <1>7 DEF Uploaded, UploadFailed, Pack, Finish, Go, SupervisedUnlessLate, Orphans
<1>8. ASSUME NEW committed \in BOOLEAN, Conclude(committed)
      PROVE  Orphans' = {}
  BY <1>8 DEF Conclude, Finish, SupervisedUnlessLate, Orphans
<1>9. CASE UNCHANGED vars
  BY <1>9 DEF vars, progress, SupervisedUnlessLate, Orphans
<1> QED
  BY <1>1, <1>2, <1>3, <1>4, <1>5, <1>6, <1>7, <1>8, <1>9, Steps

LEMMA NextPassed == TypeOK /\ PassedInv /\ [Next]_vars => PassedInv'
<1> SUFFICES ASSUME TypeOK, PassedInv, [Next]_vars PROVE PassedInv'
  OBVIOUS
<1> USE DEF world, history, AtStage
<1>1. CASE World
  BY <1>1, WorldFacts DEF PassedInv
<1>2. CASE Ends
  BY <1>2, EndsFacts DEF PassedInv
<1>3. CASE GoesOnAfter
  <2>1. PICK r \in {"ok", "error"} \union Tokens :
          /\ GoesOn(r) /\ pc \in {"enter", "spawn", "wait", "join"}
          /\ r = "ok" => pc = "join" /\ stage \in started
          /\ started \subseteq started' /\ UNCHANGED marker
    BY <1>3, GoingOn
  <2>2. passed' = IF r = "ok" THEN passed \union {stage} ELSE passed
    BY <2>1 DEF GoesOn
  <2>3. "apply" \in passed' => "apply" \in started'
    BY <2>1, <2>2 DEF PassedInv
  <2>4. CASE PlanGoesOn(r)
    BY <2>1, <2>2, <2>3, <2>4 DEF PassedInv, PlanGoesOn, Go, Finish, PlanStages
  <2>5. CASE ApplyGoesOn(r)
    BY <2>1, <2>2, <2>3, <2>5 DEF PassedInv, ApplyGoesOn, Go, Finish, PlanStages, Tokens
  <2> QED
    BY <2>1, <2>4, <2>5 DEF GoesOn
<1>4. CASE RunBegins \/ Prepare \/ Marked \/ Clear
  BY <1>4 DEF RunBegins, Prepare, Marked, Clear, Finish, Go, PassedInv, PlanStages, Runs, TypeOK
<1>5. CASE Spawn /\ Deadline(stage) \notin expired
  BY <1>5 DEF Spawn, PassedInv
<1>6. CASE ExitSeen \/ PullTimeoutSeen \/ Close
  BY <1>6 DEF ExitSeen, PullTimeoutSeen, Close, PassedInv
<1>7. CASE Uploaded
  BY <1>7 DEF Uploaded, Finish, Go, PassedInv, PlanStages, Uploads, TypeOK, ApplyStages
<1>8. CASE UploadFailed \/ Pack
  BY <1>8 DEF UploadFailed, Pack, Finish, Go, PassedInv, PlanStages
<1>9. ASSUME NEW committed \in BOOLEAN, Conclude(committed)
      PROVE  PassedInv'
  BY <1>9 DEF Conclude, Finish, PassedInv
<1>10. CASE UNCHANGED vars
  BY <1>10 DEF vars, progress, PassedInv
<1> QED
  BY <1>1, <1>2, <1>3, <1>4, <1>5, <1>6, <1>7, <1>8, <1>9, <1>10, Steps

\* No outcome but those of the last upload and of Conclude is "finished".
LEMMA Statuses ==
  /\ Errored.status = "errored" /\ Errored.state = "none" /\ Errored.recovery = (phase = "apply")
  /\ \A st : /\ CanceledWith(st).status = "canceled" /\ CanceledWith(st).state = st
             /\ CanceledWith(st).recovery = (phase = "apply")
  /\ \A s, r, st : /\ Outcome(s, r, st).status = s /\ Outcome(s, r, st).recovery = r
                   /\ Outcome(s, r, st).state = st
BY DEF Errored, CanceledWith, Outcome

LEMMA NextWhole == TypeOK /\ PassedInv /\ Whole /\ [Next]_vars => Whole'
<1> SUFFICES ASSUME TypeOK, PassedInv, Whole, [Next]_vars PROVE Whole'
  OBVIOUS
<1> USE DEF world, history, AtStage
<1>1. CASE World
  BY <1>1, WorldFacts DEF Whole
<1>2. CASE Ends
  BY <1>2, EndsFacts, Statuses DEF Whole
<1>3. CASE GoesOnAfter
  <2>1. PICK r \in {"ok", "error"} \union Tokens :
          GoesOn(r) /\ pc \in {"enter", "spawn", "wait", "join"} /\ UNCHANGED <<phase, marker>>
    BY <1>3, GoingOn
  <2>2. answer' = answer \/ answer'.status # "finished"
    BY <2>1, GoesOnShape, Statuses DEF Failure
  <2>3. passed \subseteq passed'
    BY <2>1 DEF GoesOn
  <2> QED
    BY <2>1, <2>2, <2>3 DEF Whole
<1>4. CASE RunBegins \/ Prepare \/ Marked \/ Clear
  BY <1>4, Statuses DEF RunBegins, Prepare, Marked, Clear, Finish, Go, Whole
<1>5. CASE Spawn /\ Deadline(stage) \notin expired
  BY <1>5 DEF Spawn, Whole
<1>6. CASE ExitSeen \/ PullTimeoutSeen \/ Close
  BY <1>6 DEF ExitSeen, PullTimeoutSeen, Close, Whole
<1>7. CASE Uploaded
  <2>1. phase = "plan" /\ UNCHANGED <<phase, marker>> /\ stage \in PlanStages /\ passed' = passed \union {stage}
    BY <1>7 DEF Uploaded, Uploads, TypeOK, PlanStages, ApplyStages
  <2>2. CASE stage = "snapshot"
    BY <1>7, <2>1, <2>2 DEF Uploaded, PassedInv, PlanStages, Whole
  <2>3. CASE stage # "snapshot"
    BY <1>7, <2>1, <2>3 DEF Uploaded, Go, Whole, Uploads, TypeOK, PlanStages
  <2> QED
    BY <2>2, <2>3
<1>8. CASE UploadFailed \/ Pack
  BY <1>8, Statuses DEF UploadFailed, Pack, Finish, Go, Whole
<1>9. ASSUME NEW committed \in BOOLEAN, Conclude(committed)
      PROVE  Whole'
  <2>1. phase = "apply" /\ UNCHANGED <<phase, marker>>
    BY <1>9 DEF Conclude, TypeOK, PlanStages, ApplyStages
  <2>2. passed' = IF committed THEN passed \union {"artifact"} ELSE passed
    BY <1>9 DEF Conclude
  <2>3. answer'.status = "finished" => committed /\ ~trouble /\ ~failed
    BY <1>9, Statuses DEF Conclude, Finish, TypeOK
  <2>4. ~trouble /\ ~failed => "pull" \in passed /\ ("apply" \in passed \/ marker = "clean")
    BY <1>9 DEF Conclude, PassedInv
  <2> QED
    BY <2>1, <2>2, <2>3, <2>4 DEF Whole
<1>10. CASE UNCHANGED vars
  BY <1>10 DEF vars, progress, Whole
<1> QED
  BY <1>1, <1>2, <1>3, <1>4, <1>5, <1>6, <1>7, <1>8, <1>9, <1>10, Steps

LEMMA NextApplyOnce == TypeOK /\ ApplyOnce /\ [Next]_vars => ApplyOnce'
<1> SUFFICES ASSUME TypeOK, ApplyOnce, [Next]_vars PROVE ApplyOnce'
  OBVIOUS
<1> USE DEF world, history
<1>1. CASE World
  BY <1>1, WorldFacts DEF ApplyOnce
<1>2. CASE Ends
  BY <1>2, EndsFacts DEF ApplyOnce
<1>3. CASE GoesOnAfter
  <2>1. PICK r \in {"ok", "error"} \union Tokens :
          /\ GoesOn(r) /\ pc \in {"enter", "spawn", "wait", "join"} /\ UNCHANGED <<phase, marker>>
          /\ started' \subseteq started \union {stage}
          /\ stage = "apply" /\ started' # started => pc = "spawn"
    BY <1>3, GoingOn
  <2>2. pc' \in {"enter", "upload", "close"} /\ (stage' # "apply" \/ pc' = "close")
    BY <2>1, GoesOnShape
  <2>3. stage = "apply" => phase = "apply"
    BY <2>1 DEF TypeOK, PlanStages
  <2> QED
    BY <2>1, <2>2, <2>3 DEF ApplyOnce
<1>4. CASE RunBegins \/ Prepare \/ Marked \/ Clear
  BY <1>4 DEF RunBegins, Prepare, Marked, Clear, Finish, Go, ApplyOnce, Runs
<1>5. CASE Spawn /\ Deadline(stage) \notin expired
  BY <1>5 DEF Spawn, ApplyOnce, TypeOK, PlanStages
<1>6. CASE ExitSeen \/ PullTimeoutSeen \/ Close
  BY <1>6 DEF ExitSeen, PullTimeoutSeen, Close, ApplyOnce
<1>7. CASE Uploaded
  BY <1>7 DEF Uploaded, Finish, Go, ApplyOnce, Uploads, TypeOK
<1>8. CASE UploadFailed \/ Pack
  BY <1>8 DEF UploadFailed, Pack, Finish, Go, ApplyOnce
<1>9. ASSUME NEW committed \in BOOLEAN, Conclude(committed)
      PROVE  ApplyOnce'
  BY <1>9 DEF Conclude, Finish, ApplyOnce
<1>10. CASE UNCHANGED vars
  BY <1>10 DEF vars, progress, ApplyOnce
<1> QED
  BY <1>1, <1>2, <1>3, <1>4, <1>5, <1>6, <1>7, <1>8, <1>9, <1>10, Steps

LEMMA NextState ==
  TypeOK /\ SupervisedUnlessLate /\ ApplyOnce /\ StateInv /\ [Next]_vars => StateInv'
<1> SUFFICES ASSUME TypeOK, SupervisedUnlessLate, ApplyOnce, StateInv, [Next]_vars
             PROVE  StateInv'
  OBVIOUS
<1> USE DEF world, history
<1>1. CASE World
  BY <1>1, WorldFacts DEF StateInv
<1>2. CASE Ends
  BY <1>2, EndsFacts DEF StateInv
<1>3. CASE GoesOnAfter
  <2>1. PICK r \in {"ok", "error"} \union Tokens :
          /\ GoesOn(r) /\ pc \in {"enter", "spawn", "wait", "join"}
          /\ r = "ok" => pc = "join" /\ got' = got /\ UNCHANGED started
    BY <1>3, GoingOn
  <2>2. /\ pc' \in {"enter", "upload", "close"}
        /\ stage = "repull" => stage' = "repull"
        /\ pc' = "upload" /\ stage' = "artifact" /\ ~trouble' => r = "ok" /\ stage = "pull"
    BY <2>1, GoesOnShape
  <2>3. UNCHANGED expired
    BY <1>3 DEF GoesOnAfter, CanceledBefore, NotStarted, Spawn, CancelSeen, TimeoutSeen, Joined,
                ReaderFails
  <2>4. got' = "final" => "apply" \in started' \ alive'
    <3>1. CASE CanceledBefore \/ CancelSeen \/ TimeoutSeen \/ Joined \/ ReaderFails
      BY <3>1 DEF StateInv, CanceledBefore, CancelSeen, TimeoutSeen, Joined, ReaderFails
    <3>2. CASE NotStarted
      BY <3>2 DEF StateInv, NotStarted, Fresh
    <3>3. CASE Spawn
      BY <3>3 DEF StateInv, Spawn, Deliverable, Fresh, ApplyOnce
    <3> QED
      BY <1>3, <3>1, <3>2, <3>3 DEF GoesOnAfter
  <2> QED
    BY <2>1, <2>2, <2>3, <2>4 DEF StateInv
<1>4. CASE RunBegins \/ Prepare \/ Marked \/ Clear
  BY <1>4 DEF RunBegins, Prepare, Marked, Clear, Finish, Go, StateInv, ApplyOnce, Runs
<1>5. CASE Spawn /\ Deadline(stage) \notin expired
  <2>1. UNCHANGED <<stage, expired>> /\ pc = "spawn" /\ pc' = "wait"
    BY <1>5 DEF Spawn
  <2>2. got' = "final" => "apply" \in started' \ alive'
    BY <1>5 DEF StateInv, Spawn, Deliverable, Fresh, ApplyOnce
  <2>3. CASE stage = "pull"
    <3>1. alive = {}
      BY <1>5, <2>1, <2>3 DEF SupervisedUnlessLate, Orphans, StateInv, TypeOK, Deadline
    <3>2. "apply" \in started' => got' \in {"none", "final"}
      BY <1>5, <2>3, <3>1 DEF Spawn, Deliverable, Fresh
    <3> QED
      BY <2>1, <2>2, <3>2 DEF StateInv
  <2>4. CASE stage # "pull"
    BY <2>1, <2>2, <2>4 DEF StateInv
  <2> QED
    BY <2>3, <2>4
<1>6. CASE ExitSeen \/ PullTimeoutSeen \/ Close
  BY <1>6 DEF ExitSeen, PullTimeoutSeen, Close, StateInv
<1>7. CASE Uploaded
  BY <1>7 DEF Uploaded, Finish, Go, StateInv, Uploads, TypeOK, Commands, Streamed, Captured
<1>8. CASE UploadFailed \/ Pack
  BY <1>8 DEF UploadFailed, Pack, Finish, Go, StateInv
<1>9. ASSUME NEW committed \in BOOLEAN, Conclude(committed)
      PROVE  StateInv'
  BY <1>9 DEF Conclude, Finish, StateInv
<1>10. CASE UNCHANGED vars
  BY <1>10 DEF vars, progress, StateInv
<1> QED
  BY <1>1, <1>2, <1>3, <1>4, <1>5, <1>6, <1>7, <1>8, <1>9, <1>10, Steps

LEMMA NextAnswer ==
  TypeOK /\ PassedInv /\ ApplyOnce /\ StateInv /\ AnswerInv /\ TypeOK' /\ ApplyOnce' /\ StateInv'
    /\ [Next]_vars => AnswerInv'
<1> SUFFICES ASSUME TypeOK, PassedInv, ApplyOnce, StateInv, AnswerInv,
                    TypeOK', ApplyOnce', StateInv', [Next]_vars
             PROVE  AnswerInv'
  OBVIOUS
<1> USE DEF world, history
<1> DEFINE Ok(a) ==
      /\ a \in Answers
      /\ a.state = "final" => got' = "final"
      /\ phase' = "plan" => ~a.recovery /\ a.state = "none"
      /\ "apply" \in started' /\ a.state # "final" => a.recovery
      /\ phase' = "apply" /\ a.status = "canceled" => a.recovery
      /\ phase' = "apply" /\ a.status = "finished" =>
           /\ ~a.recovery /\ a.state # "none"
           /\ a.state = "final" \/ (marker' # "none" /\ "apply" \notin started')
<1>a. ASSUME UNCHANGED phase PROVE Ok(Errored) /\ Ok(CanceledWith("none"))
  <2>1. Errored \in Answers /\ CanceledWith("none") \in Answers
    BY AnswersType
  <2>2. phase \in {"plan", "apply"} /\ ("apply" \in started' => phase = "apply")
    BY <1>a DEF TypeOK, ApplyOnce
  <2> QED
    BY <1>a, <2>1, <2>2, Statuses
<1>b. ASSUME pc \notin {"close", "done"}, pc' = "close", Ok(answer') PROVE AnswerInv'
  BY <1>b DEF AnswerInv
<1>c. ASSUME pc \notin {"close", "done"}, pc' \notin {"close", "done"}, answer' = answer PROVE AnswerInv'
  BY <1>c DEF AnswerInv
<1> HIDE DEF Ok
<1>1. CASE World
  BY <1>1, WorldFacts DEF AnswerInv
<1>2. CASE Ends
  BY <1>2, <1>a, <1>b, EndsFacts
<1>3. CASE GoesOnAfter
  <2>1. PICK r \in {"ok", "error"} \union Tokens :
          /\ GoesOn(r) /\ pc \in {"enter", "spawn", "wait", "join"}
          /\ r = "ok" => got' = got
          /\ UNCHANGED phase
    BY <1>3, GoingOn
  <2>2. CASE pc' # "close"
    BY <1>c, <2>1, <2>2, GoesOnShape
  <2>3. CASE pc' = "close"
    <3>1. \/ answer' = Failure(r) \/ answer' = CanceledWith("none")
          \/ phase = "apply" /\ answer' = CanceledWith(got) /\ r = "ok"
      BY <2>1, <2>3, GoesOnShape
    <3>2. Ok(Failure(r)) /\ Ok(CanceledWith("none"))
      BY <1>a, <2>1 DEF Failure
    <3>3. ASSUME phase = "apply", r = "ok" PROVE Ok(CanceledWith(got))
      <4>1. CanceledWith(got) \in Answers
        BY AnswersType DEF TypeOK
      <4> QED
        BY <2>1, <3>3, <4>1, Statuses DEF Ok
    <3> QED
      BY <1>b, <2>1, <2>3, <3>1, <3>2, <3>3
  <2> QED
    BY <2>2, <2>3
<1>4. CASE RunBegins
  <2>1. CASE canceled # {}
    BY <1>4, <1>a, <1>b, <2>1 DEF RunBegins, Finish
  <2>2. CASE canceled = {}
    BY <1>4, <1>c, <2>2 DEF RunBegins
  <2> QED
    BY <2>1, <2>2
<1>5. CASE Prepare \/ Marked \/ Clear
  BY <1>5, <1>c DEF Prepare, Marked, Clear, Go
<1>6. CASE Spawn /\ Deadline(stage) \notin expired
  BY <1>6, <1>c DEF Spawn
<1>7. CASE ExitSeen \/ PullTimeoutSeen
  BY <1>7, <1>c DEF ExitSeen, PullTimeoutSeen
<1>8. CASE Close
  <2>1. "apply" \notin alive' /\ pc = "close" /\ pc' = "done"
        /\ UNCHANGED <<phase, marker, answer, got, started>>
    BY <1>8 DEF Close, Streamed
  <2> QED
    BY <2>1 DEF AnswerInv
<1>9. CASE Uploaded
  <2>1. phase = "plan" /\ UNCHANGED <<phase, got, started>> /\ pc = "upload"
        /\ stage \in {"json", "schemas", "snapshot"}
    BY <1>9 DEF Uploaded, Uploads, TypeOK, PlanStages, ApplyStages
  <2>2. CASE stage = "snapshot"
    <3>1. "apply" \notin started'
      BY <2>1 DEF ApplyOnce
    <3>2. Ok(Outcome("finished", FALSE, "none"))
      BY <2>1, <3>1 DEF Ok, Outcome, Answers
    <3> QED
      BY <1>9, <1>b, <2>1, <2>2, <3>2 DEF Uploaded, Finish
  <2>3. CASE stage # "snapshot"
    BY <1>9, <1>c, <2>1, <2>3 DEF Uploaded, Go, Commands, Captured
  <2> QED
    BY <2>2, <2>3
<1>10. CASE UploadFailed
  <2>1. CASE stage = "schemas"
    BY <1>10, <1>c, <2>1 DEF UploadFailed, Go
  <2>2. CASE stage # "schemas"
    BY <1>10, <1>a, <1>b, <2>2 DEF UploadFailed, Finish
  <2> QED
    BY <2>1, <2>2
<1>11. CASE Pack
  <2>1. CASE Packs(WorkDir, SnapshotPath)
    BY <1>11, <1>c, <2>1 DEF Pack, Go
  <2>2. CASE ~Packs(WorkDir, SnapshotPath)
    BY <1>11, <1>a, <1>b, <2>2 DEF Pack, Finish
  <2> QED
    BY <2>1, <2>2
<1>12. ASSUME NEW committed \in BOOLEAN, Conclude(committed)
       PROVE  AnswerInv'
  <2> DEFINE recovery == ~committed \/ trouble
             status == IF failed \/ recovery THEN "errored" ELSE "finished"
             state == IF committed THEN got ELSE "none"
  <2>1. /\ pc = "upload" /\ stage = "artifact" /\ pc' = "close"
        /\ answer' = Outcome(status, recovery, state)
        /\ committed => got # "none"
        /\ UNCHANGED <<phase, marker, got, started>>
    BY <1>12 DEF Conclude, Finish
  <2>2. phase = "apply"
    BY <2>1 DEF TypeOK, PlanStages, ApplyStages
  <2>3. answer' \in Answers /\ answer'.status = status /\ answer'.recovery = recovery
        /\ answer'.state = state
    <3>1. recovery \in BOOLEAN /\ status \in {"finished", "errored"} /\ state \in {"none", "early", "final"}
      BY DEF TypeOK
    <3> QED
      BY <2>1, <3>1 DEF Outcome, Answers
  <2>4. "apply" \in started /\ ~recovery => state = "final"
    BY <2>1 DEF StateInv, TypeOK
  <2>5. status = "finished" =>
          ("apply" \in started \/ marker # "none") /\ ~recovery /\ state # "none"
    BY <2>1 DEF PassedInv, AtStage, ApplyStages
  <2>6. state = "final" => got = "final"
    OBVIOUS
  <2>7. status # "canceled"
    OBVIOUS
  <2> HIDE DEF recovery, status, state
  <2>8. Ok(answer')
    BY <2>1, <2>2, <2>3, <2>4, <2>5, <2>6, <2>7 DEF Ok
  <2> QED
    BY <1>b, <2>1, <2>8
<1>13. CASE UNCHANGED vars
  BY <1>13 DEF vars, progress, AnswerInv
<1> QED
  BY <1>1, <1>2, <1>3, <1>4, <1>5, <1>6, <1>7, <1>8, <1>9, <1>10, <1>11, <1>12, <1>13, Steps

\* Where an apply leads that is canceled before its state is pulled.
LEMMA LateGoesOn ==
  ASSUME stage \in {"apply", "pull", "repull"}, NEW r \in {"ok", "error"} \union Tokens,
         stage = "pull" => r \in Tokens, GoesOn(r)
  PROVE  /\ stage' \in {"apply", "pull", "repull"}
         /\ stage' = "apply" => pc' = "close"
         /\ stage' = "pull" => pc' \in {"enter", "close"}
         /\ pc' = "close" => answer'.status = "canceled"
<1>1. ApplyGoesOn(r)
  BY DEF GoesOn, PlanGoesOn
<1> QED
  BY <1>1, Statuses DEF ApplyGoesOn, Go, Finish, Tokens, Commands, Streamed, Captured

LEMMA NextLate ==
  TypeOK /\ ApplyOnce /\ AnswerInv /\ LateInv /\ [Next]_vars => LateInv'
<1> SUFFICES ASSUME TypeOK, ApplyOnce, AnswerInv, LateInv, [Next]_vars PROVE LateInv'
  OBVIOUS
<1> USE DEF world, history
<1>1. CASE World
  BY <1>1, WorldFacts DEF LateInv
<1>2. CASE Ends
  <2>1. "apply" \notin late
    BY <1>2, EndsFacts DEF LateInv, ApplyOnce, TypeOK, Uploads
  <2> QED
    BY <1>2, <2>1, EndsFacts DEF LateInv
<1>3. CASE GoesOnAfter /\ ~Spawn
  <2>1. PICK r \in {"ok", "error"} \union Tokens :
          GoesOn(r) /\ pc \in {"enter", "spawn", "wait", "join"}
    BY <1>3, GoingOn
  <2>2. UNCHANGED <<canceled, late>>
    BY <1>3 DEF GoesOnAfter, CanceledBefore, NotStarted, CancelSeen, TimeoutSeen, Joined,
                ReaderFails
  <2>3. pc' \in {"enter", "upload", "close"}
    BY <2>1, GoesOnShape
  <2>4. ASSUME "apply" \in late
        PROVE  /\ stage' \in {"apply", "pull", "repull"}
               /\ stage' = "apply" => pc' = "close"
               /\ stage' = "pull" => pc' \in {"enter", "close"}
               /\ pc' = "close" => answer'.status = "canceled"
    <3>1. stage \in {"apply", "pull", "repull"} /\ (stage = "pull" => pc = "enter")
      BY <2>1, <2>4 DEF LateInv
    <3>2. PICK q \in {"ok", "error"} \union Tokens :
            GoesOn(q) /\ (stage = "pull" => q \in Tokens)
      <4>1. CASE stage = "pull"
        <5>1. GoesOn(Reason)
          BY <1>3, <3>1, <4>1
             DEF GoesOnAfter, CanceledBefore, NotStarted, CancelSeen, TimeoutSeen, Joined,
                 ReaderFails
        <5>2. Reason \in Tokens
          BY DEF Reason, Tokens
        <5> QED
          BY <5>1, <5>2
      <4> QED
        BY <2>1, <4>1
    <3> QED
      BY <3>1, <3>2, LateGoesOn
  <2> QED
    BY <2>2, <2>3, <2>4 DEF LateInv
<1>4. CASE RunBegins \/ Prepare \/ Marked
  <2>1. UNCHANGED <<canceled, late>> /\ pc' # "spawn"
    BY <1>4 DEF RunBegins, Prepare, Marked, Finish, Go
  <2>2. "apply" \notin late
    BY <1>4 DEF RunBegins, Prepare, Marked, Runs, ApplyOnce, TypeOK
  <2> QED
    BY <2>1, <2>2 DEF LateInv
<1>10. CASE Clear
  <2>1. UNCHANGED <<canceled, late, stage, answer>> /\ pc = "enter" /\ pc' = "spawn"
    BY <1>10 DEF Clear
  <2>2. stage = "repull" \/ late = {}
    BY <1>10 DEF Clear, Heeded, LateInv
  <2> QED
    BY <2>1, <2>2 DEF LateInv
<1>5. CASE Spawn
  <2>1. /\ pc = "spawn" /\ canceled' = canceled
        /\ late' = IF canceled = {} THEN late ELSE late \union {stage}
        /\ stage # "repull" => late = {}
        /\ "apply" \in late' => stage \in {"apply", "repull"}
    BY <1>5 DEF Spawn, LateInv
  <2>2. /\ canceled' = {} => late' = {}
        /\ \A c, d \in late' \ {"repull"} : c = d
    BY <2>1 DEF LateInv
  <2>3. CASE Deadline(stage) \notin expired
    <3>1. pc' = "wait" /\ stage' = stage
      BY <1>5, <2>3 DEF Spawn
    <3> QED
      BY <2>1, <2>2, <3>1 DEF LateInv
  <2>4. CASE Deadline(stage) \in expired
    <3>1. GoesOn("error")
      BY <1>5, <2>4 DEF Spawn
    <3>2. pc' \in {"enter", "upload", "close"}
      BY <2>1, <3>1, GoesOnShape
    <3> QED
      BY <2>1, <2>2, <3>1, <3>2, LateGoesOn DEF LateInv
  <2> QED
    BY <2>3, <2>4
<1>6. CASE ExitSeen \/ PullTimeoutSeen \/ Close
  BY <1>6 DEF ExitSeen, PullTimeoutSeen, Close, LateInv
<1>7. CASE Uploaded \/ UploadFailed \/ Pack
  BY <1>7 DEF Uploaded, UploadFailed, Pack, Finish, Go, LateInv, TypeOK, Uploads
<1>8. ASSUME NEW committed \in BOOLEAN, Conclude(committed)
      PROVE  LateInv'
  BY <1>8 DEF Conclude, Finish, LateInv
<1>9. CASE UNCHANGED vars
  BY <1>9 DEF vars, progress, LateInv
<1> QED
  BY <1>1, <1>2, <1>3, <1>4, <1>5, <1>6, <1>7, <1>8, <1>9, <1>10, Steps

-----------------------------------------------------------------------------
(* The theorems                                                              *)

LEMMA NextHolds == IInv /\ [Next]_vars => IInv'
<1> SUFFICES ASSUME IInv, [Next]_vars PROVE IInv'
  OBVIOUS
<1>1. TypeOK'
  BY NextType DEF IInv
<1>2. SupervisedUnlessLate'
  BY NextSupervised DEF IInv
<1>3. PassedInv' /\ Whole'
  BY NextPassed, NextWhole DEF IInv
<1>4. ApplyOnce' /\ StateInv'
  BY NextApplyOnce, NextState DEF IInv
<1>5. AnswerInv'
  BY <1>1, <1>4, NextAnswer DEF IInv
<1>6. LateInv'
  BY NextLate DEF IInv
<1> QED
  BY <1>1, <1>2, <1>3, <1>4, <1>5, <1>6 DEF IInv

\* Whatever the order of exits, signals, cancellations and deadlines, the runner
\* keeps its inductive invariant.
THEOREM ExecutionInvariant == Spec => []IInv
BY InitHolds, NextHolds, PTL DEF Spec

\* A run keeps to the stages of its phase and waits only for what it started.
THEOREM ExecutionTypeCorrect == Spec => []TypeOK
<1>1. IInv => TypeOK
  BY DEF IInv
<1> QED
  BY <1>1, ExecutionInvariant, PTL

\* No process of a run is left to itself before a deadline has passed.
THEOREM Supervised == Spec => []SupervisedUnlessLate
<1>1. IInv => SupervisedUnlessLate
  BY DEF IInv
<1> QED
  BY <1>1, ExecutionInvariant, PTL

\* A run that calls itself finished has every stage behind it; instead of the apply
\* command it may have found the marker of one (execute_phase).
THEOREM FinishedWhole == Spec => []FinishedIsWhole
<1>1. IInv => FinishedIsWhole
  BY DEF IInv, Whole, ApplyOnce, FinishedIsWhole
<1> QED
  BY <1>1, ExecutionInvariant, PTL

\* After a cancellation at most one command starts beside the recovery pull, the one
\* whose tokens had been asked for already, and an apply among them ends canceled.
THEOREM OneStartAfterCancel == Spec => []CancelLetsOneStart
<1>1. IInv => CancelLetsOneStart
  BY DEF IInv, LateInv, CancelLetsOneStart
<1> QED
  BY <1>1, ExecutionInvariant, PTL

-----------------------------------------------------------------------------
(* The refinement                                                            *)

\* The apply command and the answer, as RunContract sees them.
Change == CASE "apply" \notin started -> "none"
            [] "apply" \in alive -> "running"
            [] OTHER -> "ended"
Told == IF pc = "done" THEN answer ELSE NoAnswer

LEMMA ChangeIs ==
  ASSUME TypeOK, TypeOK'
  PROVE  /\ Change = IF "apply" \notin started THEN "none"
                     ELSE IF "apply" \in alive THEN "running" ELSE "ended"
         /\ Change' = IF "apply" \notin started' THEN "none"
                      ELSE IF "apply" \in alive' THEN "running" ELSE "ended"
<1>1. /\ "apply" \in alive => "apply" \in started
      /\ "apply" \in alive' => "apply" \in started'
  BY DEF TypeOK
<1>2. Change = IF "apply" \notin started THEN "none"
               ELSE IF "apply" \in alive THEN "running" ELSE "ended"
  BY <1>1 DEF Change
<1>3. Change' = IF "apply" \notin started' THEN "none"
                ELSE IF "apply" \in alive' THEN "running" ELSE "ended"
  BY <1>1 DEF Change
<1> QED
  BY <1>2, <1>3

\* The apply command goes on, ends, or is left alone.
LEMMA ChangeSteps ==
  ASSUME IInv, IInv', [Next]_vars, ~(Spawn /\ stage = "apply")
  PROVE  Change' = Change \/ (Change = "running" /\ Change' = "ended")
<1>1. ("apply" \in started' <=> "apply" \in started) /\ ("apply" \in alive' => "apply" \in alive)
  <2>1. CASE World
    BY <2>1, WorldFacts DEF IInv, world, history
  <2>2. CASE Ends
    BY <2>2, EndsFacts DEF IInv, world, history
  <2>3. CASE GoesOnAfter
    BY <2>3 DEF GoesOnAfter, CanceledBefore, NotStarted, Spawn, CancelSeen, TimeoutSeen, Joined,
                ReaderFails, world, history
  <2>4. CASE Spawn
    BY <2>4 DEF Spawn
  <2>5. ASSUME NEW committed \in BOOLEAN, Conclude(committed)
        PROVE  UNCHANGED <<started, alive>>
    BY <2>5 DEF Conclude, world, history
  <2>6. CASE RunBegins \/ Prepare \/ Marked \/ Clear \/ ExitSeen \/ PullTimeoutSeen
               \/ Uploaded \/ UploadFailed \/ Pack \/ Close \/ UNCHANGED vars
    BY <2>6 DEF RunBegins, Prepare, Marked, Clear, ExitSeen, PullTimeoutSeen, Uploaded,
                UploadFailed, Pack, Close, vars, world, history
  <2> QED
    BY <2>1, <2>2, <2>3, <2>4, <2>5, <2>6, Steps
<1>2. TypeOK /\ TypeOK'
  BY DEF IInv
<1>3. /\ Change = IF "apply" \notin started THEN "none"
                  ELSE IF "apply" \in alive THEN "running" ELSE "ended"
      /\ Change' = IF "apply" \notin started' THEN "none"
                   ELSE IF "apply" \in alive' THEN "running" ELSE "ended"
  BY <1>2, ChangeIs
<1>4. CASE "apply" \in alive' \/ "apply" \notin alive
  <2>1. "apply" \in alive' <=> "apply" \in alive
    BY <1>1, <1>4
  <2> QED
    BY <1>1, <1>3, <2>1
<1>5. CASE "apply" \notin alive' /\ "apply" \in alive
  BY <1>1, <1>2, <1>3, <1>5 DEF TypeOK
<1> QED
  BY <1>4, <1>5

\* The answer does not change before Close and after it.
LEMMA ToldSteps ==
  ASSUME IInv, [Next]_vars, ~Close
  PROVE  Told' = Told
<1>1. pc = "done" <=> pc' = "done"
  <2>1. CASE World
    BY <2>1, WorldFacts DEF IInv
  <2>2. CASE Ends
    BY <2>2, EndsFacts DEF IInv
  <2>3. CASE GoesOnAfter
    <3>1. PICK r \in {"ok", "error"} \union Tokens : GoesOn(r) /\ pc \in {"enter", "spawn", "wait", "join"}
      BY <2>3, GoingOn DEF IInv
    <3> QED
      BY <3>1, GoesOnShape DEF IInv
  <2>4. CASE \/ RunBegins \/ Prepare \/ Marked \/ Clear \/ ExitSeen \/ PullTimeoutSeen
             \/ Spawn /\ Deadline(stage) \notin expired
    BY <2>4 DEF RunBegins, Prepare, Marked, Clear, Spawn, ExitSeen, PullTimeoutSeen, Go, Finish
  <2>5. CASE Uploaded
    BY <2>5 DEF Uploaded, Go, Finish, IInv, TypeOK, Uploads
  <2>6. CASE UploadFailed \/ Pack \/ UNCHANGED vars
    BY <2>6 DEF UploadFailed, Pack, vars, progress, Go, Finish
  <2>7. ASSUME NEW committed \in BOOLEAN, Conclude(committed)
        PROVE  pc # "done" /\ pc' # "done"
    BY <2>7 DEF Conclude, Finish
  <2> QED
    BY <2>1, <2>2, <2>3, <2>4, <2>5, <2>6, <2>7, Steps
<1>2. pc = "done" => answer' = answer
  <2>1. CASE World
    BY <2>1, WorldFacts DEF IInv
  <2>2. CASE Ends
    BY <2>2, EndsFacts DEF IInv
  <2>3. CASE GoesOnAfter
    BY <2>3, GoingOn DEF IInv
  <2>4. CASE UNCHANGED vars
    BY <2>4 DEF vars, progress
  <2> QED
    BY <2>1, <2>2, <2>3, <2>4, Steps
       DEF RunBegins, Prepare, Marked, Clear, Spawn, ExitSeen, PullTimeoutSeen, Uploaded,
           UploadFailed, Pack, Conclude
<1> QED
  BY <1>1, <1>2 DEF Told

LEMMA SettingStays ==
  ASSUME IInv, [Next]_vars
  PROVE  phase' = phase /\ marker' = marker
<1> USE DEF IInv
<1>1. CASE World
  BY <1>1, WorldFacts
<1>2. CASE Ends
  BY <1>2, EndsFacts
<1>3. CASE GoesOnAfter
  BY <1>3, GoingOn
<1>4. ASSUME NEW committed \in BOOLEAN, Conclude(committed)
      PROVE  phase' = phase /\ marker' = marker
  BY <1>4 DEF Conclude
<1> QED
  BY <1>1, <1>2, <1>3, <1>4, Steps
     DEF RunBegins, Prepare, Marked, Clear, Spawn, ExitSeen, PullTimeoutSeen, Uploaded,
         UploadFailed, Pack, Close, vars

LEMMA ContractNext ==
  ASSUME IInv, IInv', [Next]_vars
  PROVE  [Contract!Next]_<<phase, marker # "none", Change, Told>>
<1>1. phase' = phase /\ marker' = marker /\ TypeOK /\ TypeOK'
  BY SettingStays DEF IInv
<1>2. CASE Close
  <2>1. Told = NoAnswer /\ Told' = answer /\ answer \in Answers /\ answer' = answer
    BY <1>2 DEF Close, Told, AnswerInv, IInv
  <2>2. Change' = Change /\ Change # "running"
    BY <1>1, <1>2, ChangeIs DEF Close, Streamed, world, history
  <2>3. /\ phase = "plan" => ~answer.recovery /\ answer.state = "none"
        /\ answer.state = "final" => Change = "ended"
        /\ Change # "none" /\ answer.state # "final" => answer.recovery
        /\ phase = "apply" /\ answer.status = "canceled" => answer.recovery
        /\ phase = "apply" /\ answer.status = "finished" =>
             /\ ~answer.recovery /\ answer.state # "none"
             /\ answer.state = "final" \/ (marker # "none" /\ Change = "none")
    BY <1>1, <1>2, ChangeIs DEF Close, IInv, AnswerInv, StateInv
  <2>4. Contract!Answer
    BY <1>1, <2>1, <2>2, <2>3
       DEF Contract!Answer, Contract!Truthful, Contract!Answers, Contract!NoAnswer, Answers,
           NoAnswer, Change, Told
  <2> QED
    BY <2>4 DEF Contract!Next
<1>3. CASE Spawn /\ stage = "apply"
  <2>1. Told = NoAnswer /\ Told' = Told
    BY <1>1, <1>3, ToldSteps DEF Told, Spawn, Close
  <2>2. phase = "apply" /\ marker = "none" /\ Change = "none" /\ Change' = "running"
    BY <1>1, <1>3, ChangeIs DEF Spawn, IInv, ApplyOnce, TypeOK, PlanStages
  <2>3. Contract!Begin
    BY <1>1, <2>1, <2>2 DEF Contract!Begin, Contract!NoAnswer, NoAnswer, Change, Told
  <2> QED
    BY <2>3 DEF Contract!Next
<1>4. CASE ~Close /\ ~(Spawn /\ stage = "apply")
  <2>1. Told' = Told
    BY <1>4, ToldSteps
  <2>2. Change' = Change \/ (Change = "running" /\ Change' = "ended")
    BY <1>4, ChangeSteps
  <2>3. CASE Change' = Change
    BY <1>1, <2>1, <2>3
  <2>4. CASE Change = "running" /\ Change' = "ended"
    <3>1. Contract!End
      BY <1>1, <2>1, <2>4 DEF Contract!End, Change, Told
    <3> QED
      BY <3>1 DEF Contract!Next
  <2> QED
    BY <2>2, <2>3, <2>4
<1> QED
  BY <1>2, <1>3, <1>4

LEMMA ContractInit == Init => Contract!Init
<1> SUFFICES ASSUME Init PROVE Contract!Init
  OBVIOUS
<1>1. phase \in {"plan", "apply"} /\ (marker # "none") \in BOOLEAN /\ Told = NoAnswer
  BY DEF Init, Told
<1>2. Change = "none"
  BY DEF Init, Change
<1> QED
  BY <1>1, <1>2 DEF Contract!Init, Contract!NoAnswer, NoAnswer, Change, Told

\* A run implements RunContract: one answer, after the end of the apply command, if
\* there was one, with the final state or the request to recover it.
THEOREM ImplementsContract == Spec => ImplementsRunContract
<1>1. IInv /\ IInv' /\ [Next]_vars => [Contract!Next]_<<phase, marker # "none", Change, Told>>
  BY ContractNext
<1> QED
  BY <1>1, ContractInit, ExecutionInvariant, PTL
     DEF Spec, ImplementsRunContract, Contract!Spec, Change, Told
=============================================================================
