-------------------------- MODULE JobLifecycle_proofs --------------------------
(***************************************************************************)
(* Proofs about JobLifecycle for every set of jobs, directories and          *)
(* fingerprints and every number of faults and repeated offers.             *)
(***************************************************************************)
EXTENDS JobLifecycle, TLAPS

USE ConstantsAssumption DEF ConstantsAssumption

-----------------------------------------------------------------------------
(* Types                                                                     *)

LEMMA InitType == Init => TypeOK
<1> SUFFICES ASSUME Init PROVE TypeOK
  OBVIOUS
<1> USE DEF Init
<1>1. NoRecord \in Records
  BY DEF NoRecord, Records
<1>2. DiskType
  BY <1>1 DEF DiskType, NoRecord
<1>3. HandType
  BY DEF HandType, Completions
<1>4. ServerType
  BY DEF ServerType
<1>5. CounterType
  <2>1. faults \in 0..MaxFaults /\ offers \in 0..MaxOffers
    OBVIOUS
  <2> QED
    BY <2>1 DEF CounterType
<1> QED
  BY <1>2, <1>3, <1>4, <1>5 DEF TypeOK

LEMMA CompletionsTyped ==
  /\ Restarted \in Completions
  /\ \A j \in Jobs : Refused(j) \in Completions /\ RunOutcomes(j) \subseteq Completions
  /\ NoCompletion \notin Completions
  BY DEF Completions, Restarted, Refused, RunOutcomes

LEMMA RecordFields ==
  ASSUME TypeOK, NEW j \in Jobs
  PROVE  /\ journal[j].workDir \in Dirs \union {NoDir}
         /\ journal[j].retain \in BOOLEAN
         /\ journal[j].completion \in Completions \union {NoCompletion}
         /\ AfterAck(j) \in {"done", "clean"}
  BY DEF TypeOK, DiskType, Records, AfterAck

\* Writing a record of the right shape keeps the journal well formed.
LEMMA UpdatedType ==
  ASSUME TypeOK, NEW j \in Jobs,
         NEW s \in {"executing", "completion_pending", "completion_acked", "cleanup_done"},
         NEW d \in Dirs \union {NoDir}, NEW r, r \in BOOLEAN,
         NEW c \in Completions \union {NoCompletion},
         c # NoCompletion <=> s = "completion_pending"
  PROVE  /\ Updated(j, s, d, r, c) \in [Jobs -> Records]
         /\ \A k \in Jobs : Updated(j, s, d, r, c)[k].completion # NoCompletion
                              <=> Updated(j, s, d, r, c)[k].state = "completion_pending"
<1> DEFINE rec == [state |-> s, fingerprint |-> journal[j].fingerprint, workDir |-> d,
                   retain |-> r, completion |-> c, expired |-> FALSE]
<1>1. rec \in Records /\ rec.completion = c /\ rec.state = s
  BY DEF TypeOK, DiskType, Records
<1> HIDE DEF rec
<1>2. Updated(j, s, d, r, c) = [journal EXCEPT ![j] = rec]
  BY DEF Updated, rec
<1> QED
  BY <1>1, <1>2 DEF TypeOK, DiskType

\* A record that only changes its state and has no completion to report.
LEMMA AdvancedType ==
  ASSUME TypeOK, NEW j \in Jobs,
         NEW s \in {"executing", "completion_acked", "cleanup_done"}
  PROVE  LET records == Updated(j, s, journal[j].workDir, journal[j].retain, NoCompletion)
         IN  /\ records \in [Jobs -> Records]
             /\ \A k \in Jobs : records[k].completion # NoCompletion
                                  <=> records[k].state = "completion_pending"
<1>1. /\ journal[j].workDir \in Dirs \union {NoDir}
      /\ journal[j].retain \in BOOLEAN
  BY RecordFields
<1>2. s # "completion_pending"
  OBVIOUS
<1> QED
  BY <1>1, <1>2, UpdatedType

LEMMA PruneType ==
  ASSUME TypeOK, NEW records \in [Jobs -> Records], Prune(records),
         \A k \in Jobs : records[k].completion # NoCompletion
                           <=> records[k].state = "completion_pending"
  PROVE  /\ journal' \in [Jobs -> Records]
         /\ \A k \in Jobs : journal'[k].completion # NoCompletion
                              <=> journal'[k].state = "completion_pending"
         /\ runs' \in [Jobs -> Nat]
         /\ told' \in [Jobs -> SUBSET (Completions \union {NoCompletion})]
<1>1. NoRecord \in Records /\ NoRecord.completion = NoCompletion /\ NoRecord.state = "absent"
  BY DEF NoRecord, Records
<1> QED
  BY <1>1 DEF Prune, TypeOK, ServerType, CounterType

LEMMA FaultType == ASSUME TypeOK, Fault PROVE faults' \in 0..MaxFaults
  BY DEF TypeOK, CounterType, Fault

LEMMA OrphanType == ASSUME TypeOK, Orphan PROVE orphans' \subseteq Dirs
  BY DEF TypeOK, CounterType, HandType, Orphan

LEMMA DropType ==
  ASSUME TypeOK, NEW p \in {"down", "register", "poll", "exit"}, Drop(p)
  PROVE  HandType'
  BY CompletionsTyped DEF Drop, Hold, HandType

\* Entering finish_journal_entry only moves the process.
LEMMA FinishEntryType ==
  ASSUME TypeOK, NEW j \in Jobs, FinishEntry(j)
  PROVE  HandType'
<1>1. CASE State(j) \in {"claimed", "executing"} /\ Hold("record", j, journal[j].workDir, Restarted, FALSE)
  BY <1>1, RecordFields, CompletionsTyped DEF HandType, Hold
<1>2. CASE State(j) = "completion_pending" /\ Hold("report", j, NoDir, NoCompletion, FALSE)
  BY <1>2 DEF HandType, Hold
<1>3. CASE State(j) = "completion_acked" /\ Hold(AfterAck(j), j, NoDir, NoCompletion, FALSE)
  BY <1>3, RecordFields DEF HandType, Hold
<1>4. CASE State(j) = "cleanup_done" /\ Drop("poll")
  BY <1>4, DropType
<1> QED
  BY <1>1, <1>2, <1>3, <1>4 DEF FinishEntry

LEMMA DieType ==
  ASSUME TypeOK, Die, faults' \in 0..MaxFaults
  PROVE  TypeOK'
<1>1. HandType'
  BY DropType DEF Die
<1>2. CounterType'
  BY OrphanType DEF Die, TypeOK, CounterType
<1> QED
  BY <1>1, <1>2 DEF Die, disk, server, TypeOK, DiskType, ServerType

\* The control plane accepts what the pending record holds.
LEMMA AcceptType ==
  ASSUME TypeOK, job \in Jobs, Accept, UNCHANGED pool
  PROVE  ServerType'
<1>1. journal[job].completion \in Completions \union {NoCompletion}
  BY RecordFields
<1> QED
  BY <1>1 DEF Accept, TypeOK, ServerType

\* Taking a job out of the pool.
LEMMA HandOutType ==
  ASSUME TypeOK, NEW j \in Jobs, NEW f \in Fingerprints, HandOut(j, f), UNCHANGED told
  PROVE  ServerType'
  BY DEF HandOut, TypeOK, ServerType

LEMMA NextType == TypeOK /\ [Next]_vars => TypeOK'
<1> SUFFICES ASSUME TypeOK, [Next]_vars PROVE TypeOK'
  OBVIOUS
<1> USE DEF disk, hand, process, server, history
<1>1. CASE Start
  <2>1. HandType'
    BY <1>1 DEF Start, TypeOK, HandType
  <2>2. Prune(journal)
    BY <1>1 DEF Start
  <2> QED
    BY <1>1, <2>1, <2>2, PruneType DEF Start, TypeOK, DiskType, ServerType, CounterType
<1>2. CASE Register
  BY <1>2 DEF Register, Advance, TypeOK, DiskType, HandType, ServerType, CounterType
<1>3. CASE Exit
  BY <1>3, DieType DEF Exit, TypeOK, CounterType
<1>4. CASE FinishFirst
  <2>1. HandType'
    BY <1>4, FinishEntryType DEF FinishFirst, Unfinished
  <2> QED
    BY <1>4, <2>1 DEF FinishFirst, TypeOK, DiskType, ServerType, CounterType
<1>5. ASSUME NEW j \in Jobs, NEW f \in Fingerprints, ClaimNew(j, f)
      PROVE  TypeOK'
  <2> DEFINE rec == [NoRecord EXCEPT !.state = "claimed", !.fingerprint = f]
  <2>1. rec \in Records /\ rec.completion = NoCompletion /\ rec.state = "claimed"
    BY DEF Records, NoRecord
  <2>2. journal' = [journal EXCEPT ![j] = rec]
    BY <1>5 DEF ClaimNew
  <2> HIDE DEF rec
  <2>3. DiskType'
    BY <1>5, <2>1, <2>2 DEF ClaimNew, TypeOK, DiskType
  <2>4. HandType'
    BY <1>5 DEF ClaimNew, Hold, HandType
  <2>5. ServerType'
    BY <1>5, HandOutType DEF ClaimNew
  <2> QED
    BY <1>5, <2>3, <2>4, <2>5 DEF ClaimNew, TypeOK, CounterType
<1>6. ASSUME NEW j \in Jobs, NEW f \in Fingerprints, ClaimKnown(j, f)
      PROVE  TypeOK'
  <2>1. ServerType'
    BY <1>6, HandOutType DEF ClaimKnown
  <2>2. HandType'
    <3>1. CASE State(j) = "claimed"
      BY <1>6, <3>1 DEF ClaimKnown, Hold, HandType
    <3>2. CASE State(j) # "claimed"
      BY <1>6, <3>2, FinishEntryType DEF ClaimKnown
    <3> QED
      BY <3>1, <3>2
  <2> QED
    BY <1>6, <2>1, <2>2 DEF ClaimKnown, TypeOK, DiskType, CounterType
<1>7. ASSUME NEW j \in Jobs, NEW f \in Fingerprints, ClaimConflict(j, f)
      PROVE  TypeOK'
  <2>1. ServerType'
    BY <1>7, HandOutType DEF ClaimConflict
  <2> QED
    BY <1>7, <2>1 DEF ClaimConflict, TypeOK, DiskType, HandType, CounterType
<1>8. CASE MarkExecuting
  <2>1. job \in Jobs
    BY <1>8 DEF MarkExecuting, Advance, TypeOK, HandType
  <2> DEFINE records == Updated(job, "executing", journal[job].workDir,
                                journal[job].retain, NoCompletion)
  <2>3. /\ records \in [Jobs -> Records]
        /\ \A k \in Jobs : records[k].completion # NoCompletion
                             <=> records[k].state = "completion_pending"
    BY <2>1, AdvancedType
  <2>4. journal' = records /\ dirs' = dirs
    BY <1>8 DEF MarkExecuting
  <2> HIDE DEF records
  <2>5. DiskType'
    BY <2>3, <2>4 DEF TypeOK, DiskType
  <2>6. HandType'
    BY <1>8 DEF MarkExecuting, Advance, TypeOK, HandType
  <2> QED
    BY <1>8, <2>5, <2>6 DEF MarkExecuting, TypeOK, ServerType, CounterType
<1>9. ASSUME NEW d \in Dirs, RunStart(d)
      PROVE  TypeOK'
  <2>1. HandType' /\ job \in Jobs
    BY <1>9 DEF RunStart, Hold, TypeOK, HandType
  <2>2. CounterType'
    BY <1>9, <2>1 DEF RunStart, TypeOK, CounterType
  <2> QED
    BY <1>9, <2>1, <2>2 DEF RunStart, TypeOK, DiskType, ServerType
<1>10. CASE RunRefused
  <2>1. HandType'
    BY <1>10, CompletionsTyped DEF RunRefused, Hold, TypeOK, HandType
  <2> QED
    BY <1>10, <2>1 DEF RunRefused, TypeOK, DiskType, ServerType, CounterType
<1>11. CASE RunEnd
  <2>1. HandType'
    BY <1>11, CompletionsTyped DEF RunEnd, Hold, TypeOK, HandType
  <2> QED
    BY <1>11, <2>1 DEF RunEnd, TypeOK, DiskType, ServerType, CounterType
<1>12. CASE RecordCompletion
  <2>1. job \in Jobs /\ completion \in Completions /\ completion.recovery \in BOOLEAN
        /\ dir \in Dirs \union {NoDir} /\ completion # NoCompletion
    BY <1>12 DEF RecordCompletion, TypeOK, HandType, Completions
  <2> DEFINE records == Updated(job, "completion_pending", dir, completion.recovery, completion)
  <2>2. records \in [Jobs -> Records]
        /\ \A k \in Jobs : records[k].completion # NoCompletion
                             <=> records[k].state = "completion_pending"
    <3>1. completion # NoCompletion <=> "completion_pending" = "completion_pending"
      BY <2>1
    <3> QED
      BY <2>1, <3>1, UpdatedType, SMTT(30)
  <2> HIDE DEF records
  <2>3. DiskType'
    BY <1>12, <2>2 DEF RecordCompletion, TypeOK, DiskType, records
  <2>4. HandType'
    BY <1>12 DEF RecordCompletion, Hold, TypeOK, HandType
  <2> QED
    BY <1>12, <2>3, <2>4 DEF RecordCompletion, TypeOK, ServerType, CounterType
<1>13. CASE Report
  <2>1. HandType' /\ job \in Jobs
    BY <1>13 DEF Report, Advance, TypeOK, HandType
  <2>2. ServerType'
    BY <1>13, <2>1, AcceptType DEF Report, TypeOK
  <2> QED
    BY <1>13, <2>1, <2>2 DEF Report, TypeOK, DiskType, CounterType
<1>14. CASE MarkAcked
  <2>1. job \in Jobs
    BY <1>14 DEF MarkAcked, Advance, TypeOK, HandType
  <2> DEFINE records == Updated(job, "completion_acked", journal[job].workDir,
                                journal[job].retain, NoCompletion)
  <2>3. records \in [Jobs -> Records]
        /\ \A k \in Jobs : records[k].completion # NoCompletion
                             <=> records[k].state = "completion_pending"
    BY <2>1, AdvancedType
  <2> HIDE DEF records
  <2>4. DiskType'
    BY <1>14, <2>3 DEF MarkAcked, TypeOK, DiskType, records
  <2>5. HandType'
    BY <1>14, <2>1, RecordFields DEF MarkAcked, Advance, TypeOK, HandType
  <2> QED
    BY <1>14, <2>4, <2>5 DEF MarkAcked, TypeOK, ServerType, CounterType
<1>15. CASE CleanUp
  BY <1>15 DEF CleanUp, Advance, TypeOK, DiskType, HandType, ServerType, CounterType
<1>16. CASE MarkCleanupDone
  <2> DEFINE records == Updated(job, "cleanup_done", journal[job].workDir,
                                journal[job].retain, NoCompletion)
  <2>1. job \in Jobs
    BY <1>16 DEF MarkCleanupDone, TypeOK, HandType
  <2>3. records \in [Jobs -> Records]
        /\ \A k \in Jobs : records[k].completion # NoCompletion
                             <=> records[k].state = "completion_pending"
    BY <2>1, AdvancedType
  <2>4. Prune(records)
    BY <1>16 DEF MarkCleanupDone
  <2>5. HandType'
    BY <1>16, DropType DEF MarkCleanupDone
  <2> HIDE DEF records
  <2>6. DiskType' /\ runs' \in [Jobs -> Nat] /\ told' \in [Jobs -> SUBSET (Completions \union {NoCompletion})]
    BY <1>16, <2>3, <2>4, PruneType DEF MarkCleanupDone, TypeOK, DiskType
  <2> QED
    BY <1>16, <2>5, <2>6 DEF MarkCleanupDone, TypeOK, ServerType, CounterType
<1>17. CASE Failure
  <2>1. CASE Crash
    BY <2>1, FaultType, DieType DEF Crash
  <2>2. CASE Signal
    BY <2>2, FaultType DEF Signal, TypeOK, DiskType, HandType, ServerType, CounterType
  <2>3. CASE RegisterRejected
    BY <2>3, FaultType, DieType DEF RegisterRejected
  <2>4. CASE ClaimUnauthorized
    BY <2>4, FaultType
       DEF ClaimUnauthorized, Advance, TypeOK, DiskType, HandType, ServerType, CounterType
  <2>5. ASSUME NEW j \in Jobs, NEW f \in Fingerprints, ClaimLost(j, f)
        PROVE  TypeOK'
    <3>1. ServerType'
      BY <2>5, HandOutType DEF ClaimLost
    <3> QED
      BY <2>5, <3>1, FaultType DEF ClaimLost, TypeOK, DiskType, HandType, CounterType
  <2>6. CASE ReportAnswerLost
    <3>1. HandType'
      BY <2>6, DropType DEF ReportAnswerLost
    <3>2. ServerType'
      BY <2>6, AcceptType DEF ReportAnswerLost, TypeOK, HandType
    <3> QED
      BY <2>6, <3>1, <3>2, FaultType DEF ReportAnswerLost, TypeOK, DiskType, CounterType
  <2>7. CASE ReportFailed
    <3>1. HandType'
      BY <2>7, DropType DEF ReportFailed
    <3> QED
      BY <2>7, <3>1, FaultType DEF ReportFailed, TypeOK, DiskType, ServerType, CounterType
  <2>8. CASE CleanUpFailed
    <3>1. HandType'
      BY <2>8, DropType DEF CleanUpFailed
    <3> QED
      BY <2>8, <3>1, FaultType DEF CleanUpFailed, TypeOK, DiskType, ServerType, CounterType
  <2>9. CASE WriteFailed
    <3>1. HandType'
      BY <2>9, DropType DEF WriteFailed
    <3> QED
      BY <2>9, <3>1, FaultType, OrphanType
         DEF WriteFailed, TypeOK, DiskType, ServerType, CounterType
  <2> QED
    BY <1>17, <2>1, <2>2, <2>3, <2>4, <2>5, <2>6, <2>7, <2>8, <2>9 DEF Failure
<1>18. ASSUME NEW j \in Jobs, NEW f \in Fingerprints, OfferAgain(j, f)
       PROVE  TypeOK'
  BY <1>18 DEF OfferAgain, TypeOK, DiskType, HandType, ServerType, CounterType
<1>19. ASSUME NEW j \in Jobs, Age(j)
       PROVE  TypeOK'
  <2> DEFINE rec == [journal[j] EXCEPT !.expired = TRUE]
  <2>1. /\ rec \in Records
        /\ rec.state = journal[j].state
        /\ rec.completion = journal[j].completion
    <3>1. journal[j] \in Records
      BY DEF TypeOK, DiskType
    <3> QED
      BY <3>1 DEF Records
  <2>2. journal' = [journal EXCEPT ![j] = rec]
    BY <1>19 DEF Age
  <2> HIDE DEF rec
  <2>3. DiskType'
    BY <1>19, <2>1, <2>2 DEF Age, TypeOK, DiskType
  <2> QED
    BY <1>19, <2>3 DEF Age, TypeOK, HandType, ServerType, CounterType
<1>20. CASE UNCHANGED vars
  BY <1>20 DEF vars, TypeOK, DiskType, HandType, ServerType, CounterType
<1> QED
  BY <1>1, <1>2, <1>3, <1>4, <1>5, <1>6, <1>7, <1>8, <1>9, <1>10, <1>11, <1>12, <1>13,
     <1>14, <1>15, <1>16, <1>17, <1>18, <1>19, <1>20
     DEF Next, Progress, Surroundings, IdlePoll

\* Every variable keeps its type, the hand is full exactly while an entry is
\* worked on, and a record holds a completion exactly while it is pending.
THEOREM TypeCorrect == Spec => []TypeOK
  BY InitType, NextType, PTL DEF Spec

-----------------------------------------------------------------------------
(* The inductive invariant                                                   *)

\* What a record's state says of the job's past.
RecordInv ==
  \A j \in Jobs :
    /\ State(j) \in {"absent", "claimed", "executing"} =>
         told[j] = {} /\ journal[j].workDir = NoDir /\ ~journal[j].retain
    /\ State(j) \in {"absent", "claimed"} => runs[j] = 0
    /\ runs[j] <= 1
    /\ State(j) = "completion_pending" => told[j] \subseteq {journal[j].completion}
    /\ State(j) \in {"completion_acked", "cleanup_done"} => told[j] # {}
    /\ \A a, b \in told[j] : a = b

\* What the place in poll_once says of the record in hand.
HandInv ==
  /\ pc = "mark" => State(job) = "claimed"
  /\ pc \in {"run", "running", "record"} => State(job) = "executing"
  /\ pc = "run" => runs[job] = 0
  /\ pc \in {"report", "ack"} => State(job) = "completion_pending"
  /\ pc = "ack" => told[job] # {}
  /\ pc \in {"clean", "done"} => State(job) = "completion_acked"
  /\ pc = "clean" => ~journal[job].retain
  /\ pc \in {"mark", "run"} => \A k \in Unfinished : k = job
  /\ dir # NoDir => pc \in {"running", "record"}

\* A record that names a run directory and may still use it.
Live(j) ==
  /\ journal[j].workDir # NoDir
  /\ journal[j].retain \/ State(j) \in {"completion_pending", "completion_acked"}

\* No two of the hand and the live records share a directory.
DirInv ==
  /\ dir # NoDir => dir \in dirs /\ \A k \in Jobs : Live(k) => journal[k].workDir # dir
  /\ \A j, k \in Jobs : Live(j) /\ Live(k) /\ j # k => journal[j].workDir # journal[k].workDir
  /\ pc = "done" /\ ~journal[job].retain => journal[job].workDir \notin dirs

IInv == TypeOK /\ RecordInv /\ HandInv /\ DirInv /\ DirectoryKept /\ DirectoriesAccounted

LEMMA UpdatedFields ==
  ASSUME TypeOK, NEW j \in Jobs, NEW s, NEW d, NEW r, NEW c,
         journal' = Updated(j, s, d, r, c)
  PROVE  /\ journal'[j].state = s
         /\ journal'[j].workDir = d
         /\ journal'[j].retain = r
         /\ journal'[j].completion = c
         /\ \A k \in Jobs : k # j => journal'[k] = journal[k]
  BY DEF Updated, TypeOK, DiskType

\* Pruning forgets a finished record with its history, and touches no other.
LEMMA PruneFields ==
  ASSUME NEW records \in [Jobs -> Records], Prune(records), NEW j \in Jobs
  PROVE  \/ /\ journal'[j] = records[j]
            /\ runs'[j] = runs[j]
            /\ told'[j] = told[j]
         \/ /\ records[j].state = "cleanup_done"
            /\ ~records[j].retain
            /\ journal'[j] = NoRecord
            /\ runs'[j] = 0
            /\ told'[j] = {}
  BY DEF Prune, Expired

LEMMA NoRecordFields ==
  /\ NoRecord.state = "absent"
  /\ NoRecord.workDir = NoDir
  /\ NoRecord.retain = FALSE
  BY DEF NoRecord

\* RecordInv looks at the journal, told and runs only.
LEMMA RecordFrame ==
  ASSUME RecordInv, UNCHANGED <<journal, told, runs>>
  PROVE  RecordInv'
  BY DEF RecordInv, State

DirsInv == DirInv /\ DirectoryKept /\ DirectoriesAccounted

\* A step that leaves the disk alone and keeps a directory in hand only as an
\* orphan or not at all.
LEMMA DirsFrame ==
  ASSUME DirsInv, UNCHANGED disk,
         \/ dir' = dir /\ orphans' = orphans
         \/ dir' = NoDir /\ Orphan
         \/ dir = NoDir /\ dir' = NoDir /\ orphans' = orphans,
         pc' = "done" => \/ pc = "done" /\ job' = job
                         \/ journal[job'].retain
  PROVE  DirsInv'
<1> USE DEF DirsInv, disk
<1>1. DirInv'
  BY DEF DirInv, Live, State
<1>2. DirectoryKept'
  BY DEF DirectoryKept, State
<1>3. DirectoriesAccounted'
  BY DEF DirectoriesAccounted, State, Orphan
<1> QED
  BY <1>1, <1>2, <1>3

\* What the steps that write a record write.
LEMMA WriteFacts ==
  ASSUME IInv, NEW s, NEW d, NEW r, NEW c, job \in Jobs,
         journal' = Updated(job, s, d, r, c)
  PROVE  /\ journal'[job].state = s
         /\ journal'[job].workDir = d
         /\ journal'[job].retain = r
         /\ journal'[job].completion = c
         /\ \A k \in Jobs : k # job => journal'[k] = journal[k]
  BY UpdatedFields DEF IInv

LEMMA NextRecord == IInv /\ [Next]_vars => RecordInv'
<1> SUFFICES ASSUME IInv, [Next]_vars PROVE RecordInv'
  OBVIOUS
<1> USE DEF disk, hand, process, server, history
<1>1. TypeOK /\ RecordInv /\ HandInv
  BY DEF IInv
<1>2. CASE UNCHANGED <<journal, told, runs>>
  BY <1>1, <1>2, RecordFrame
<1>3. CASE Start
  <2>1. journal \in [Jobs -> Records] /\ Prune(journal)
    BY <1>1, <1>3 DEF Start, TypeOK, DiskType
  <2> QED
    BY <1>1, <2>1, PruneFields, NoRecordFields DEF RecordInv, State
<1>4. ASSUME NEW j \in Jobs, NEW f \in Fingerprints, ClaimNew(j, f)
      PROVE  RecordInv'
  BY <1>1, <1>4 DEF ClaimNew, RecordInv, State, TypeOK, DiskType, NoRecord
<1>5. CASE MarkExecuting
  <2>1. job \in Jobs /\ State(job) = "claimed"
    BY <1>1, <1>5 DEF MarkExecuting, Advance, TypeOK, HandType, HandInv
  <2>2. /\ journal'[job].state = "executing"
        /\ journal'[job].workDir = journal[job].workDir
        /\ journal'[job].retain = journal[job].retain
        /\ \A k \in Jobs : k # job => journal'[k] = journal[k]
    BY <1>5, <2>1, WriteFacts DEF MarkExecuting
  <2>3. UNCHANGED <<told, runs>>
    BY <1>5 DEF MarkExecuting
  <2>4. ASSUME NEW j \in Jobs, j = job
        PROVE  /\ State(j)' = "executing" /\ journal'[j].workDir = NoDir /\ ~journal'[j].retain
               /\ told[j] = {} /\ runs[j] <= 1
    BY <1>1, <2>1, <2>2, <2>4 DEF RecordInv, State
  <2>5. ASSUME NEW j \in Jobs, j # job
        PROVE  journal'[j] = journal[j] /\ State(j)' = State(j)
    BY <2>2, <2>5 DEF State
  <2> QED
    BY <1>1, <2>3, <2>4, <2>5 DEF RecordInv
<1>6. ASSUME NEW d \in Dirs, RunStart(d)
      PROVE  RecordInv'
  <2>1. job \in Jobs /\ State(job) = "executing" /\ runs[job] = 0
    BY <1>1, <1>6 DEF RunStart, TypeOK, HandType, HandInv
  <2> QED
    BY <1>1, <1>6, <2>1 DEF RunStart, RecordInv, State, TypeOK, CounterType
<1>7. CASE RecordCompletion
  <2>1. job \in Jobs /\ State(job) = "executing"
    BY <1>1, <1>7 DEF RecordCompletion, TypeOK, HandType, HandInv
  <2>2. /\ journal'[job].state = "completion_pending"
        /\ \A k \in Jobs : k # job => journal'[k] = journal[k]
    BY <1>7, <2>1, WriteFacts DEF RecordCompletion
  <2> QED
    BY <1>1, <1>7, <2>1, <2>2 DEF RecordCompletion, RecordInv, State
<1>8. CASE pc = "report" /\ Accept /\ UNCHANGED <<journal, runs>>
  <2>1. job \in Jobs /\ State(job) = "completion_pending"
    BY <1>1, <1>8 DEF TypeOK, HandType, HandInv
  <2> QED
    BY <1>1, <1>8, <2>1 DEF Accept, RecordInv, State, TypeOK, ServerType
<1>9. CASE MarkAcked
  <2>1. job \in Jobs /\ State(job) = "completion_pending" /\ told[job] # {}
    BY <1>1, <1>9 DEF MarkAcked, Advance, TypeOK, HandType, HandInv
  <2>2. /\ journal'[job].state = "completion_acked"
        /\ \A k \in Jobs : k # job => journal'[k] = journal[k]
    BY <1>9, <2>1, WriteFacts DEF MarkAcked
  <2> QED
    BY <1>1, <1>9, <2>1, <2>2 DEF MarkAcked, RecordInv, State
<1>10. CASE MarkCleanupDone
  <2> DEFINE records == Updated(job, "cleanup_done", journal[job].workDir,
                                journal[job].retain, NoCompletion)
  <2>1. job \in Jobs /\ State(job) = "completion_acked"
    BY <1>1, <1>10 DEF MarkCleanupDone, TypeOK, HandType, HandInv
  <2>2. records \in [Jobs -> Records] /\ Prune(records)
    BY <1>1, <1>10, <2>1, RecordFields, UpdatedType DEF MarkCleanupDone
  <2>3. /\ records[job].state = "cleanup_done"
        /\ \A k \in Jobs : k # job => records[k] = journal[k]
    BY <1>1, <2>1 DEF Updated, TypeOK, DiskType
  <2> HIDE DEF records
  <2> QED
    BY <1>1, <2>1, <2>2, <2>3, PruneFields, NoRecordFields DEF RecordInv, State
<1>11. ASSUME NEW j \in Jobs, Age(j)
       PROVE  RecordInv'
  BY <1>1, <1>11 DEF Age, RecordInv, State, TypeOK, DiskType, Records
<1> QED
  BY <1>2, <1>3, <1>4, <1>5, <1>6, <1>7, <1>8, <1>9, <1>10, <1>11
     DEF Next, Progress, Failure, Surroundings, IdlePoll, vars, Register, Exit, Die,
         FinishFirst, ClaimKnown, ClaimConflict, RunRefused, RunEnd, Report, Advance, CleanUp,
         Crash, Signal, RegisterRejected, ClaimUnauthorized, ClaimLost, ReportAnswerLost,
         ReportFailed, CleanUpFailed, WriteFailed, OfferAgain

\* HandInv looks at the hand, the journal, told and runs only; an empty hand
\* satisfies it.
LEMMA EmptyHand ==
  ASSUME NEW p \in {"down", "register", "poll", "exit"}, Drop(p)
  PROVE  HandInv'
  BY DEF Drop, Hold, HandInv

\* Entering finish_journal_entry from poll_once.
LEMMA FinishEntryHand ==
  ASSUME IInv, NEW j \in Jobs, FinishEntry(j), State(j) # "claimed", UNCHANGED journal
  PROVE  HandInv' /\ dir' = NoDir /\ (pc' = "done" => journal[job'].retain)
<1>1. CASE State(j) \in {"claimed", "executing"} /\ Hold("record", j, journal[j].workDir, Restarted, FALSE)
  <2>1. journal[j].workDir = NoDir
    BY <1>1 DEF IInv, RecordInv
  <2> QED
    BY <1>1, <2>1 DEF Hold, HandInv, State
<1>2. CASE State(j) = "completion_pending" /\ Hold("report", j, NoDir, NoCompletion, FALSE)
  BY <1>2 DEF Hold, HandInv, State
<1>3. CASE State(j) = "completion_acked" /\ Hold(AfterAck(j), j, NoDir, NoCompletion, FALSE)
  BY <1>3 DEF Hold, HandInv, State, AfterAck
<1>4. CASE State(j) = "cleanup_done" /\ Drop("poll")
  BY <1>4, EmptyHand DEF Drop, Hold
<1> QED
  BY <1>1, <1>2, <1>3, <1>4 DEF FinishEntry

LEMMA NextHand == IInv /\ [Next]_vars => HandInv'
<1> SUFFICES ASSUME IInv, [Next]_vars PROVE HandInv'
  OBVIOUS
<1> USE DEF disk, hand, process, server, history
<1>1. TypeOK /\ RecordInv /\ HandInv
  BY DEF IInv
<1>2. CASE UNCHANGED <<journal, told, runs, pc, job, dir>>
  BY <1>1, <1>2 DEF HandInv, State, Unfinished
<1>3. CASE Start
  BY <1>1, <1>3 DEF Start, HandInv, TypeOK, HandType
<1>4. CASE Register
  BY <1>1, <1>4 DEF Register, Advance, HandInv
<1>5. CASE Die
  BY <1>5, EmptyHand DEF Die
<1>6. CASE FinishFirst
  BY <1>6, FinishEntryHand DEF FinishFirst, Unfinished, State
<1>7. ASSUME NEW j \in Jobs, NEW f \in Fingerprints, ClaimNew(j, f)
      PROVE  HandInv'
  <2>1. /\ journal'[j].state = "claimed"
        /\ \A k \in Jobs : k # j => journal'[k] = journal[k]
    BY <1>1, <1>7 DEF ClaimNew, TypeOK, DiskType, NoRecord
  <2>2. Unfinished = {}
    BY <1>7 DEF ClaimNew, HandOut, MayClaim
  <2> QED
    BY <1>7, <2>1, <2>2 DEF ClaimNew, Hold, HandInv, State, Unfinished
<1>8. ASSUME NEW j \in Jobs, NEW f \in Fingerprints, ClaimKnown(j, f)
      PROVE  HandInv'
  <2>1. CASE State(j) = "claimed"
    BY <1>8, <2>1 DEF ClaimKnown, HandOut, MayClaim, Hold, HandInv, State, Unfinished
  <2>2. CASE State(j) # "claimed"
    BY <1>8, <2>2, FinishEntryHand DEF ClaimKnown
  <2> QED
    BY <2>1, <2>2
<1>9. CASE ClaimUnauthorized
  BY <1>1, <1>9 DEF ClaimUnauthorized, Advance, HandInv
<1>10. CASE MarkExecuting
  <2>1. job \in Jobs /\ State(job) = "claimed" /\ dir = NoDir /\ \A k \in Unfinished : k = job
    BY <1>1, <1>10 DEF MarkExecuting, Advance, TypeOK, HandType, HandInv
  <2>2. /\ journal'[job].state = "executing"
        /\ \A k \in Jobs : k # job => journal'[k] = journal[k]
    BY <1>10, <2>1, WriteFacts DEF MarkExecuting
  <2>3. runs[job] = 0
    BY <1>1, <2>1 DEF RecordInv
  <2> QED
    BY <1>10, <2>1, <2>2, <2>3 DEF MarkExecuting, Advance, HandInv, State, Unfinished
<1>11. ASSUME NEW d \in Dirs, RunStart(d)
       PROVE  HandInv'
  BY <1>1, <1>11 DEF RunStart, Hold, HandInv, State
<1>12. CASE RunRefused
  BY <1>1, <1>12 DEF RunRefused, Hold, HandInv, State
<1>13. CASE RunEnd
  BY <1>1, <1>13 DEF RunEnd, Hold, HandInv, State
<1>14. CASE RecordCompletion
  <2>1. job \in Jobs
    BY <1>1, <1>14 DEF RecordCompletion, TypeOK, HandType
  <2>2. journal'[job].state = "completion_pending"
    BY <1>14, <2>1, WriteFacts DEF RecordCompletion
  <2> QED
    BY <1>14, <2>1, <2>2 DEF RecordCompletion, Hold, HandInv, State
<1>15. CASE Report
  <2>1. job \in Jobs /\ State(job) = "completion_pending" /\ dir = NoDir
    BY <1>1, <1>15 DEF Report, Advance, TypeOK, HandType, HandInv
  <2>2. told'[job] # {}
    BY <1>1, <1>15, <2>1 DEF Report, Accept, TypeOK, ServerType
  <2> QED
    BY <1>15, <2>1, <2>2 DEF Report, Advance, HandInv, State
<1>16. CASE MarkAcked
  <2>1. job \in Jobs /\ dir = NoDir /\ AfterAck(job) \in {"done", "clean"}
    BY <1>1, <1>16, RecordFields DEF MarkAcked, Advance, TypeOK, HandType, HandInv
  <2>2. /\ journal'[job].state = "completion_acked"
        /\ journal'[job].retain = journal[job].retain
    BY <1>16, <2>1, WriteFacts DEF MarkAcked
  <2> QED
    BY <1>16, <2>1, <2>2 DEF MarkAcked, Advance, AfterAck, HandInv, State
<1>17. CASE CleanUp
  BY <1>1, <1>17 DEF CleanUp, Advance, HandInv, State
<1>18. CASE \E p \in {"down", "register", "poll", "exit"} : Drop(p)
  BY <1>18, EmptyHand
<1>19. ASSUME NEW j \in Jobs, Age(j)
       PROVE  HandInv'
  <2>1. \A k \in Jobs : /\ journal'[k].state = journal[k].state
                        /\ journal'[k].retain = journal[k].retain
    BY <1>1, <1>19 DEF Age, TypeOK, DiskType, Records
  <2> QED
    BY <1>1, <1>19, <2>1 DEF Age, TypeOK, HandType, HandInv, State, Unfinished
<1>20. CASE MarkCleanupDone
  BY <1>20, <1>18 DEF MarkCleanupDone
<1> QED
  BY <1>2, <1>3, <1>4, <1>5, <1>6, <1>7, <1>8, <1>9, <1>10, <1>11, <1>12, <1>13, <1>14,
     <1>15, <1>16, <1>17, <1>18, <1>19, <1>20
     DEF Next, Progress, Failure, Surroundings, IdlePoll, vars, Exit, Crash, Signal,
         RegisterRejected, ClaimConflict, ClaimLost, ReportAnswerLost, ReportFailed,
         CleanUpFailed, WriteFailed, OfferAgain

\* A step that writes only records that name no live directory, before and after.
LEMMA RecordsFrame ==
  ASSUME TypeOK, TypeOK', DirsInv, dirs' = dirs, dir' = dir, orphans' = orphans,
         \A k \in Jobs : \/ /\ journal'[k].workDir = journal[k].workDir
                            /\ journal'[k].retain = journal[k].retain
                            /\ journal'[k].state = journal[k].state
                         \/ ~Live(k) /\ ~Live(k)' /\ (journal'[k].workDir = NoDir
                                                        \/ ~journal'[k].retain),
         pc' # "done"
  PROVE  DirsInv'
<1>1. \A k \in Jobs :
        \/ /\ journal'[k].workDir = journal[k].workDir
           /\ journal'[k].retain = journal[k].retain
           /\ State(k)' = State(k)
           /\ Live(k)' = Live(k)
        \/ ~Live(k) /\ ~Live(k)'
  BY DEF Live, State
<1>2. DirInv'
  BY <1>1 DEF DirsInv, DirInv, Live
<1>3. DirectoryKept'
  BY <1>1 DEF DirsInv, DirectoryKept, Live, State
<1>4. DirectoriesAccounted'
  <2> SUFFICES ASSUME NEW d \in dirs \ orphans, d # dir
               PROVE  \E k \in Jobs : journal'[k].workDir = d /\ Live(k)'
    BY DEF DirectoriesAccounted, Live, State
  <2>1. d # NoDir
    BY DEF TypeOK, DiskType
  <2>2. PICK k \in Jobs : journal[k].workDir = d /\ Live(k)
    BY <2>1 DEF DirsInv, DirectoriesAccounted, Live, State
  <2> QED
    BY <1>1, <2>2
<1> QED
  BY <1>2, <1>3, <1>4 DEF DirsInv

LEMMA NextDirs == IInv /\ [Next]_vars => DirsInv'
<1> SUFFICES ASSUME IInv, [Next]_vars PROVE DirsInv'
  OBVIOUS
<1> USE DEF disk, hand, process, server, history
<1>1. TypeOK /\ TypeOK' /\ RecordInv /\ HandInv /\ DirsInv
  BY NextType DEF IInv, DirsInv
<1>2. CASE UNCHANGED <<journal, dirs, dir, orphans, pc, job>>
  BY <1>1, <1>2, DirsFrame
<1>3. CASE Start
  <2>1. journal \in [Jobs -> Records] /\ Prune(journal)
    BY <1>1, <1>3 DEF Start, TypeOK, DiskType
  <2>2. \A k \in Jobs : \/ journal'[k] = journal[k]
                        \/ ~Live(k) /\ ~Live(k)' /\ journal'[k].workDir = NoDir
    BY <2>1, PruneFields, NoRecordFields DEF Live, State
  <2> QED
    BY <1>1, <1>3, <2>2, RecordsFrame DEF Start
<1>4. CASE UNCHANGED <<disk, dir, orphans>> /\ pc' \notin {"done"}
  BY <1>1, <1>4, DirsFrame
<1>5. CASE Die
  BY <1>1, <1>5, DirsFrame DEF Die, Drop, Hold
<1>6. CASE FinishFirst
  <2>1. dir = NoDir
    BY <1>1, <1>6 DEF FinishFirst, HandInv
  <2>2. dir' = NoDir /\ (pc' = "done" => journal[job'].retain)
    BY <1>6, FinishEntryHand DEF FinishFirst, Unfinished, State
  <2> QED
    BY <1>1, <1>6, <2>1, <2>2, DirsFrame DEF FinishFirst
<1>7. ASSUME NEW j \in Jobs, NEW f \in Fingerprints, ClaimNew(j, f)
      PROVE  DirsInv'
  <2>1. /\ journal'[j].state = "claimed"
        /\ journal'[j].workDir = NoDir
        /\ \A k \in Jobs : k # j => journal'[k] = journal[k]
    BY <1>1, <1>7 DEF ClaimNew, TypeOK, DiskType, NoRecord
  <2>2. journal[j].workDir = NoDir
    BY <1>1, <1>7 DEF ClaimNew, RecordInv
  <2>3. dir = NoDir /\ dir' = NoDir /\ pc' = "mark"
    BY <1>1, <1>7 DEF ClaimNew, HandOut, MayClaim, HandInv, Hold
  <2>4. \A k \in Jobs : \/ journal'[k] = journal[k]
                        \/ ~Live(k) /\ ~Live(k)' /\ journal'[k].workDir = NoDir
    BY <2>1, <2>2 DEF Live
  <2> QED
    BY <1>1, <1>7, <2>3, <2>4, RecordsFrame DEF ClaimNew
<1>8. ASSUME NEW j \in Jobs, NEW f \in Fingerprints, ClaimKnown(j, f)
      PROVE  DirsInv'
  <2>1. dir = NoDir
    BY <1>1, <1>8 DEF ClaimKnown, HandOut, MayClaim, HandInv
  <2>2. dir' = NoDir /\ (pc' = "done" => journal[job'].retain)
    <3>1. CASE State(j) = "claimed"
      BY <1>8, <3>1 DEF ClaimKnown, Hold
    <3>2. CASE State(j) # "claimed"
      BY <1>8, <3>2, FinishEntryHand DEF ClaimKnown
    <3> QED
      BY <3>1, <3>2
  <2> QED
    BY <1>1, <1>8, <2>1, <2>2, DirsFrame DEF ClaimKnown
<1>9. CASE MarkExecuting
  <2>1. job \in Jobs /\ State(job) = "claimed"
    BY <1>1, <1>9 DEF MarkExecuting, Advance, TypeOK, HandType, HandInv
  <2>2. /\ journal'[job].workDir = journal[job].workDir
        /\ \A k \in Jobs : k # job => journal'[k] = journal[k]
    BY <1>9, <2>1, WriteFacts DEF MarkExecuting
  <2>3. journal[job].workDir = NoDir
    BY <1>1, <2>1 DEF RecordInv
  <2>4. \A k \in Jobs : \/ journal'[k] = journal[k]
                        \/ ~Live(k) /\ ~Live(k)' /\ journal'[k].workDir = NoDir
    BY <2>2, <2>3 DEF Live
  <2> QED
    BY <1>1, <1>9, <2>4, RecordsFrame DEF MarkExecuting, Advance
\* The new directory is not on disk, and every live record's directory is.
<1>10. ASSUME NEW d \in Dirs, RunStart(d)
       PROVE  DirsInv'
  <2>1. /\ dirs' = dirs \union {d} /\ d \notin dirs /\ d # NoDir
        /\ dir = NoDir /\ dir' = d /\ pc = "run" /\ pc' = "running"
        /\ UNCHANGED <<journal, orphans>>
    BY <1>1, <1>10 DEF RunStart, Hold, HandInv
  <2>2. \A k \in Jobs : Live(k) => journal[k].workDir # d
    <3> SUFFICES ASSUME NEW k \in Jobs, Live(k) PROVE journal[k].workDir \in dirs
      BY <2>1
    <3>1. CASE State(k) = "completion_pending" \/ journal[k].retain
      BY <1>1, <3>1 DEF DirsInv, DirectoryKept, Live
    <3>2. CASE State(k) = "completion_acked" /\ ~journal[k].retain
      BY <1>1, <2>1, <3>2 DEF HandInv, Unfinished
    <3> QED
      BY <3>1, <3>2 DEF Live
  <2>3. DirInv'
    BY <1>1, <2>1, <2>2 DEF DirsInv, DirInv, Live, State
  <2>4. DirectoryKept'
    BY <1>1, <2>1 DEF DirsInv, DirectoryKept, State
  <2>5. DirectoriesAccounted'
    <3>1. \A e \in dirs' \ orphans' : e = d \/ (e \in dirs \ orphans /\ e # dir)
      BY <1>1, <2>1 DEF TypeOK, DiskType
    <3> QED
      BY <1>1, <2>1, <3>1 DEF DirsInv, DirectoriesAccounted, State
  <2> QED
    BY <2>3, <2>4, <2>5 DEF DirsInv
\* The directory passes from the hand to the record.
<1>11. CASE RecordCompletion
  <2>1. /\ job \in Jobs /\ State(job) = "executing" /\ dir' = NoDir /\ pc' = "report"
        /\ UNCHANGED <<dirs, orphans>>
    BY <1>1, <1>11 DEF RecordCompletion, Hold, TypeOK, HandType, HandInv
  <2>2. /\ journal'[job].workDir = dir
        /\ journal'[job].state = "completion_pending"
        /\ \A k \in Jobs : k # job => journal'[k] = journal[k]
    BY <1>11, <2>1, WriteFacts DEF RecordCompletion
  <2>3. ~Live(job) /\ \A k \in Jobs : k # job => Live(k)' = Live(k)
    BY <1>1, <2>1, <2>2 DEF Live, State, RecordInv
  <2>4. DirInv'
    <3>1. ASSUME NEW j \in Jobs, NEW k \in Jobs, Live(j)', Live(k)', j # k
          PROVE  journal'[j].workDir # journal'[k].workDir
      <4>1. CASE j # job /\ k # job
        BY <1>1, <2>2, <2>3, <3>1, <4>1 DEF DirsInv, DirInv
      <4>2. CASE j = job \/ k = job
        BY <1>1, <2>2, <2>3, <3>1, <4>2 DEF DirsInv, DirInv, Live
      <4> QED
        BY <4>1, <4>2
    <3> QED
      BY <2>1, <3>1 DEF DirInv
  <2>5. DirectoryKept'
    BY <1>1, <2>1, <2>2 DEF DirsInv, DirInv, DirectoryKept, State
  <2>6. DirectoriesAccounted'
    <3> SUFFICES ASSUME NEW e \in dirs \ orphans
                 PROVE  \E k \in Jobs : journal'[k].workDir = e /\ Live(k)'
      BY <2>1 DEF DirectoriesAccounted, Live, State
    <3>1. e # NoDir
      BY <1>1 DEF TypeOK, DiskType
    <3>2. CASE e = dir
      BY <2>1, <2>2, <3>1, <3>2 DEF Live, State
    <3>3. CASE e # dir
      BY <1>1, <2>2, <2>3, <3>1, <3>3 DEF DirsInv, DirectoriesAccounted, Live
    <3> QED
      BY <3>2, <3>3
  <2> QED
    BY <2>4, <2>5, <2>6 DEF DirsInv
<1>12. CASE MarkAcked
  <2>1. /\ job \in Jobs /\ State(job) = "completion_pending" /\ pc' = AfterAck(job)
        /\ UNCHANGED <<dirs, orphans, dir, job>>
    BY <1>1, <1>12 DEF MarkAcked, Advance, TypeOK, HandType, HandInv
  <2>2. /\ journal'[job].workDir = journal[job].workDir
        /\ journal'[job].retain = journal[job].retain
        /\ journal'[job].state = "completion_acked"
        /\ \A k \in Jobs : k # job => journal'[k] = journal[k]
    BY <1>12, <2>1, WriteFacts DEF MarkAcked
  <2>3. \A k \in Jobs : /\ Live(k)' = Live(k)
                        /\ journal'[k].workDir = journal[k].workDir
                        /\ journal'[k].retain = journal[k].retain
                        /\ State(k)' = "completion_pending" => State(k) = "completion_pending"
    BY <2>1, <2>2 DEF Live, State
  <2>4. pc' = "done" => journal'[job].retain
    BY <2>1, <2>2 DEF AfterAck
  <2>5. DirInv'
    BY <1>1, <2>1, <2>3, <2>4 DEF DirsInv, DirInv
  <2>6. DirectoryKept'
    BY <1>1, <2>1, <2>3 DEF DirsInv, DirectoryKept
  <2>7. DirectoriesAccounted'
    <3> SUFFICES ASSUME NEW e \in dirs \ orphans, e # dir
                 PROVE  \E k \in Jobs : journal'[k].workDir = e /\ Live(k)'
      BY <2>1 DEF DirectoriesAccounted, Live, State
    <3>1. e # NoDir
      BY <1>1 DEF TypeOK, DiskType
    <3> QED
      BY <1>1, <2>3, <3>1 DEF DirsInv, DirectoriesAccounted, Live
  <2> QED
    BY <2>5, <2>6, <2>7 DEF DirsInv
\* No other live record shares the directory that goes.
<1>13. CASE CleanUp
  <2>1. /\ job \in Jobs /\ State(job) = "completion_acked" /\ ~journal[job].retain
        /\ dir = NoDir /\ pc' = "done" /\ dirs' = dirs \ {journal[job].workDir}
        /\ UNCHANGED <<journal, orphans, dir, job>>
    BY <1>1, <1>13 DEF CleanUp, Advance, TypeOK, HandType, HandInv
  <2>2. DirInv'
    BY <1>1, <2>1 DEF DirsInv, DirInv, Live, State
  <2>3. DirectoryKept'
    BY <1>1, <2>1 DEF DirsInv, DirInv, DirectoryKept, Live, State
  <2>4. DirectoriesAccounted'
    BY <1>1, <2>1 DEF DirsInv, DirectoriesAccounted, State
  <2> QED
    BY <2>2, <2>3, <2>4 DEF DirsInv
\* The finished record names no directory on disk, or one that is kept.
<1>14. CASE MarkCleanupDone
  <2> DEFINE records == Updated(job, "cleanup_done", journal[job].workDir,
                                journal[job].retain, NoCompletion)
  <2>1. /\ job \in Jobs /\ State(job) = "completion_acked" /\ dir = NoDir /\ dir' = NoDir
        /\ pc = "done" /\ pc' # "done" /\ UNCHANGED <<dirs, orphans>>
    BY <1>1, <1>14 DEF MarkCleanupDone, Drop, Hold, TypeOK, HandType, HandInv
  <2>2. records \in [Jobs -> Records] /\ Prune(records)
    BY <1>1, <1>14, <2>1, RecordFields, UpdatedType DEF MarkCleanupDone
  <2>3. /\ records[job].state = "cleanup_done"
        /\ records[job].workDir = journal[job].workDir
        /\ records[job].retain = journal[job].retain
        /\ \A k \in Jobs : k # job => records[k] = journal[k]
    BY <1>1, <2>1 DEF Updated, TypeOK, DiskType
  <2> HIDE DEF records
  <2>4. \A k \in Jobs : k # job =>
          \/ journal'[k] = journal[k]
          \/ ~Live(k) /\ journal'[k] = NoRecord
    BY <2>2, <2>3, PruneFields DEF Live, State
  <2>5. \/ /\ journal'[job].state = "cleanup_done"
           /\ journal'[job].workDir = journal[job].workDir
           /\ journal'[job].retain = journal[job].retain
        \/ ~journal[job].retain /\ journal'[job] = NoRecord
    BY <2>1, <2>2, <2>3, PruneFields
  <2>6. \A k \in Jobs : \/ /\ journal'[k].workDir = journal[k].workDir
                           /\ journal'[k].retain = journal[k].retain
                           /\ State(k)' = "completion_pending" => State(k) = "completion_pending"
                           /\ Live(k)' => Live(k)
                        \/ ~Live(k)' /\ journal'[k].workDir = NoDir
    BY <2>1, <2>4, <2>5, NoRecordFields DEF Live, State
  <2>7. DirInv'
    BY <1>1, <2>1, <2>6 DEF DirsInv, DirInv
  <2>8. DirectoryKept'
    BY <1>1, <2>1, <2>6 DEF DirsInv, DirectoryKept
  <2>9. DirectoriesAccounted'
    <3> SUFFICES ASSUME NEW e \in dirs \ orphans
                 PROVE  \E k \in Jobs : journal'[k].workDir = e /\ Live(k)'
      BY <2>1 DEF DirectoriesAccounted, Live, State
    <3>1. e # NoDir /\ e # dir
      BY <1>1, <2>1 DEF TypeOK, DiskType
    <3>2. PICK k \in Jobs : journal[k].workDir = e /\ Live(k)
      BY <1>1, <3>1 DEF DirsInv, DirectoriesAccounted, Live
    <3>3. CASE k = job
      BY <1>1, <2>1, <2>5, <3>1, <3>2, <3>3 DEF DirsInv, DirInv, Live
    <3>4. CASE k # job
      BY <2>4, <3>2, <3>4 DEF Live, State
    <3> QED
      BY <3>3, <3>4
  <2> QED
    BY <2>7, <2>8, <2>9 DEF DirsInv
<1>15. ASSUME NEW j \in Jobs, Age(j)
       PROVE  DirsInv'
  <2>1. \A k \in Jobs : /\ journal'[k].workDir = journal[k].workDir
                        /\ journal'[k].retain = journal[k].retain
                        /\ journal'[k].state = journal[k].state
    BY <1>1, <1>15 DEF Age, TypeOK, DiskType, Records
  <2>2. CASE pc = "done"
    <3>1. /\ dirs' = dirs /\ dir' = dir /\ orphans' = orphans /\ pc' = pc /\ job' = job
          /\ job \in Jobs
      BY <1>1, <1>15, <2>2 DEF Age, TypeOK, HandType
    <3>2. \A k \in Jobs : State(k)' = State(k) /\ Live(k)' = Live(k)
      BY <2>1 DEF State, Live
    <3>3. DirInv'
      <4>1. ASSUME NEW i \in Jobs, NEW k \in Jobs, Live(i)', Live(k)', i # k
            PROVE  journal'[i].workDir # journal'[k].workDir
        BY <1>1, <2>1, <3>2, <4>1 DEF DirsInv, DirInv
      <4> QED
        BY <1>1, <2>1, <3>1, <3>2, <4>1 DEF DirsInv, DirInv
    <3>4. DirectoryKept'
      BY <1>1, <2>1, <3>1, <3>2 DEF DirsInv, DirectoryKept
    <3>5. DirectoriesAccounted'
      BY <1>1, <2>1, <3>1, <3>2 DEF DirsInv, DirectoriesAccounted
    <3> QED
      BY <3>3, <3>4, <3>5 DEF DirsInv
  <2>3. CASE pc # "done"
    BY <1>1, <1>15, <2>1, <2>3, RecordsFrame DEF Age
  <2> QED
    BY <2>2, <2>3
\* An entry is dropped in poll_once; a directory in hand becomes an orphan.
<1>16. CASE UNCHANGED disk /\ \E p \in {"poll", "register"} : Drop(p) /\
              (Orphan \/ (dir = NoDir /\ UNCHANGED orphans))
  BY <1>1, <1>16, DirsFrame DEF Drop, Hold
<1>17. CASE ReportAnswerLost \/ ReportFailed \/ CleanUpFailed
  <2>1. dir = NoDir
    BY <1>1, <1>17 DEF ReportAnswerLost, ReportFailed, CleanUpFailed, HandInv
  <2> QED
    BY <1>16, <1>17, <2>1 DEF ReportAnswerLost, ReportFailed, CleanUpFailed
<1>18. CASE WriteFailed
  BY <1>1, <1>18, DirsFrame DEF WriteFailed, Drop, Hold
<1>19. CASE Register \/ ClaimUnauthorized \/ Report
  BY <1>4, <1>19 DEF Register, ClaimUnauthorized, Report, Advance
<1>20. CASE RunRefused \/ RunEnd
  <2>1. pc = "run" => dir = NoDir
    BY <1>1 DEF HandInv
  <2> QED
    BY <1>4, <1>20, <2>1 DEF RunRefused, RunEnd, Hold
<1>21. CASE Signal \/ IdlePoll \/ UNCHANGED vars
  BY <1>2, <1>21 DEF Signal, IdlePoll, vars
<1>22. ASSUME NEW j \in Jobs, NEW f \in Fingerprints,
              ClaimConflict(j, f) \/ ClaimLost(j, f) \/ OfferAgain(j, f)
       PROVE  DirsInv'
  BY <1>2, <1>22 DEF ClaimConflict, ClaimLost, OfferAgain
<1> QED
  BY <1>3, <1>5, <1>6, <1>7, <1>8, <1>9, <1>10, <1>11, <1>12, <1>13, <1>14, <1>15, <1>17,
     <1>18, <1>19, <1>20, <1>21, <1>22
     DEF Next, Progress, Failure, Surroundings, Exit, Crash, RegisterRejected

LEMMA InitInv == Init => IInv
<1> SUFFICES ASSUME Init PROVE IInv
  OBVIOUS
<1>1. \A j \in Jobs : /\ State(j) = "absent" /\ journal[j].workDir = NoDir /\ ~journal[j].retain
                      /\ told[j] = {} /\ runs[j] = 0
  BY DEF Init, State, NoRecord
<1>2. RecordInv
  <2>1. \A j \in Jobs : runs[j] <= 1 /\ \A a, b \in told[j] : a = b
    BY <1>1
  <2> QED
    BY <1>1, <2>1 DEF RecordInv
<1>3. HandInv
  BY DEF Init, HandInv
<1>4. DirInv
  BY <1>1 DEF Init, DirInv, Live
<1>5. DirectoryKept /\ DirectoriesAccounted
  BY <1>1 DEF Init, DirectoryKept, DirectoriesAccounted
<1> QED
  BY InitType, <1>2, <1>3, <1>4, <1>5 DEF IInv

LEMMA NextInv == IInv /\ [Next]_vars => IInv'
  BY NextType, NextRecord, NextHand, NextDirs DEF IInv, DirsInv

LEMMA Invariance == Spec => []IInv
  BY InitInv, NextInv, PTL DEF Spec

\* No job the journal remembers is executed twice, however often it is handed
\* out and wherever the process dies.
THEOREM NeverRunTwice == Spec => []AtMostOneRun
<1>1. IInv => AtMostOneRun
  BY DEF IInv, RecordInv, AtMostOneRun
<1> QED
  BY <1>1, Invariance, PTL

\* Resends after lost answers and restarts repeat one outcome per job.
THEOREM ToldOneOutcome == Spec => []OneOutcomeTold
<1>1. IInv => OneOutcomeTold
  BY DEF IInv, RecordInv, OneOutcomeTold
<1> QED
  BY <1>1, Invariance, PTL

\* The journal lets go of an outcome only after the control plane accepted it.
THEOREM ToldBeforeAcked == Spec => []AckedWasTold
<1>1. IInv => AckedWasTold
  BY DEF IInv, RecordInv, AckedWasTold
<1> QED
  BY <1>1, Invariance, PTL

\* A run directory stays until its outcome is acknowledged, and for good when
\* it holds state to recover.
THEOREM DirectoryStays == Spec => []DirectoryKept
<1>1. IInv => DirectoryKept
  BY DEF IInv
<1> QED
  BY <1>1, Invariance, PTL

\* Except for executions cut short, no run directory leaks.
THEOREM NoOtherLeak == Spec => []DirectoriesAccounted
<1>1. IInv => DirectoriesAccounted
  BY DEF IInv
<1> QED
  BY <1>1, Invariance, PTL

-----------------------------------------------------------------------------
(* Refinement                                                                *)

LEMMA StageFacts ==
  ASSUME TypeOK, NEW j \in Jobs
  PROVE  /\ Stage(j) = "unknown" <=> State(j) \in {"absent", "claimed"}
         /\ Stage(j) = "admitted" <=> State(j) = "executing"
         /\ Stage(j) = "settled" <=> State(j) = "completion_pending"
         /\ Stage(j) = "closed" <=> State(j) \in {"completion_acked", "cleanup_done"}
         /\ Stage(j) \in {"unknown", "admitted", "settled", "closed"}
  BY DEF TypeOK, DiskType, Records, Stage, State

\* A step that keeps every stage, outcome, told and runs stutters.
LEMMA Stutters ==
  ASSUME TypeOK, TypeOK', UNCHANGED <<told, runs>>,
         \A j \in Jobs : \/ journal'[j].state = journal[j].state
                            /\ journal'[j].completion = journal[j].completion
                         \/ State(j) \in {"absent", "claimed"} /\ State(j)' \in {"absent", "claimed"}
  PROVE  UNCHANGED Contract!vars
<1>1. \A j \in Jobs : Stage(j)' = Stage(j) /\ journal'[j].completion = journal[j].completion
  BY DEF Stage, State, TypeOK, DiskType
<1> QED
  BY <1>1 DEF Contract!vars

\* A write to the record of one job moves that job's stage only.
LEMMA OneStage ==
  ASSUME NEW j \in Jobs, \A k \in Jobs : k # j => journal'[k] = journal[k]
  PROVE  /\ [k \in Jobs |-> Stage(k)]' = [[k \in Jobs |-> Stage(k)] EXCEPT ![j] = Stage(j)']
         /\ [k \in Jobs |-> journal[k].completion]'
              = [[k \in Jobs |-> journal[k].completion] EXCEPT ![j] = journal'[j].completion]
<1>1. \A k \in Jobs : k # j => Stage(k)' = Stage(k)
  BY DEF Stage, State
<1> QED
  BY <1>1

\* Pruning forgets closed jobs.
LEMMA PruneForgets ==
  ASSUME TypeOK, TypeOK', NEW records \in [Jobs -> Records], Prune(records),
         \A j \in Jobs : \/ records[j] = journal[j]
                         \/ /\ State(j) = "completion_acked"
                            /\ records[j].state = "cleanup_done"
                            /\ records[j].completion = NoCompletion
  PROVE  Contract!Forget(Expired(records))
<1> DEFINE gone == Expired(records)
<1>1. \A j \in gone : j \in Jobs /\ records[j].state = "cleanup_done"
  BY DEF Expired
<1>2. \A j \in gone : Stage(j) = "closed"
  BY <1>1, StageFacts DEF State
<1>3. \A j \in Jobs : journal'[j] = IF j \in gone THEN NoRecord ELSE records[j]
  BY DEF Prune
<1>4. \A j \in Jobs : Stage(j)' = IF j \in gone THEN "unknown" ELSE Stage(j)
  BY <1>3, NoRecordFields DEF Stage, State
<1>5. \A j \in Jobs : journal'[j].completion = journal[j].completion
  BY <1>1, <1>3 DEF NoRecord, State, TypeOK, DiskType
<1> QED
  BY <1>1, <1>2, <1>4, <1>5 DEF Contract!Forget, Prune

LEMMA ContractInit == Init => Contract!Init
<1> SUFFICES ASSUME Init PROVE Contract!Init
  OBVIOUS
<1>1. \A j \in Jobs : Stage(j) = "unknown" /\ journal[j].completion = NoCompletion
  BY DEF Init, Stage, State, NoRecord
<1> QED
  BY <1>1 DEF Init, Contract!Init

LEMMA ContractNext == IInv /\ IInv' /\ [Next]_vars => [Contract!Next]_(Contract!vars)
<1> SUFFICES ASSUME IInv, IInv', [Next]_vars
             PROVE  Contract!Next \/ UNCHANGED Contract!vars
  OBVIOUS
<1> USE DEF disk, hand, process, server, history
<1>1. TypeOK /\ TypeOK' /\ RecordInv /\ HandInv
  BY DEF IInv
<1>2. CASE UNCHANGED <<journal, told, runs>>
  BY <1>1, <1>2, Stutters
<1>3. CASE Start
  <2>1. journal \in [Jobs -> Records] /\ Prune(journal)
    BY <1>1, <1>3 DEF Start, TypeOK, DiskType
  <2>2. Contract!Forget(Expired(journal)) /\ Expired(journal) \in SUBSET Jobs
    BY <1>1, <2>1, PruneForgets DEF Expired
  <2> QED
    BY <2>2 DEF Contract!Next
<1>4. ASSUME NEW j \in Jobs, NEW f \in Fingerprints, ClaimNew(j, f)
      PROVE  UNCHANGED Contract!vars
  BY <1>1, <1>4, Stutters DEF ClaimNew, State, TypeOK, DiskType, NoRecord
<1>5. CASE MarkExecuting
  <2>1. job \in Jobs /\ State(job) = "claimed"
    BY <1>1, <1>5 DEF MarkExecuting, Advance, TypeOK, HandType, HandInv
  <2>2. /\ journal'[job].state = "executing" /\ journal'[job].completion = NoCompletion
        /\ \A k \in Jobs : k # job => journal'[k] = journal[k]
    BY <1>5, <2>1, WriteFacts DEF MarkExecuting
  <2>3. \A j \in Jobs : j = job => Stage(j) = "unknown" /\ Stage(j)' = "admitted"
    BY <2>1, <2>2 DEF Stage, State
  <2>4. journal[job].completion = NoCompletion
    BY <1>1, <2>1 DEF TypeOK, DiskType, State
  <2>5. Contract!Admit(job)
    BY <1>5, <2>1, <2>2, <2>3, <2>4, OneStage DEF Contract!Admit, MarkExecuting
  <2> QED
    BY <2>1, <2>5 DEF Contract!Next
<1>6. ASSUME NEW d \in Dirs, RunStart(d)
      PROVE  Contract!Next
  <2>1. job \in Jobs /\ State(job) = "executing" /\ runs[job] = 0 /\ UNCHANGED <<journal, told>>
    BY <1>1, <1>6 DEF RunStart, TypeOK, HandType, HandInv
  <2>2. runs' = [runs EXCEPT ![job] = 1]
    BY <1>1, <1>6, <2>1 DEF RunStart, TypeOK, CounterType
  <2>3. Stage(job) = "admitted" /\ \A k \in Jobs : Stage(k)' = Stage(k)
    BY <2>1 DEF Stage, State
  <2>4. Contract!Execute(job)
    BY <2>1, <2>2, <2>3 DEF Contract!Execute
  <2> QED
    BY <2>1, <2>4 DEF Contract!Next
<1>7. CASE RecordCompletion
  <2>1. job \in Jobs /\ State(job) = "executing" /\ completion \in Completions
    BY <1>1, <1>7 DEF RecordCompletion, TypeOK, HandType, HandInv
  <2>2. /\ journal'[job].state = "completion_pending" /\ journal'[job].completion = completion
        /\ \A k \in Jobs : k # job => journal'[k] = journal[k]
    BY <1>7, <2>1, WriteFacts DEF RecordCompletion
  <2>3. \A j \in Jobs : j = job => Stage(j) = "admitted" /\ Stage(j)' = "settled"
    BY <2>1, <2>2 DEF Stage, State
  <2>4. PICK j \in Jobs, o \in Completions : j = job /\ o = completion
    BY <2>1
  <2>5. Contract!Settle(j, o)
    BY <1>7, <2>1, <2>2, <2>3, <2>4, OneStage DEF Contract!Settle, RecordCompletion
  <2> QED
    BY <2>5 DEF Contract!Next
<1>8. CASE pc = "report" /\ Accept /\ UNCHANGED <<journal, runs>>
  <2>1. job \in Jobs /\ State(job) = "completion_pending"
    BY <1>1, <1>8 DEF TypeOK, HandType, HandInv
  <2>2. Stage(job) = "settled" /\ \A k \in Jobs : Stage(k)' = Stage(k)
    BY <1>8, <2>1 DEF Stage, State
  <2>3. Contract!Tell(job)
    BY <1>8, <2>1, <2>2 DEF Contract!Tell, Accept
  <2> QED
    BY <2>1, <2>3 DEF Contract!Next
<1>9. CASE MarkAcked
  <2>1. job \in Jobs /\ State(job) = "completion_pending" /\ told[job] # {}
    BY <1>1, <1>9 DEF MarkAcked, Advance, TypeOK, HandType, HandInv
  <2>2. /\ journal'[job].state = "completion_acked" /\ journal'[job].completion = NoCompletion
        /\ \A k \in Jobs : k # job => journal'[k] = journal[k]
    BY <1>9, <2>1, WriteFacts DEF MarkAcked
  <2>3. \A j \in Jobs : j = job => Stage(j) = "settled" /\ Stage(j)' = "closed"
    BY <2>1, <2>2 DEF Stage, State
  <2>4. told[job] = {journal[job].completion}
    BY <1>1, <2>1 DEF RecordInv
  <2>5. PICK j \in Jobs : j = job
    BY <2>1
  <2>6. Contract!Close(j)
    BY <1>9, <2>1, <2>2, <2>3, <2>4, <2>5, OneStage DEF Contract!Close, MarkAcked
  <2> QED
    BY <2>6 DEF Contract!Next
<1>10. CASE MarkCleanupDone
  <2> DEFINE records == Updated(job, "cleanup_done", journal[job].workDir,
                                journal[job].retain, NoCompletion)
  <2>1. job \in Jobs /\ State(job) = "completion_acked"
    BY <1>1, <1>10 DEF MarkCleanupDone, TypeOK, HandType, HandInv
  <2>2. records \in [Jobs -> Records] /\ Prune(records)
    BY <1>1, <1>10, <2>1, RecordFields, UpdatedType DEF MarkCleanupDone
  <2>3. /\ records[job].state = "cleanup_done" /\ records[job].completion = NoCompletion
        /\ \A k \in Jobs : k # job => records[k] = journal[k]
    BY <1>1, <2>1 DEF Updated, TypeOK, DiskType
  <2> HIDE DEF records
  <2>4. Contract!Forget(Expired(records)) /\ Expired(records) \in SUBSET Jobs
    BY <1>1, <2>1, <2>2, <2>3, PruneForgets DEF Expired
  <2> QED
    BY <2>4 DEF Contract!Next
<1>11. ASSUME NEW j \in Jobs, Age(j)
       PROVE  UNCHANGED Contract!vars
  BY <1>1, <1>11, Stutters DEF Age, TypeOK, DiskType, Records
<1> QED
  BY <1>2, <1>3, <1>4, <1>5, <1>6, <1>7, <1>8, <1>9, <1>10, <1>11
     DEF Next, Progress, Failure, Surroundings, IdlePoll, vars, Register, Exit, Die,
         FinishFirst, ClaimKnown, ClaimConflict, RunRefused, RunEnd, Report, Advance, CleanUp,
         Crash, Signal, RegisterRejected, ClaimUnauthorized, ClaimLost, ReportAnswerLost,
         ReportFailed, CleanUpFailed, WriteFailed, OfferAgain

\* The agent with its journal implements the contract: admitted once, executed
\* at most once, told one outcome, closed only after that.
THEOREM KeepsContract == Spec => ImplementsContract
<1>1. IInv /\ IInv' /\ [Next]_vars => [Contract!Next]_(Contract!vars)
  BY ContractNext
<1> QED
  BY <1>1, ContractInit, Invariance, PTL DEF Spec, ImplementsContract, Contract!Spec

=============================================================================
