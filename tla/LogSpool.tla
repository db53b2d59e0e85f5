------------------------------- MODULE LogSpool -------------------------------
(***************************************************************************)
(* The delivery of command output: logs.rs, the uploader task and its spool *)
(* directory, for the jobs of one run (a plan, then an apply), which share   *)
(* the directory log-spool/<run id> and have a log of their own at the       *)
(* control plane.                                                           *)
(*                                                                         *)
(* Output is counted in pieces: piece n of job j is what the n-th chunk of   *)
(* that job holds.  The uploader is one task; the commands' readers (append) *)
(* run beside it.  The spool is written in two steps, so that a crash can    *)
(* leave a half-written file, and a request can be accepted with its answer  *)
(* lost.  The control plane keeps what it received as a set: it is told the  *)
(* sequence number of each chunk, to order and to deduplicate by.            *)
(***************************************************************************)
EXTENDS Naturals

CONSTANTS
  MaxJobs,     \* bound: jobs of the run executed on this agent
  MaxPieces,   \* bound: pieces written by one job
  MaxFaults    \* bound: crashes and failed file operations

ASSUME BoundsAssumption == MaxJobs \in Nat /\ MaxPieces \in Nat /\ MaxFaults \in Nat

VARIABLES
  job,         \* the number of the last job started
  closed,      \* every LogWriter of the job is dropped
  written,     \* pieces given to append
  pc,          \* where upload_logs is; "off" when there is no uploader
  opened,      \* Spool::open succeeded
  flushed,     \* pieces taken out of the buffer
  next,        \* Spool::next_sequence
  lastAcked,   \* last_acked: the last chunk known to be delivered
  incomplete,  \* the flag shared with the writers
  cur, mode,   \* the file in hand, and what is being done with it
  todo,        \* replay_pending: files still to visit
  closing,     \* the receiver returned None: the log is being finished
  verdict,     \* what finish() returned for the last job
  files,       \* the spool: finished files
  temporary,   \* the spool: files not yet renamed
  received,    \* control plane: what each log received
  faults       \* the bound's counter

writer == <<job, closed, written>>
output == <<opened, flushed, next, closing>>
spool == <<files, temporary>>
vars == <<writer, output, pc, lastAcked, incomplete, cur, mode, todo, verdict,
          spool, received, faults>>

-----------------------------------------------------------------------------
(* Data                                                                      *)

\* What a chunk holds: a piece of a job, whole or cut short.  Nothing is the
\* body of the terminator of a log without output.
Data == [job : Nat, piece : Nat, whole : BOOLEAN]
Piece(j, n) == [job |-> j, piece |-> n, whole |-> TRUE]
Nothing == Piece(0, 0)

\* A spool file: its name is the sequence number and the kind.  The owner is
\* the job whose uploader stored it.
Files == [seq : Nat, kind : {"chunk", "terminator", "none"}, owner : Nat, data : Data]

Chunk(j, n, seq) ==
  [seq |-> seq, kind |-> "chunk", owner |-> j, data |-> Piece(j, n)]
Terminator(j, seq, data) ==
  [seq |-> seq, kind |-> "terminator", owner |-> j, data |-> data]
NoFile == [seq |-> 0, kind |-> "none", owner |-> 0, data |-> Nothing]

CutShort(f) ==
  [f EXCEPT !.data = [job |-> f.data.job, piece |-> f.data.piece, whole |-> FALSE]]

Kind(fs, kind) == {f \in fs : f.kind = kind}

\* PendingChunk's order: by sequence, then chunks before terminators.
Precedes(f, g) ==
  \/ f.seq < g.seq
  \/ f.seq = g.seq /\ f.kind = "chunk" /\ g.kind = "terminator"

IsFirst(f, fs) == f \in fs /\ \A g \in fs \ {f} : Precedes(f, g)

-----------------------------------------------------------------------------
(* Helpers                                                                   *)

Fault == faults < MaxFaults /\ faults' = faults + 1

\* The uploader goes on at p with file f in hand.
Hold(p, f, m) == pc' = p /\ cur' = f /\ mode' = m

\* It goes back to the loop, or on with the replay.
Release(p) == Hold(p, NoFile, "none")

\* The uploader returns: finish() is told whether the log is incomplete.
Return(i) ==
  /\ Release("off")
  /\ incomplete' = i
  /\ verdict' = IF i THEN "incomplete" ELSE "complete"

-----------------------------------------------------------------------------
(* The start of a job's uploader                                             *)

\* recover_temporary_files: a temporary file becomes the file of its name,
\* unless there is one; nothing tells whether its contents are complete.
Recovered ==
  files \union {t \in temporary : \A f \in files : f.seq # t.seq \/ f.kind # t.kind}

\* Mutant of NextSequence: the highest number is used again.
NextSequenceReused(fs) ==
  {n \in {1} \union {f.seq : f \in fs} : \A f \in fs : n >= f.seq}

\* Spool::open: one more than the highest number in use, from 1 (the set of
\* that one number).
NextSequence(fs) ==
  {n \in {1} \union {f.seq + 1 : f \in fs} : \A f \in fs : n > f.seq}

\* LogStream::new and the head of upload_logs, for the next job of the run.
Begin(ok, fs, ts, n) ==
  /\ pc = "off" /\ job < MaxJobs
  /\ job' = job + 1 /\ closed' = FALSE /\ written' = 0
  /\ opened' = ok /\ flushed' = 0 /\ next' = n /\ closing' = FALSE
  /\ Release("loop")
  /\ lastAcked' = NoFile /\ incomplete' = ~ok /\ todo' = {} /\ verdict' = "none"
  /\ files' = fs /\ temporary' = ts
  /\ UNCHANGED received

Start ==
  /\ \E n \in NextSequence(Recovered) : Begin(TRUE, Recovered, {}, n)
  /\ UNCHANGED faults

\* Spool::open fails, perhaps in the middle of the recovery.
StartUnopened ==
  /\ \E seen \in SUBSET temporary :
       Begin(FALSE, files \union (seen \intersect Recovered), temporary \ seen, 1)
  /\ Fault

\* cleanup_stale_spools, when an agent process starts: the directory has not
\* changed for longer than the retention.
CleanUpStale ==
  /\ pc = "off"
  /\ files \union temporary # {}
  /\ files' = {} /\ temporary' = {}
  /\ UNCHANGED <<writer, output, pc, lastAcked, incomplete, cur, mode, todo,
                 verdict, received, faults>>

-----------------------------------------------------------------------------
(* The writers                                                               *)

\* LogWriter::append, by the readers of a command's output.
Write ==
  /\ pc # "off" /\ ~closed /\ written < MaxPieces
  /\ written' = written + 1
  /\ UNCHANGED <<job, closed, output, pc, lastAcked, incomplete, cur, mode, todo,
                 verdict, spool, received, faults>>

\* The readers have ended, and LogStream::finish drops the last writer.
DropWriters ==
  /\ pc # "off" /\ ~closed
  /\ closed' = TRUE
  /\ UNCHANGED <<job, written, output, pc, lastAcked, incomplete, cur, mode, todo,
                 verdict, spool, received, faults>>

-----------------------------------------------------------------------------
(* upload_logs: the loop                                                     *)

\* flush_chunk stores every chunk, and sends it at once only if the spool was
\* empty; a spool that cannot be listed counts as not empty.
FlushMode(listed) == IF listed /\ files = {} THEN "new" ELSE "queued"

\* flush_chunk up to Spool::store.
Flush(listed) ==
  /\ pc = "loop" /\ opened /\ flushed < written
  /\ flushed' = flushed + 1 /\ next' = next + 1
  /\ Hold("store", Chunk(job, flushed + 1, next), FlushMode(listed))
  /\ incomplete' = (incomplete \/ ~listed)
  /\ IF listed THEN UNCHANGED faults ELSE Fault
  /\ UNCHANGED <<writer, opened, closing, lastAcked, todo, verdict, spool, received>>

\* flush_chunk without a spool.
FlushUnopened ==
  /\ pc = "loop" /\ ~opened /\ flushed < written
  /\ flushed' = flushed + 1
  /\ incomplete' = TRUE
  /\ UNCHANGED <<writer, opened, next, closing, pc, lastAcked, cur, mode, todo,
                 verdict, spool, received, faults>>

\* replay_pending is called, on a tick or for the last time; when the spool
\* cannot be listed it has nothing to do.
BeginReplay(last, listed) ==
  /\ pc = "loop" /\ opened
  /\ last => closed /\ flushed = written
  /\ closing' = last
  /\ todo' = IF listed THEN files ELSE {}
  /\ incomplete' = (incomplete \/ ~listed)
  /\ Release("replay")
  /\ IF listed THEN UNCHANGED faults ELSE Fault
  /\ UNCHANGED <<writer, opened, flushed, next, lastAcked, verdict, spool, received>>

\* Mutant of Tick: nothing is replayed when there is nothing to flush.
TickWithOutput == flushed < written /\ \E listed \in BOOLEAN : BeginReplay(FALSE, listed)

Tick == \E listed \in BOOLEAN : BeginReplay(FALSE, listed)
Close == \E listed \in BOOLEAN : BeginReplay(TRUE, listed)

\* The last round without a spool.
CloseUnopened ==
  /\ pc = "loop" /\ ~opened /\ closed /\ flushed = written
  /\ Return(TRUE)
  /\ UNCHANGED <<writer, output, lastAcked, todo, spool, received, faults>>

-----------------------------------------------------------------------------
(* Spool::store                                                              *)

\* What the death of the process or a failing operation leaves behind.
Remains ==
  temporary' \in {temporary, temporary \union {cur}, temporary \union {CutShort(cur)}}

Store ==
  /\ pc = "store"
  /\ files' = files \union {cur}
  /\ IF mode = "queued" THEN Release("loop") ELSE Hold("send", cur, mode)
  /\ UNCHANGED <<writer, output, lastAcked, incomplete, todo, verdict, temporary,
                 received, faults>>

StoreFailed ==
  /\ pc = "store" /\ Fault
  /\ Remains
  /\ IF mode = "end" THEN Return(TRUE)
     ELSE Release("loop") /\ incomplete' = TRUE /\ UNCHANGED verdict
  /\ UNCHANGED <<writer, output, lastAcked, todo, files, received>>

-----------------------------------------------------------------------------
(* retry_log and what follows                                                *)

\* Where the uploader goes with a file it is done with.
Continue ==
  IF mode = "old" THEN Release("replay") ELSE Release("loop")

\* An attempt is acknowledged.
Send ==
  /\ pc = "send"
  /\ received' = received \union {[log |-> job, file |-> cur]}
  /\ lastAcked' = IF cur.kind = "chunk" THEN cur ELSE lastAcked
  /\ Hold("remove", cur, mode)
  /\ UNCHANGED <<writer, output, incomplete, todo, verdict, spool, faults>>

\* Mutants of SendFailed: the replay goes on with the next file; the file is
\* removed all the same; the terminator is tried again until it is accepted.
SendFailedGoesOn ==
  /\ pc = "send"
  /\ received' \in {received, received \union {[log |-> job, file |-> cur]}}
  /\ IF mode = "end" THEN Return(TRUE)
     ELSE Continue /\ UNCHANGED <<incomplete, verdict>>
  /\ UNCHANGED <<writer, output, lastAcked, todo, spool, faults>>

SendFailedRemoves ==
  /\ pc = "send"
  /\ Hold("remove", cur, mode) /\ incomplete' = TRUE
  /\ UNCHANGED <<writer, output, lastAcked, todo, verdict, spool, received, faults>>

SendFailedTriesAgain ==
  /\ pc = "send"
  /\ todo' = {}
  /\ IF mode = "end" THEN Release("finish") ELSE Continue
  /\ UNCHANGED <<writer, output, lastAcked, incomplete, verdict, spool, received, faults>>

\* Three attempts fail; any of them may have been accepted.  The file stays,
\* and a replay ends at the first file that cannot be delivered.
SendFailed ==
  /\ pc = "send"
  /\ received' \in {received, received \union {[log |-> job, file |-> cur]}}
  /\ todo' = {}
  /\ IF mode = "end" THEN Return(TRUE)
     ELSE Continue /\ UNCHANGED <<incomplete, verdict>>
  /\ UNCHANGED <<writer, output, lastAcked, spool, faults>>

\* Spool::remove; the end of finish_log when the terminator was sent, where it
\* may also be the empty directory that is not removed.
Remove(ok) ==
  /\ pc = "remove"
  /\ \/ files' = files \ {cur} /\ (ok \/ mode = "end")
     \/ files' = files /\ ~ok
  /\ IF mode = "end" THEN Return(incomplete \/ ~ok)
     ELSE Continue /\ incomplete' = (incomplete \/ ~ok) /\ UNCHANGED verdict
  /\ IF ok THEN UNCHANGED faults ELSE Fault
  /\ UNCHANGED <<writer, output, lastAcked, todo, temporary, received>>

-----------------------------------------------------------------------------
(* replay_pending                                                            *)

\* Mutant of ReplayNext: the file stays among those to visit.
ReplayNextAgain ==
  /\ pc = "replay"
  /\ \E f \in todo : IsFirst(f, todo) /\ Hold("send", f, "old")
  /\ UNCHANGED <<writer, output, lastAcked, incomplete, todo, verdict, spool,
                 received, faults>>

ReplayNext ==
  /\ pc = "replay"
  /\ \E f \in todo :
       /\ IsFirst(f, todo)
       /\ todo' = todo \ {f}
       /\ Hold("send", f, "old")
  /\ UNCHANGED <<writer, output, lastAcked, incomplete, verdict, spool, received, faults>>

\* The file cannot be read: it is passed over.
ReplaySkip ==
  /\ pc = "replay" /\ Fault
  /\ \E f \in todo : IsFirst(f, todo) /\ todo' = todo \ {f}
  /\ incomplete' = TRUE
  /\ UNCHANGED <<writer, output, pc, lastAcked, cur, mode, verdict, spool, received>>

ReplayEnd ==
  /\ pc = "replay" /\ todo = {}
  /\ Release(IF closing THEN "finish" ELSE "loop")
  /\ UNCHANGED <<writer, output, lastAcked, incomplete, todo, verdict, spool,
                 received, faults>>

-----------------------------------------------------------------------------
(* finish_log                                                                *)

\* Mutant of FinishGivesUp: chunks that are left are not reported.
FinishGivesUpSilently ==
  /\ pc = "finish" /\ Kind(files, "chunk") # {}
  /\ Return(incomplete)
  /\ UNCHANGED <<writer, output, lastAcked, todo, spool, received, faults>>

\* Chunks are left: the log gets no terminator.
FinishGivesUp ==
  /\ pc = "finish" /\ Kind(files, "chunk") # {}
  /\ Return(TRUE)
  /\ UNCHANGED <<writer, output, lastAcked, todo, spool, received, faults>>

\* A terminator is already in the spool.
FinishAgain ==
  /\ pc = "finish" /\ Kind(files, "chunk") = {}
  /\ \E f \in Kind(files, "terminator") :
       IsFirst(f, Kind(files, "terminator")) /\ Hold("send", f, "end")
  /\ UNCHANGED <<writer, output, lastAcked, incomplete, todo, verdict, spool,
                 received, faults>>

\* The terminator repeats the last acknowledged chunk, if there was one.
FinishNew ==
  /\ pc = "finish" /\ files = {}
  /\ IF lastAcked = NoFile
     THEN Hold("store", Terminator(job, next, Nothing), "end") /\ next' = next + 1
     ELSE Hold("store", Terminator(job, lastAcked.seq, lastAcked.data), "end")
          /\ UNCHANGED next
  /\ UNCHANGED <<writer, opened, flushed, closing, lastAcked, incomplete, todo,
                 verdict, spool, received, faults>>

\* The spool cannot be listed, or the terminator in it cannot be read.
FinishFailed ==
  /\ pc = "finish" /\ Fault
  /\ Return(TRUE)
  /\ UNCHANGED <<writer, output, lastAcked, todo, spool, received>>

-----------------------------------------------------------------------------
\* The process dies.
Crash ==
  /\ pc # "off" /\ Fault
  /\ IF pc = "store" THEN Remains ELSE UNCHANGED temporary
  /\ Release("off") /\ todo' = {}
  /\ UNCHANGED <<writer, output, lastAcked, incomplete, verdict, files, received>>

Init ==
  /\ job = 0 /\ closed = TRUE /\ written = 0
  /\ pc = "off" /\ opened = FALSE /\ flushed = 0 /\ next = 1
  /\ lastAcked = NoFile /\ incomplete = FALSE /\ cur = NoFile /\ mode = "none"
  /\ todo = {} /\ closing = FALSE /\ verdict = "none"
  /\ files = {} /\ temporary = {} /\ received = {} /\ faults = 0

Uploader ==
  \/ \E listed \in BOOLEAN : Flush(listed)
  \/ FlushUnopened \/ Tick \/ Close \/ CloseUnopened
  \/ Store \/ StoreFailed \/ Send \/ SendFailed
  \/ \E ok \in BOOLEAN : Remove(ok)
  \/ ReplayNext \/ ReplaySkip \/ ReplayEnd
  \/ FinishGivesUp \/ FinishAgain \/ FinishNew \/ FinishFailed

Next ==
  \/ Start \/ StartUnopened \/ CleanUpStale \/ Write \/ DropWriters
  \/ Uploader \/ Crash

Spec == Init /\ [][Next]_vars

\* The uploader is a task of its own that never waits without a timer.  Between
\* a tick and a message or the end of the channel, select! picks at random, so
\* neither is passed over for ever.  Nothing says that a request succeeds.
FairSpec ==
  /\ Spec
  /\ WF_vars(Uploader)
  /\ SF_vars(Flush(TRUE))
  /\ SF_vars(Close)

-----------------------------------------------------------------------------
(* Safety                                                                    *)

\* Type correctness: the state of the uploader, of the spool directory and of the
\* logs keeps its type, and a replay visits only files that exist (logs.rs).
TypeOK ==
  /\ job \in Nat /\ closed \in BOOLEAN /\ written \in Nat
  /\ pc \in {"off", "loop", "store", "send", "remove", "replay", "finish"}
  /\ opened \in BOOLEAN /\ flushed \in Nat /\ next \in Nat
  /\ lastAcked \in Files /\ cur \in Files
  /\ mode \in {"none", "new", "queued", "old", "end"}
  /\ incomplete \in BOOLEAN /\ closing \in BOOLEAN
  /\ verdict \in {"none", "complete", "incomplete"}
  /\ files \subseteq Files /\ temporary \subseteq Files /\ todo \subseteq files
  /\ received \subseteq [log : Nat, file : Files]
  /\ faults \in Nat

\* Within a log a sequence number stands for one content, whatever is retried,
\* replayed or repeated by the terminator: the control plane deduplicates by it
\* ("newer servers can use them to ACK and deduplicate chunks", client.rs).
SeqNamesOneContent ==
  \A r, s \in received :
    r.log = s.log /\ r.file.seq = s.file.seq => r.file.data = s.file.data

\* The log of the current job has received the chunk with its piece n.
Has(n) ==
  \E r \in received :
    r.log = job /\ r.file.kind = "chunk" /\ r.file.data = Piece(job, n)

\* The control plane receives the pieces of a job in the order in which they
\* were written, without a gap, as long as the log is not known to be incomplete.
OrderedWhileComplete ==
  ~incomplete => \A n \in 1 .. written : Has(n) => \A m \in 1 .. n : Has(m)

\* A log that is not reported as incomplete (log_incomplete in the completion)
\* arrived whole, and a terminator that repeats its last chunk ends it.
CompleteUnlessReported ==
  verdict = "complete" =>
    /\ \A n \in 1 .. written : Has(n)
    /\ \E e \in received :
         /\ e.log = job /\ e.file.kind = "terminator"
         /\ written > 0 => e.file.data = Piece(job, written)

\* A file leaves the spool because the control plane accepted it, or with the
\* whole spool when no uploader uses it.
FilesLeaveDelivered ==
  [][\A f \in files \ files' :
       pc = "off" \/ [log |-> job, file |-> f] \in received]_vars

(* Liveness, under FairSpec                                                  *)

\* Log delivery does not hold up the end of a job, even if no request ever
\* succeeds.
UploaderStops == closed ~> pc = "off"

\* "A transient failure is not incomplete if a later retry gets an ACK"
\* (flush_chunk): if requests get through now and then, a stored chunk is
\* delivered while its job still runs.
InSpool(n) == \E f \in files : f.kind = "chunk" /\ f.data = Piece(job, n)
ChunkGetsThrough ==
  SF_vars(Send) =>
    \A n \in 1 .. MaxPieces : InSpool(n) ~> ~InSpool(n) \/ pc = "off"

(* What the documentation says, and the code does not do                     *)

\* "Recent spools remain available for replay after a transient control-plane
\* outage" (logs.rs): what is replayed belongs to the log it is sent to.
ReplayReachesItsLog == \A r \in received : r.log = r.file.owner
=============================================================================
