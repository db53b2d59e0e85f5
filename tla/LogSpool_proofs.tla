---------------------------- MODULE LogSpool_proofs ----------------------------
(***************************************************************************)
(* Proofs about LogSpool: whatever the number of jobs, pieces and failures,  *)
(* a log arrives in order, under sequence numbers that stand for one content *)
(* each, and whole unless it is reported as incomplete.                      *)
(***************************************************************************)
EXTENDS LogSpool, TLAPS

\* The uploader has a spool.
Active == pc # "off" /\ opened

Storing == pc = "store" /\ mode \in {"new", "queued"}

\* What the log of the current job received.
Arrived == {r \in received : r.log = job}

\* Where upload_logs is says which function has the file in hand.
ModeInv ==
  /\ pc = "store" => mode \in {"new", "queued", "end"}
  /\ pc \in {"send", "remove"} => mode \in {"new", "old", "end"}
  /\ pc \in {"off", "loop", "replay", "finish"} => mode = "none"
  /\ pc \notin {"off", "loop"} => opened
  /\ pc # "off" /\ ~opened => incomplete /\ Arrived = {}
  /\ pc # "off" => verdict = "none"
  /\ pc = "finish" \/ mode = "end" => closing
  /\ closing /\ pc # "off" => closed /\ flushed = written
  /\ flushed <= written
  /\ todo # {} => pc = "replay" \/ mode = "old"
  /\ mode = "old" => cur \notin todo
  /\ pc \in {"send", "remove"} => cur \in files
  /\ pc = "remove" => [log |-> job, file |-> cur] \in received

\* The numbers of the spool's files are all different, and below the next one;
\* they mean the same in the spool and in the log.
NumberInv ==
  /\ \A f \in files \union temporary :
       f.owner <= job /\ f.kind # "none" /\ (f.kind = "chunk" => f.data.job = f.owner)
  /\ \A f, g \in files \union temporary : f.seq = g.seq => f = g
  /\ files \intersect temporary = {}
  /\ \A r \in received : r.log <= job
  /\ Active =>
       /\ \A f \in files \union temporary : f.seq < next
       /\ \A r \in Arrived : r.file.seq < next
       /\ \A r \in Arrived, f \in files : r.file.seq = f.seq => r.file.data = f.data
       /\ \A r \in Arrived, t \in temporary : r.file.seq # t.seq
       /\ lastAcked # NoFile =>
            lastAcked.kind = "chunk" /\ [log |-> job, file |-> lastAcked] \in received

\* The file that is being stored is new to the spool and to the log.
StoreInv ==
  /\ Storing =>
       /\ cur = Chunk(job, flushed, cur.seq) /\ flushed > 0 /\ cur.seq < next
       /\ \A f \in files \union temporary : f.seq < cur.seq
       /\ \A r \in Arrived : r.file.seq < cur.seq
       /\ mode = "new" => files = {}
  /\ pc = "store" /\ mode = "end" =>
       /\ cur.kind = "terminator" /\ cur.owner = job /\ cur.seq < next
       /\ files = {}
       /\ \A t \in temporary : t.seq # cur.seq
       /\ \A r \in Arrived : r.file.seq = cur.seq => r.file.data = cur.data
  /\ pc \in {"send", "remove"} /\ mode = "end" =>
       cur.kind = "terminator" /\ Kind(files, "chunk") = {}
  /\ pc \in {"send", "remove"} /\ mode = "new" => files = {cur} /\ cur.kind = "chunk"
  /\ Active /\ mode # "end" =>
       \A f \in files : f.kind = "terminator" => f.owner < job

\* Own chunks lie in the spool in the order of their pieces, behind what
\* earlier jobs left.
Own(f) == f.kind = "chunk" /\ f.owner = job

QueueInv ==
  Active =>
    /\ \A f \in files :
         Own(f) => f.data = Piece(job, f.data.piece) /\ f.data.piece \in 1 .. flushed
    /\ \A f, g \in files :
         Own(f) /\ Own(g) /\ f.data.piece < g.data.piece => f.seq < g.seq
    /\ \A f, g \in files : f.owner < job /\ Own(g) => f.seq < g.seq
    /\ Own(lastAcked) =>
         lastAcked.data = Piece(job, lastAcked.data.piece)
         /\ lastAcked.data.piece \in 1 .. flushed

\* As long as nothing is known to be missing: what is not in the spool is
\* delivered, and the spool holds a suffix of the output.
Acked(n) == Has(n) /\ Own(lastAcked) /\ lastAcked.data.piece >= n

Kept(n) == InSpool(n) \/ (Storing /\ n = flushed)

Accounted == \A n \in 1 .. flushed : Kept(n) \/ Acked(n)

Suffix == \A m, n \in 1 .. flushed : InSpool(m) /\ m < n => Kept(n)

AckedFirst ==
  \A m \in 1 .. flushed : InSpool(m) /\ Own(lastAcked) => lastAcked.data.piece <= m

ForeignFirst ==
  mode # "end" => \A f \in files, n \in 1 .. flushed : ~Own(f) => Kept(n)

VisitsInOrder ==
  /\ pc = "replay" => todo \in {{}, files}
  /\ mode = "old" => files = todo \union {cur} /\ IsFirst(cur, files)

AckNoted == pc = "remove" /\ cur.kind = "chunk" => lastAcked = cur

EndRepeats == mode = "end" /\ written > 0 => cur.data = Piece(job, written)

DeliveryInv ==
  Active /\ ~incomplete =>
    /\ Accounted
    /\ Suffix
    /\ AckedFirst
    /\ ForeignFirst
    /\ VisitsInOrder
    /\ AckNoted
    /\ EndRepeats

OrderInv ==
  ~incomplete => \A n \in Nat : Has(n) => \A m \in 1 .. n : Has(m)

IInv ==
  /\ TypeOK
  /\ ModeInv
  /\ NumberInv
  /\ StoreInv
  /\ QueueInv
  /\ DeliveryInv
  /\ OrderInv
  /\ SeqNamesOneContent
  /\ CompleteUnlessReported

-----------------------------------------------------------------------------
(* Lemmas about the data and the queue                                       *)

\* The constructors of files.
LEMMA FilesTyped ==
  /\ NoFile \in Files /\ Nothing \in Data
  /\ \A j, n, s \in Nat : Chunk(j, n, s) \in Files
  /\ \A j, s \in Nat, d \in Data : Terminator(j, s, d) \in Files
BY DEF Files, Data, NoFile, Nothing, Piece, Chunk, Terminator

\* A file cut short keeps its name and its owner.
LEMMA CutShortTyped ==
  ASSUME NEW f \in Files
  PROVE  /\ CutShort(f) \in Files
         /\ CutShort(f).seq = f.seq /\ CutShort(f).kind = f.kind
         /\ CutShort(f).owner = f.owner /\ CutShort(f).data.job = f.data.job
BY DEF Files, Data, CutShort

\* A file that leaves the spool in good order is the first of those that matter:
\* no own piece in the spool comes before it, and nothing of an earlier job.
LEMMA FirstOut ==
  ASSUME IInv, pc \in {"send", "remove"}, ~incomplete, Own(cur)
  PROVE  /\ cur.data = Piece(job, cur.data.piece) /\ cur.data.piece \in 1 .. flushed
         /\ cur \in files /\ mode # "end" /\ InSpool(cur.data.piece)
         /\ \A f \in files : Own(f)
         /\ \A m \in Nat : InSpool(m) => cur.data.piece <= m
<1>1. Active /\ cur \in files /\ mode \in {"new", "old", "end"}
  BY DEF IInv, ModeInv, Active
<1>2. cur.data = Piece(job, cur.data.piece) /\ cur.data.piece \in 1 .. flushed
  BY <1>1 DEF IInv, QueueInv
<1>3. mode # "end"
  BY <1>1 DEF IInv, StoreInv, Kind, Own
<1>4. \A f \in files \ {cur} : cur.seq <= f.seq
  BY <1>1, <1>3 DEF IInv, StoreInv, DeliveryInv, VisitsInOrder, IsFirst, Precedes, TypeOK, Files
<1>5. \A f \in files \ {cur} : cur.seq < f.seq
  BY <1>1, <1>4 DEF IInv, NumberInv, TypeOK, Files
<1>6. \A f \in files : Own(f)
  <2>1. ASSUME NEW f \in files, ~Own(f) PROVE FALSE
    <3>2. CASE f.owner < job
      BY <1>1, <1>5, <2>1, <3>2 DEF IInv, QueueInv, TypeOK, Files
    <3>3. CASE f.owner = job
      BY <1>1, <1>3, <2>1, <3>3 DEF IInv, NumberInv, StoreInv, Own, TypeOK, Files
    <3>. QED BY <3>2, <3>3 DEF IInv, NumberInv, TypeOK, Files
  <2>. QED BY <2>1
<1>7. ASSUME NEW m \in Nat, InSpool(m) PROVE cur.data.piece <= m
  <2>1. PICK f \in files : f.kind = "chunk" /\ f.data = Piece(job, m)
    BY <1>7 DEF InSpool
  <2>2. Own(f) /\ f.data.piece = m
    BY <2>1 DEF IInv, NumberInv, Own, Piece
  <2>. QED BY <1>1, <1>2, <1>5, <2>2 DEF IInv, QueueInv, TypeOK, Files
<1>8. InSpool(cur.data.piece)
  BY <1>1, <1>2 DEF InSpool, Own
<1>. QED BY <1>1, <1>2, <1>3, <1>6, <1>7, <1>8

\* What a request that is accepted changes.
LEMMA ReceiptKeeps ==
  ASSUME IInv, pc = "send", job' = job,
         received' = received \union {[log |-> job, file |-> cur]}
  PROVE  /\ received' \subseteq [log : Nat, file : Files]
         /\ \A r \in received' : r.log <= job
         /\ \A r \in Arrived' :
              /\ r.file.seq < next
              /\ \A f \in files : r.file.seq = f.seq => r.file.data = f.data
              /\ \A t \in temporary : r.file.seq # t.seq
         /\ SeqNamesOneContent'
         /\ \A n : Has(n) => Has(n)'
         /\ \A n : Own(cur) /\ n = cur.data.piece => Has(n)'
         /\ ~incomplete => \A n \in Nat : Has(n)' => \A m \in 1 .. n : Has(m)'
<1> DEFINE new == [log |-> job, file |-> cur]
<1>1. Active /\ cur \in files /\ cur \in Files /\ new.log = job /\ new.file = cur
  BY DEF IInv, TypeOK, ModeInv, Active
<1>2. Arrived' = Arrived \union {new}
  BY <1>1 DEF Arrived
<1>3. received' \subseteq [log : Nat, file : Files]
  BY <1>1 DEF IInv, TypeOK
<1>4. \A r \in received' : r.log <= job
  <2>1. job <= job
    BY DEF IInv, TypeOK
  <2>. QED BY <1>1, <2>1 DEF IInv, NumberInv
<1>5. \A r \in Arrived' :
        /\ r.file.seq < next
        /\ \A f \in files : r.file.seq = f.seq => r.file.data = f.data
        /\ \A t \in temporary : r.file.seq # t.seq
  <2>1. /\ cur.seq < next
        /\ \A f \in files : cur.seq = f.seq => cur.data = f.data
        /\ \A t \in temporary : cur.seq # t.seq
    BY <1>1 DEF IInv, NumberInv
  <2>. QED BY <1>1, <1>2, <2>1 DEF IInv, NumberInv
<1>6. SeqNamesOneContent'
  <2>1. \A r \in received : r.log = job /\ r.file.seq = cur.seq => r.file.data = cur.data
    BY <1>1 DEF IInv, NumberInv, Arrived
  <2>2. \A r \in received' : r \in received \/ (r.log = job /\ r.file = cur)
    BY <1>1
  <2>. QED BY <2>1, <2>2 DEF IInv, SeqNamesOneContent
<1>7. \A n : Has(n) => Has(n)'
  BY DEF Has
<1>8. ASSUME Own(cur), NEW n, n = cur.data.piece PROVE Has(n)'
  <2>1. cur.kind = "chunk" /\ cur.data = Piece(job, n)
    BY <1>1, <1>8 DEF IInv, QueueInv, Own
  <2>2. new \in received'
    OBVIOUS
  <2>. QED BY <1>1, <2>1, <2>2 DEF Has
<1>9. ASSUME ~incomplete, NEW n \in Nat, Has(n)', NEW m \in 1 .. n
      PROVE  Has(m)'
  <2>1. CASE Has(n)
    BY <1>7, <1>9, <2>1 DEF IInv, OrderInv
  <2>2. CASE ~Has(n)
    <3>1. Own(cur) /\ cur.data.piece = n
      <4>1. PICK r \in received' :
              r.log = job /\ r.file.kind = "chunk" /\ r.file.data = Piece(job, n)
        BY <1>9 DEF Has
      <4>2. r = new
        BY <2>2, <4>1 DEF Has
      <4>3. cur.kind = "chunk" /\ cur.data = Piece(job, n)
        BY <1>1, <4>1, <4>2
      <4>. QED BY <1>1, <4>3 DEF Own, IInv, NumberInv, Piece
    <3>2. n \in 1 .. flushed /\ \A k \in Nat : InSpool(k) => n <= k
      BY <1>9, <3>1, FirstOut
    <3>3. CASE m = n
      BY <1>8, <3>1, <3>3
    <3>4. CASE m < n
      <4>. flushed \in Nat
        BY DEF IInv, TypeOK
      <4>1. m \in 1 .. flushed /\ m \in Nat
        BY <3>2, <3>4
      <4>2. ~Kept(m)
        BY <3>2, <3>4, <4>1 DEF Kept, Storing
      <4>. QED BY <1>1, <1>7, <1>9, <4>1, <4>2 DEF IInv, DeliveryInv, Accounted, Acked
    <3>. QED BY <3>3, <3>4
  <2>. QED BY <2>1, <2>2
<1>. QED BY <1>3, <1>4, <1>5, <1>6, <1>7, <1>8, <1>9

-----------------------------------------------------------------------------
(* Every step keeps the invariant                                            *)

LEMMA StartKeeps ==
  ASSUME IInv, Start
  PROVE  IInv'
<1>a. PICK n \in NextSequence(Recovered) : Begin(TRUE, Recovered, {}, n)
  BY DEF Start
<1>b. Recovered \subseteq files \union temporary
  BY DEF Recovered
<1>c. n \in Nat /\ \A f \in Recovered : f.seq < n
  BY <1>b DEF NextSequence, IInv, TypeOK, Files
<1>1. TypeOK'
  <2>1. /\ incomplete' = FALSE /\ opened' = TRUE /\ job' = job + 1 /\ closed' = FALSE
        /\ written' = 0 /\ flushed' = 0 /\ next' = n /\ closing' = FALSE
        /\ pc' = "loop" /\ cur' = NoFile /\ mode' = "none" /\ lastAcked' = NoFile
        /\ todo' = {} /\ verdict' = "none" /\ received' = received
    BY <1>a DEF Begin, Release, Hold
  <2>2. files' \subseteq Files /\ temporary' \subseteq Files /\ faults' \in Nat
    BY <1>a, <1>b DEF Begin, IInv, TypeOK, Start
  <2>3. job' \in Nat /\ received' \subseteq [log : Nat, file : Files]
    BY <2>1 DEF IInv, TypeOK
  <2>. QED BY <1>c, <2>1, <2>2, <2>3, FilesTyped DEF TypeOK
<1>2. ModeInv'
  BY DEF ModeInv, Start, Begin, Release, Hold
<1>3. NumberInv'
  <2>1. job' = job + 1 /\ files' = Recovered /\ temporary' = {} /\ next' = n
        /\ received' = received /\ lastAcked' = NoFile
    BY <1>a DEF Begin
  <2>2. Arrived' = {}
    BY <2>1 DEF IInv, NumberInv, TypeOK, Arrived
  <2>3. \A f \in files' \union temporary' : f \in files \union temporary /\ f.seq < next'
    BY <1>b, <1>c, <2>1
  <2>. QED BY <2>1, <2>2, <2>3 DEF IInv, NumberInv, TypeOK, Files, Active
<1>4. StoreInv'
  <2>1. job' = job + 1 /\ files' = Recovered /\ pc' = "loop"
    BY <1>a DEF Begin, Release, Hold
  <2>. QED BY <1>b, <2>1 DEF IInv, NumberInv, TypeOK, Files, StoreInv, Storing
<1>5. QueueInv'
  <2>1. job' = job + 1 /\ files' = Recovered /\ lastAcked' = NoFile
    BY <1>a DEF Begin
  <2>2. \A f \in Recovered : f.owner < job'
    BY <1>b, <2>1 DEF IInv, NumberInv, TypeOK, Files
  <2>. QED BY <2>1, <2>2 DEF IInv, TypeOK, Files, QueueInv, Own, NoFile
<1>6. DeliveryInv'
  BY DEF DeliveryInv, Accounted, Suffix, AckedFirst, ForeignFirst, VisitsInOrder,
      AckNoted, EndRepeats, Start, Begin, Release, Hold
<1>7. OrderInv'
  <2>1. job' = job + 1 /\ received' = received
    BY <1>a DEF Begin
  <2>. QED BY <2>1 DEF IInv, NumberInv, TypeOK, OrderInv, Has
<1>8. SeqNamesOneContent'
  BY DEF IInv, SeqNamesOneContent, Start, Begin
<1>9. CompleteUnlessReported'
  BY DEF CompleteUnlessReported, Start, Begin
<1>. QED BY <1>1, <1>2, <1>3, <1>4, <1>5, <1>6, <1>7, <1>8, <1>9 DEF IInv

LEMMA StartUnopenedKeeps ==
  ASSUME IInv, StartUnopened
  PROVE  IInv'
<1>1. TypeOK'
  <2>1. /\ incomplete' = TRUE /\ opened' = FALSE /\ job' = job + 1 /\ closed' = FALSE
        /\ written' = 0 /\ flushed' = 0 /\ next' = 1 /\ closing' = FALSE
        /\ pc' = "loop" /\ cur' = NoFile /\ mode' = "none" /\ lastAcked' = NoFile
        /\ todo' = {} /\ verdict' = "none" /\ received' = received /\ faults' = faults + 1
        /\ files' \subseteq files \union temporary /\ temporary' \subseteq temporary
    BY DEF StartUnopened, Begin, Release, Hold, Fault
  <2>2. job' \in Nat /\ faults' \in Nat /\ received' \subseteq [log : Nat, file : Files]
    BY <2>1 DEF IInv, TypeOK
  <2>. QED BY <2>1, <2>2, FilesTyped DEF IInv, TypeOK
<1>2. ModeInv'
  <2>1. Arrived' = {}
    BY DEF IInv, NumberInv, TypeOK, Arrived, StartUnopened, Begin
  <2>2. /\ incomplete' = TRUE /\ opened' = FALSE /\ closed' = FALSE /\ written' = 0
        /\ flushed' = 0 /\ closing' = FALSE /\ pc' = "loop" /\ mode' = "none"
        /\ todo' = {} /\ verdict' = "none"
    BY DEF StartUnopened, Begin, Release, Hold
  <2>. QED BY <2>1, <2>2 DEF ModeInv
<1>3. NumberInv'
  <2>1. job' = job + 1 /\ opened' = FALSE
        /\ files' \subseteq files \union temporary /\ temporary' \subseteq temporary
        /\ received' = received
    BY DEF StartUnopened, Begin
  <2>2. files' \intersect temporary' = {}
    BY DEF StartUnopened, Begin, IInv, NumberInv
  <2>. QED BY <2>1, <2>2 DEF IInv, NumberInv, TypeOK, Files, Active
<1>4. StoreInv'
  BY DEF StoreInv, Storing, Active, StartUnopened, Begin, Release, Hold
<1>5. QueueInv'
  BY DEF QueueInv, Active, StartUnopened, Begin
<1>6. DeliveryInv'
  BY DEF DeliveryInv, StartUnopened, Begin
<1>7. OrderInv'
  BY DEF OrderInv, StartUnopened, Begin
<1>8. SeqNamesOneContent'
  BY DEF IInv, SeqNamesOneContent, StartUnopened, Begin
<1>9. CompleteUnlessReported'
  BY DEF CompleteUnlessReported, StartUnopened, Begin
<1>. QED BY <1>1, <1>2, <1>3, <1>4, <1>5, <1>6, <1>7, <1>8, <1>9 DEF IInv

LEMMA CleanUpStaleKeeps ==
  ASSUME IInv, CleanUpStale
  PROVE  IInv'
<1>1. TypeOK'
  BY DEF IInv, TypeOK, ModeInv, CleanUpStale, writer, output
<1>2. ModeInv'
  BY DEF IInv, ModeInv, CleanUpStale, writer, output
<1>3. NumberInv'
  BY DEF IInv, NumberInv, Active, CleanUpStale, writer
<1>4. StoreInv'
  BY DEF StoreInv, Storing, CleanUpStale
<1>5. QueueInv'
  BY DEF QueueInv, Active, CleanUpStale
<1>6. DeliveryInv'
  BY DEF DeliveryInv, Active, CleanUpStale
<1>7. OrderInv'
  BY DEF IInv, OrderInv, Has, CleanUpStale, writer
<1>8. SeqNamesOneContent'
  BY DEF IInv, SeqNamesOneContent, CleanUpStale
<1>9. CompleteUnlessReported'
  BY DEF IInv, CompleteUnlessReported, Has, CleanUpStale, writer
<1>. QED BY <1>1, <1>2, <1>3, <1>4, <1>5, <1>6, <1>7, <1>8, <1>9 DEF IInv

LEMMA WriteKeeps ==
  ASSUME IInv, Write
  PROVE  IInv'
<1>1. TypeOK'
  BY DEF IInv, TypeOK, Write, output, spool
<1>2. ModeInv'
  BY DEF IInv, TypeOK, ModeInv, Arrived, Write, output, spool
<1>3. NumberInv'
  BY DEF IInv, NumberInv, Active, Arrived, Write, output, spool
<1>4. StoreInv'
  BY DEF IInv, StoreInv, Storing, Active, Arrived, Write, output, spool
<1>5. QueueInv'
  BY DEF IInv, QueueInv, Active, Own, Write, output, spool
<1>6. DeliveryInv'
  BY DEF IInv, ModeInv, DeliveryInv, Accounted, Suffix, AckedFirst, ForeignFirst,
      VisitsInOrder, AckNoted, EndRepeats, Active, Kept, Acked, Has, InSpool, Storing,
      Own, Write, output, spool
<1>7. OrderInv'
  BY DEF IInv, OrderInv, Has, Write
<1>8. SeqNamesOneContent'
  BY DEF IInv, SeqNamesOneContent, Write
<1>9. CompleteUnlessReported'
  BY DEF IInv, ModeInv, CompleteUnlessReported, Write
<1>. QED BY <1>1, <1>2, <1>3, <1>4, <1>5, <1>6, <1>7, <1>8, <1>9 DEF IInv

LEMMA DropWritersKeeps ==
  ASSUME IInv, DropWriters
  PROVE  IInv'
<1>1. TypeOK'
  BY DEF IInv, TypeOK, DropWriters, output, spool
<1>2. ModeInv'
  BY DEF IInv, ModeInv, Arrived, DropWriters, output, spool
<1>3. NumberInv'
  BY DEF IInv, NumberInv, Active, Arrived, DropWriters, output, spool
<1>4. StoreInv'
  BY DEF IInv, StoreInv, Storing, Active, Arrived, DropWriters, output, spool
<1>5. QueueInv'
  BY DEF IInv, QueueInv, Active, Own, DropWriters, output, spool
<1>6. DeliveryInv'
  BY DEF IInv, DeliveryInv, Accounted, Suffix, AckedFirst, ForeignFirst,
      VisitsInOrder, AckNoted, EndRepeats, Active, Kept, Acked, Has, InSpool, Storing,
      Own, DropWriters, output, spool
<1>7. OrderInv'
  BY DEF IInv, OrderInv, Has, DropWriters
<1>8. SeqNamesOneContent'
  BY DEF IInv, SeqNamesOneContent, DropWriters
<1>9. CompleteUnlessReported'
  BY DEF IInv, CompleteUnlessReported, Has, DropWriters
<1>. QED BY <1>1, <1>2, <1>3, <1>4, <1>5, <1>6, <1>7, <1>8, <1>9 DEF IInv

LEMMA FlushKeeps ==
  ASSUME IInv, NEW listed \in BOOLEAN, Flush(listed)
  PROVE  IInv'
<1>a. /\ pc = "loop" /\ opened /\ flushed < written
      /\ flushed' = flushed + 1 /\ next' = next + 1
      /\ pc' = "store" /\ cur' = Chunk(job, flushed + 1, next)
      /\ mode' \in {"new", "queued"} /\ (mode' = "new" => files = {})
      /\ incomplete' \in BOOLEAN /\ (~incomplete' => ~incomplete)
      /\ faults' \in Nat
      /\ UNCHANGED <<job, closed, written, opened, closing, lastAcked, todo, verdict,
                     files, temporary, received>>
  BY DEF Flush, FlushMode, Hold, Fault, writer, spool, IInv, TypeOK
<1>b. /\ cur'.seq = next /\ cur'.kind = "chunk" /\ cur'.owner = job
      /\ cur'.data = Piece(job, flushed + 1) /\ cur' \in Files
  BY <1>a, FilesTyped DEF Chunk, IInv, TypeOK
<1>1. TypeOK'
  <2>1. flushed' \in Nat /\ next' \in Nat
    BY <1>a DEF IInv, TypeOK
  <2>. QED BY <1>a, <1>b, <2>1 DEF IInv, TypeOK
<1>2. ModeInv'
  BY <1>a DEF IInv, TypeOK, ModeInv
<1>3. NumberInv'
  <2>1. Arrived' = Arrived
    BY <1>a DEF Arrived
  <2>2. \A f \in files \union temporary : f.seq < next'
    BY <1>a DEF IInv, NumberInv, Active, TypeOK, Files
  <2>3. \A r \in Arrived : r.file.seq < next'
    BY <1>a DEF IInv, NumberInv, Active, TypeOK, Files, Arrived
  <2>. QED BY <1>a, <2>1, <2>2, <2>3 DEF IInv, NumberInv, Active
<1>4. StoreInv'
  <2>1. Active /\ Arrived' = Arrived /\ mode = "none"
    BY <1>a DEF Active, Arrived, IInv, ModeInv
  <2>2. cur' = Chunk(job, flushed', cur'.seq) /\ flushed' > 0 /\ cur'.seq < next'
    BY <1>a, <1>b DEF IInv, TypeOK
  <2>. QED BY <1>a, <1>b, <2>1, <2>2 DEF IInv, NumberInv, StoreInv, Storing
<1>5. QueueInv'
  BY <1>a DEF IInv, TypeOK, QueueInv, Active, Own
<1>6. DeliveryInv'
  <2>. SUFFICES ASSUME Active', ~incomplete'
                PROVE  /\ Accounted' /\ Suffix' /\ AckedFirst' /\ ForeignFirst'
                       /\ VisitsInOrder' /\ AckNoted' /\ EndRepeats'
    BY DEF DeliveryInv
  <2>a. /\ Active /\ ~incomplete /\ Accounted /\ Suffix /\ AckedFirst /\ ForeignFirst
        /\ VisitsInOrder /\ AckNoted /\ EndRepeats
    BY <1>a DEF Active, IInv, DeliveryInv, TypeOK
  <2>b. \A n : InSpool(n)' = InSpool(n) /\ (Acked(n) => Acked(n)')
    BY <1>a DEF InSpool, Acked, Has, Own
  <2>c. ~Storing /\ Storing'
    BY <1>a DEF Storing
  <2>d. \A n \in 1 .. flushed' : n = flushed' \/ n \in 1 .. flushed
    BY <1>a DEF IInv, TypeOK
  <2>e. \A n \in 1 .. flushed : Kept(n) => Kept(n)'
    BY <2>b, <2>c DEF Kept
  <2>f. \A n : n = flushed' => Kept(n)'
    BY <2>c DEF Kept
  <2>g. mode = "none" /\ \A n : InSpool(n) => n <= flushed
    BY <1>a, <2>a DEF IInv, ModeInv, QueueInv, InSpool, Own, NumberInv, Piece
  <2>1. Accounted'
    BY <2>a, <2>b, <2>d, <2>e, <2>f DEF Accounted
  <2>2. Suffix'
    BY <1>a, <2>a, <2>b, <2>d, <2>e, <2>f, <2>g DEF Suffix, IInv, TypeOK
  <2>3. AckedFirst'
    BY <1>a, <2>a, <2>b, <2>d, <2>g DEF AckedFirst, Own, IInv, TypeOK
  <2>4. ForeignFirst'
    BY <1>a, <2>a, <2>d, <2>e, <2>f, <2>g DEF ForeignFirst, Own
  <2>5. VisitsInOrder'
    BY <1>a DEF VisitsInOrder
  <2>6. AckNoted'
    BY <1>a DEF AckNoted
  <2>7. EndRepeats'
    BY <1>a DEF EndRepeats
  <2>. QED BY <2>1, <2>2, <2>3, <2>4, <2>5, <2>6, <2>7
<1>7. OrderInv'
  BY <1>a DEF IInv, OrderInv, Has
<1>8. SeqNamesOneContent'
  BY <1>a DEF IInv, SeqNamesOneContent
<1>9. CompleteUnlessReported'
  BY <1>a DEF IInv, CompleteUnlessReported, Has
<1>. QED BY <1>1, <1>2, <1>3, <1>4, <1>5, <1>6, <1>7, <1>8, <1>9 DEF IInv

LEMMA FlushUnopenedKeeps ==
  ASSUME IInv, FlushUnopened
  PROVE  IInv'
<1>1. TypeOK'
  BY DEF IInv, TypeOK, FlushUnopened, writer, spool
<1>2. ModeInv'
  BY DEF IInv, TypeOK, ModeInv, Arrived, FlushUnopened, writer
<1>3. NumberInv'
  BY DEF IInv, NumberInv, Active, FlushUnopened, writer, spool
<1>4. StoreInv'
  BY DEF StoreInv, Storing, Active, FlushUnopened
<1>5. QueueInv'
  BY DEF QueueInv, Active, FlushUnopened
<1>6. DeliveryInv'
  BY DEF DeliveryInv, FlushUnopened
<1>7. OrderInv'
  BY DEF OrderInv, FlushUnopened
<1>8. SeqNamesOneContent'
  BY DEF IInv, SeqNamesOneContent, FlushUnopened
<1>9. CompleteUnlessReported'
  BY DEF IInv, CompleteUnlessReported, Has, FlushUnopened, writer
<1>. QED BY <1>1, <1>2, <1>3, <1>4, <1>5, <1>6, <1>7, <1>8, <1>9 DEF IInv

LEMMA BeginReplayKeeps ==
  ASSUME IInv, NEW last \in BOOLEAN, NEW listed \in BOOLEAN, BeginReplay(last, listed)
  PROVE  IInv'
<1>1. TypeOK'
  BY DEF IInv, TypeOK, Files, Data, Piece, Nothing, NoFile, BeginReplay, Release,
      Hold, Fault, writer, spool
<1>2. ModeInv'
  BY DEF IInv, ModeInv, BeginReplay, Release, Hold, writer
<1>3. NumberInv'
  BY DEF IInv, NumberInv, Active, Arrived, BeginReplay, writer, spool
<1>4. StoreInv'
  BY DEF IInv, ModeInv, StoreInv, Storing, Active, BeginReplay, Release, Hold, writer,
      spool
<1>5. QueueInv'
  BY DEF IInv, QueueInv, Active, Own, BeginReplay, writer, spool
<1>6. DeliveryInv'
  BY DEF IInv, TypeOK, ModeInv, DeliveryInv, Accounted, Suffix, AckedFirst,
      ForeignFirst, VisitsInOrder, AckNoted, EndRepeats, Active, Kept, Acked, Has,
      InSpool, Storing, Own, BeginReplay, Release, Hold, writer, spool
<1>7. OrderInv'
  BY DEF IInv, OrderInv, Has, BeginReplay, writer
<1>8. SeqNamesOneContent'
  BY DEF IInv, SeqNamesOneContent, BeginReplay
<1>9. CompleteUnlessReported'
  BY DEF IInv, CompleteUnlessReported, Has, BeginReplay, writer
<1>. QED BY <1>1, <1>2, <1>3, <1>4, <1>5, <1>6, <1>7, <1>8, <1>9 DEF IInv

LEMMA CloseUnopenedKeeps ==
  ASSUME IInv, CloseUnopened
  PROVE  IInv'
<1>1. TypeOK'
  BY DEF IInv, TypeOK, Files, Data, Piece, Nothing, NoFile, CloseUnopened, Return,
      Release, Hold, writer, output, spool
<1>2. ModeInv'
  BY DEF IInv, ModeInv, CloseUnopened, Return, Release, Hold, writer, output
<1>3. NumberInv'
  BY DEF IInv, NumberInv, Active, CloseUnopened, writer, output, spool
<1>4. StoreInv'
  BY DEF StoreInv, Storing, Active, CloseUnopened, Return, Release, Hold
<1>5. QueueInv'
  BY DEF QueueInv, Active, CloseUnopened, output
<1>6. DeliveryInv'
  BY DEF DeliveryInv, CloseUnopened, Return
<1>7. OrderInv'
  BY DEF OrderInv, CloseUnopened, Return
<1>8. SeqNamesOneContent'
  BY DEF IInv, SeqNamesOneContent, CloseUnopened
<1>9. CompleteUnlessReported'
  BY DEF CompleteUnlessReported, CloseUnopened, Return
<1>. QED BY <1>1, <1>2, <1>3, <1>4, <1>5, <1>6, <1>7, <1>8, <1>9 DEF IInv

LEMMA StoreKeeps ==
  ASSUME IInv, Store
  PROVE  IInv'
<1>a. /\ pc = "store" /\ opened /\ files' = files \union {cur}
      /\ \/ mode = "queued" /\ pc' = "loop" /\ cur' = NoFile /\ mode' = "none"
         \/ mode # "queued" /\ pc' = "send" /\ cur' = cur /\ mode' = mode
      /\ UNCHANGED <<job, closed, written, opened, flushed, next, closing, lastAcked,
                     incomplete, todo, verdict, temporary, received, faults>>
  BY DEF Store, Release, Hold, writer, output, IInv, ModeInv
<1>b. /\ cur \in Files /\ cur.kind # "none" /\ cur.owner = job
      /\ cur.kind = "chunk" => cur.data.job = job
      /\ Arrived' = Arrived /\ Active
  BY <1>a DEF IInv, TypeOK, ModeInv, StoreInv, Storing, Chunk, Piece, Arrived, Active
<1>1. TypeOK'
  <2>1. files' \subseteq Files /\ todo' \subseteq files'
    BY <1>a, <1>b DEF IInv, TypeOK
  <2>. QED BY <1>a, <2>1, FilesTyped DEF IInv, TypeOK
<1>2. ModeInv'
  BY <1>a DEF IInv, ModeInv
<1>3. NumberInv'
  <2>1. cur.seq < next
    BY <1>a DEF IInv, ModeInv, StoreInv, Storing
  <2>2. \A f \in files \union temporary : f.seq # cur.seq
    BY <1>a DEF IInv, ModeInv, StoreInv, Storing, TypeOK, Files
  <2>3. \A r \in Arrived : r.file.seq = cur.seq => r.file.data = cur.data
    BY <1>a DEF IInv, ModeInv, StoreInv, Storing, TypeOK, Files, Arrived
  <2>4. \A f \in files' \union temporary' : f = cur \/ f \in files \union temporary
    BY <1>a
  <2>5. job <= job
    BY DEF IInv, TypeOK
  <2>. QED BY <1>a, <1>b, <2>1, <2>2, <2>3, <2>4, <2>5 DEF IInv, NumberInv, Active
<1>4. StoreInv'
  BY <1>a DEF IInv, ModeInv, StoreInv, Storing, Active, Chunk, Kind
<1>5. QueueInv'
  <2>1. CASE mode = "end"
    <3>1. cur.kind = "terminator" /\ files = {}
      BY <1>a, <2>1 DEF IInv, StoreInv
    <3>. QED BY <1>a, <1>b, <3>1 DEF IInv, QueueInv, Own
  <2>2. CASE Storing
    <3>1. /\ cur.data = Piece(job, flushed) /\ flushed > 0
          /\ \A f \in files : f.seq < cur.seq
      BY <2>2 DEF IInv, StoreInv, Chunk
    <3>2. cur.data.piece = flushed /\ flushed \in 1 .. flushed
      BY <3>1 DEF Piece, IInv, TypeOK
    <3>3. \A f \in files' : f = cur \/ f \in files
      BY <1>a
    <3>. QED BY <1>a, <1>b, <3>1, <3>2, <3>3 DEF IInv, QueueInv, Own, TypeOK, Files
  <2>. QED BY <1>a, <2>1, <2>2 DEF Storing, IInv, ModeInv
<1>6. DeliveryInv'
  <2>. SUFFICES ASSUME Active', ~incomplete'
                PROVE  /\ Accounted' /\ Suffix' /\ AckedFirst' /\ ForeignFirst'
                       /\ VisitsInOrder' /\ AckNoted' /\ EndRepeats'
    BY DEF DeliveryInv
  <2>a. /\ Active /\ ~incomplete /\ Accounted /\ Suffix /\ AckedFirst /\ ForeignFirst
        /\ VisitsInOrder /\ AckNoted /\ EndRepeats
    BY <1>a DEF Active, IInv, DeliveryInv, TypeOK
  <2>b. \A n : Acked(n) => Acked(n)'
    BY <1>a DEF Acked, Has, Own
  <2>c. \A n : InSpool(n) => InSpool(n)'
    BY <1>a DEF InSpool
  <2>d. \A n : Kept(n) => Kept(n)'
    BY <1>a, <2>c DEF Kept, Storing, InSpool, IInv, StoreInv, Chunk
  <2>e. \A n : InSpool(n)' => InSpool(n) \/ n = flushed
    BY <1>a DEF InSpool, IInv, StoreInv, Storing, Chunk, ModeInv, Piece
  <2>f. Own(lastAcked) => lastAcked.data.piece <= flushed
    BY <2>a DEF IInv, QueueInv
  <2>1. Accounted'
    BY <1>a, <2>a, <2>b, <2>d DEF Accounted
  <2>2. Suffix'
    BY <1>a, <2>a, <2>d, <2>e DEF Suffix, IInv, TypeOK
  <2>3. AckedFirst'
    BY <1>a, <2>a, <2>e, <2>f DEF AckedFirst, Own
  <2>4. ForeignFirst'
    <3>1. CASE mode = "end"
      BY <1>a, <3>1 DEF ForeignFirst
    <3>2. CASE mode # "end"
      <4>1. Own(cur)
        BY <1>a, <1>b, <3>2 DEF IInv, ModeInv, StoreInv, Storing, Chunk, Own
      <4>. QED BY <1>a, <2>a, <2>d, <3>2, <4>1 DEF ForeignFirst, Own
    <3>. QED BY <3>1, <3>2
  <2>5. VisitsInOrder'
    BY <1>a DEF VisitsInOrder, IInv, ModeInv
  <2>6. AckNoted'
    BY <1>a DEF AckNoted
  <2>7. EndRepeats'
    BY <1>a, <2>a DEF EndRepeats
  <2>. QED BY <2>1, <2>2, <2>3, <2>4, <2>5, <2>6, <2>7
<1>7. OrderInv'
  BY <1>a DEF IInv, OrderInv, Has
<1>8. SeqNamesOneContent'
  BY <1>a DEF IInv, SeqNamesOneContent
<1>9. CompleteUnlessReported'
  BY <1>a DEF IInv, CompleteUnlessReported, Has
<1>. QED BY <1>1, <1>2, <1>3, <1>4, <1>5, <1>6, <1>7, <1>8, <1>9 DEF IInv

LEMMA StoreFailedKeeps ==
  ASSUME IInv, StoreFailed
  PROVE  IInv'
<1>a. /\ pc = "store" /\ opened
      /\ temporary' \in {temporary, temporary \union {cur}, temporary \union {CutShort(cur)}}
      /\ incomplete' = TRUE /\ cur' = NoFile /\ mode' = "none"
      /\ \/ mode = "end" /\ pc' = "off" /\ verdict' = "incomplete"
         \/ mode # "end" /\ pc' = "loop" /\ verdict' = verdict
      /\ faults' \in Nat
      /\ UNCHANGED <<job, closed, written, opened, flushed, next, closing, lastAcked,
                     todo, files, received>>
  BY DEF StoreFailed, Remains, Return, Release, Hold, Fault, writer, output, IInv,
         TypeOK, ModeInv
<1>b. /\ cur \in Files /\ cur.kind # "none" /\ cur.owner = job
      /\ cur.kind = "chunk" => cur.data.job = job
      /\ Arrived' = Arrived /\ Active
  BY <1>a DEF IInv, TypeOK, ModeInv, StoreInv, Storing, Chunk, Piece, Arrived, Active
<1>c. PICK t \in {cur, CutShort(cur)} : temporary' \in {temporary, temporary \union {t}}
  BY <1>a
<1>d. /\ t \in Files /\ t.seq = cur.seq /\ t.kind = cur.kind /\ t.owner = job
      /\ t.kind = "chunk" => t.data.job = job
  BY <1>b, CutShortTyped
<1>1. TypeOK'
  <2>1. temporary' \subseteq Files
    BY <1>c, <1>d DEF IInv, TypeOK
  <2>. QED BY <1>a, <2>1, FilesTyped DEF IInv, TypeOK
<1>2. ModeInv'
  BY <1>a DEF IInv, ModeInv
<1>3. NumberInv'
  <2>1. cur.seq < next
    BY <1>a DEF IInv, ModeInv, StoreInv, Storing
  <2>2. \A f \in files \union temporary : f.seq # cur.seq
    BY <1>a DEF IInv, ModeInv, StoreInv, Storing, TypeOK, Files
  <2>3. mode # "end" => \A r \in Arrived : r.file.seq # cur.seq
    BY <1>a DEF IInv, ModeInv, StoreInv, Storing, TypeOK, Files, Arrived
  <2>4. \A f \in files' \union temporary' : f = t \/ f \in files \union temporary
    BY <1>a, <1>c
  <2>5. job <= job
    BY DEF IInv, TypeOK
  <2>6. \A f, g \in files' \union temporary' : f.seq = g.seq => f = g
    BY <1>d, <2>2, <2>4 DEF IInv, NumberInv
  <2>7. \A f \in files' \union temporary' :
          f.owner <= job /\ f.kind # "none" /\ (f.kind = "chunk" => f.data.job = f.owner)
    BY <1>b, <1>d, <2>4, <2>5 DEF IInv, NumberInv
  <2>8. \A f \in files' \union temporary' : f.seq < next
    BY <1>b, <1>d, <2>1, <2>4 DEF IInv, NumberInv
  <2>9. Active' => \A r \in Arrived, f \in temporary' : r.file.seq # f.seq
    <3>1. Active' => mode # "end"
      BY <1>a DEF Active
    <3>2. \A f \in temporary' : f = t \/ f \in temporary
      BY <1>c
    <3>. QED BY <1>b, <1>d, <2>3, <3>1, <3>2 DEF IInv, NumberInv
  <2>10. files' \intersect temporary' = {}
    BY <1>a, <1>c, <1>d, <2>2 DEF IInv, NumberInv
  <2>. QED BY <1>a, <1>b, <2>6, <2>7, <2>8, <2>9, <2>10 DEF IInv, NumberInv, Active
<1>4. StoreInv'
  BY <1>a DEF IInv, StoreInv, Storing, Active
<1>5. QueueInv'
  BY <1>a DEF IInv, QueueInv, Active, Own
<1>6. DeliveryInv'
  BY <1>a DEF DeliveryInv
<1>7. OrderInv'
  BY <1>a DEF OrderInv
<1>8. SeqNamesOneContent'
  BY <1>a DEF IInv, SeqNamesOneContent
<1>9. CompleteUnlessReported'
  BY <1>a DEF IInv, CompleteUnlessReported, Has
<1>. QED BY <1>1, <1>2, <1>3, <1>4, <1>5, <1>6, <1>7, <1>8, <1>9 DEF IInv

LEMMA SendKeeps ==
  ASSUME IInv, Send
  PROVE  IInv'
<1>a. /\ pc = "send" /\ pc' = "remove"
      /\ received' = received \union {[log |-> job, file |-> cur]}
      /\ lastAcked' = IF cur.kind = "chunk" THEN cur ELSE lastAcked
      /\ UNCHANGED <<job, closed, written, opened, flushed, next, closing, incomplete,
                     cur, mode, todo, verdict, files, temporary, faults>>
  BY DEF Send, Hold, writer, output, spool
<1>b. Active /\ cur \in files /\ [log |-> job, file |-> cur] \in received'
  BY <1>a DEF Active, IInv, ModeInv
<1>1. TypeOK'
  <2>1. received' \subseteq [log : Nat, file : Files] /\ lastAcked' \in Files
    BY <1>a, ReceiptKeeps DEF IInv, TypeOK
  <2>. QED BY <1>a, <2>1 DEF IInv, TypeOK
<1>2. ModeInv'
  BY <1>a DEF IInv, ModeInv
<1>3. NumberInv'
  <2>1. lastAcked' # NoFile =>
          lastAcked'.kind = "chunk" /\ [log |-> job, file |-> lastAcked'] \in received'
    BY <1>a, <1>b DEF IInv, NumberInv
  <2>. QED BY <1>a, <2>1, ReceiptKeeps DEF IInv, NumberInv, Active
<1>4. StoreInv'
  BY <1>a DEF IInv, StoreInv, Storing, Active
<1>5. QueueInv'
  BY <1>a DEF IInv, ModeInv, QueueInv, Active, Own
<1>6. DeliveryInv'
  <2>. SUFFICES ASSUME Active', ~incomplete'
                PROVE  /\ Accounted' /\ Suffix' /\ AckedFirst' /\ ForeignFirst'
                       /\ VisitsInOrder' /\ AckNoted' /\ EndRepeats'
    BY DEF DeliveryInv
  <2>a. /\ Active /\ ~incomplete /\ Accounted /\ Suffix /\ AckedFirst /\ ForeignFirst
        /\ VisitsInOrder /\ AckNoted /\ EndRepeats
    BY <1>a DEF Active, IInv, DeliveryInv, TypeOK
  <2>b. \A n : InSpool(n)' = InSpool(n)
    BY <1>a DEF InSpool
  <2>c. \A n : (Kept(n) => InSpool(n)) /\ (InSpool(n) => Kept(n)') /\ (Kept(n)' => InSpool(n))
    BY <1>a, <2>b DEF Kept, Storing
  <2>n. flushed' = flushed /\ flushed \in Nat
    BY <1>a DEF IInv, TypeOK
  <2>d. ASSUME Own(cur) PROVE Accounted' /\ AckedFirst'
    <3>1. /\ cur.data.piece \in 1 .. flushed /\ lastAcked' = cur /\ Own(lastAcked)'
          /\ InSpool(cur.data.piece) /\ \A m \in Nat : InSpool(m) => cur.data.piece <= m
      BY <1>a, <2>a, <2>d, FirstOut DEF Own
    <3>2. ASSUME NEW n \in 1 .. flushed, Acked(n) PROVE Acked(n)'
      <4>1. Has(n) /\ Own(lastAcked) /\ lastAcked.data.piece >= n
        BY <3>2 DEF Acked
      <4>2. lastAcked.data.piece <= cur.data.piece /\ lastAcked.data.piece \in Nat
        BY <2>a, <3>1, <4>1 DEF AckedFirst, IInv, QueueInv
      <4>3. cur.data.piece >= n
        BY <3>1, <4>1, <4>2
      <4>4. Has(n)'
        BY <1>a, <4>1, ReceiptKeeps
      <4>. QED BY <3>1, <4>3, <4>4 DEF Acked
    <3>3. Accounted'
      BY <1>a, <2>a, <2>c, <3>2 DEF Accounted
    <3>4. AckedFirst'
      <4>1. \A m \in 1 .. flushed : InSpool(m) => lastAcked'.data.piece <= m
        BY <2>n, <3>1
      <4>. QED BY <2>b, <2>n, <4>1 DEF AckedFirst
    <3>. QED BY <3>3, <3>4
  <2>e. ASSUME ~Own(cur) PROVE Accounted' /\ AckedFirst'
    <3>1. Accounted'
      <4>1. CASE mode = "end"
        <5>1. lastAcked' = lastAcked
          BY <1>a, <4>1 DEF IInv, StoreInv
        <5>2. \A n : Acked(n) => Acked(n)'
          BY <1>a, <5>1, ReceiptKeeps DEF Acked, Own
        <5>. QED BY <1>a, <2>a, <2>c, <5>2 DEF Accounted
      <4>2. CASE mode # "end"
        BY <1>a, <1>b, <2>a, <2>c, <2>e, <4>2 DEF Accounted, ForeignFirst
      <4>. QED BY <4>1, <4>2
    <3>2. AckedFirst'
      <4>1. Own(lastAcked)' => lastAcked' = lastAcked /\ Own(lastAcked)
        BY <1>a, <2>e DEF Own
      <4>2. \A m \in 1 .. flushed : InSpool(m) /\ Own(lastAcked)' => lastAcked'.data.piece <= m
        BY <2>a, <4>1 DEF AckedFirst
      <4>. QED BY <2>b, <2>n, <4>2 DEF AckedFirst
    <3>. QED BY <3>1, <3>2
  <2>1. Accounted' /\ AckedFirst'
    BY <2>d, <2>e
  <2>2. Suffix'
    BY <1>a, <2>a, <2>b, <2>c DEF Suffix
  <2>3. ForeignFirst'
    BY <1>a, <2>a, <2>c DEF ForeignFirst, Own
  <2>4. VisitsInOrder'
    BY <1>a, <2>a DEF VisitsInOrder
  <2>5. AckNoted'
    BY <1>a DEF AckNoted
  <2>6. EndRepeats'
    BY <1>a, <2>a DEF EndRepeats
  <2>. QED BY <2>1, <2>2, <2>3, <2>4, <2>5, <2>6
<1>7. OrderInv'
  BY <1>a, ReceiptKeeps DEF OrderInv
<1>8. SeqNamesOneContent'
  BY <1>a, ReceiptKeeps
<1>9. CompleteUnlessReported'
  BY <1>a DEF IInv, CompleteUnlessReported, Has
<1>. QED BY <1>1, <1>2, <1>3, <1>4, <1>5, <1>6, <1>7, <1>8, <1>9 DEF IInv

LEMMA SendFailedKeeps ==
  ASSUME IInv, SendFailed
  PROVE  IInv'
<1>a. /\ pc = "send" /\ todo' = {} /\ cur' = NoFile /\ mode' = "none"
      /\ \/ mode = "end" /\ pc' = "off" /\ incomplete' = TRUE /\ verdict' = "incomplete"
         \/ /\ mode # "end" /\ pc' = IF mode = "old" THEN "replay" ELSE "loop"
            /\ UNCHANGED <<incomplete, verdict>>
      /\ UNCHANGED <<job, closed, written, opened, flushed, next, closing, lastAcked,
                     files, temporary, faults>>
  BY DEF SendFailed, Return, Continue, Release, Hold, writer, output, spool
<1>b. \/ received' = received
      \/ received' = received \union {[log |-> job, file |-> cur]}
  BY DEF SendFailed
<1>c. \A n : Has(n) => Has(n)'
  BY <1>a, <1>b DEF Has
<1>1. TypeOK'
  <2>1. received' \subseteq [log : Nat, file : Files]
    BY <1>a, <1>b, ReceiptKeeps DEF IInv, TypeOK
  <2>. QED BY <1>a, <2>1, FilesTyped DEF IInv, TypeOK
<1>2. ModeInv'
  BY <1>a DEF IInv, ModeInv
<1>3. NumberInv'
  <2>1. CASE received' = received
    BY <1>a, <2>1 DEF IInv, NumberInv, Active, Arrived
  <2>2. CASE received' = received \union {[log |-> job, file |-> cur]}
    BY <1>a, <2>2, ReceiptKeeps DEF IInv, NumberInv, Active
  <2>. QED BY <1>b, <2>1, <2>2
<1>4. StoreInv'
  BY <1>a DEF IInv, StoreInv, Storing, Active
<1>5. QueueInv'
  BY <1>a DEF IInv, QueueInv, Active, Own
<1>6. DeliveryInv'
  <2>. SUFFICES ASSUME Active', ~incomplete'
                PROVE  /\ Accounted' /\ Suffix' /\ AckedFirst' /\ ForeignFirst'
                       /\ VisitsInOrder' /\ AckNoted' /\ EndRepeats'
    BY DEF DeliveryInv
  <2>a. /\ Active /\ ~incomplete /\ Accounted /\ Suffix /\ AckedFirst /\ ForeignFirst
        /\ VisitsInOrder /\ AckNoted /\ EndRepeats
    BY <1>a DEF ModeInv, Active, IInv, DeliveryInv, TypeOK
  <2>b. \A n : InSpool(n)' = InSpool(n) /\ (Acked(n) => Acked(n)')
    BY <1>a, <1>c DEF InSpool, Acked, Own
  <2>c. \A n : Kept(n) => Kept(n)'
    BY <1>a, <2>b DEF Kept, Storing
  <2>1. Accounted'
    BY <1>a, <2>a, <2>b, <2>c DEF Accounted
  <2>2. Suffix'
    BY <1>a, <2>a, <2>b, <2>c DEF Suffix
  <2>3. AckedFirst'
    BY <1>a, <2>a, <2>b DEF AckedFirst, Own
  <2>4. ForeignFirst'
    BY <1>a, <2>a, <2>c DEF ForeignFirst, Own, Active
  <2>5. VisitsInOrder'
    BY <1>a DEF VisitsInOrder
  <2>6. AckNoted'
    BY <1>a DEF AckNoted
  <2>7. EndRepeats'
    BY <1>a DEF EndRepeats
  <2>. QED BY <2>1, <2>2, <2>3, <2>4, <2>5, <2>6, <2>7
<1>7. OrderInv'
  <2>1. CASE received' = received
    BY <1>a, <2>1 DEF IInv, OrderInv, Has
  <2>2. CASE received' = received \union {[log |-> job, file |-> cur]}
    BY <1>a, <2>2, ReceiptKeeps DEF OrderInv
  <2>. QED BY <1>b, <2>1, <2>2
<1>8. SeqNamesOneContent'
  BY <1>a, <1>b, ReceiptKeeps DEF IInv, SeqNamesOneContent
<1>9. CompleteUnlessReported'
  BY <1>a DEF IInv, ModeInv, CompleteUnlessReported
<1>. QED BY <1>1, <1>2, <1>3, <1>4, <1>5, <1>6, <1>7, <1>8, <1>9 DEF IInv

LEMMA RemoveKeeps ==
  ASSUME IInv, NEW ok \in BOOLEAN, Remove(ok)
  PROVE  IInv'
<1>a. /\ pc = "remove" /\ cur' = NoFile /\ mode' = "none"
      /\ files' \in {files, files \ {cur}} /\ (ok => files' = files \ {cur})
      /\ incomplete' \in BOOLEAN /\ (~incomplete' => ~incomplete /\ ok)
      /\ \/ /\ mode = "end" /\ pc' = "off"
            /\ verdict' \in {"complete", "incomplete"}
            /\ verdict' = "complete" => ~incomplete'
         \/ /\ mode # "end" /\ pc' = IF mode = "old" THEN "replay" ELSE "loop"
            /\ verdict' = verdict
      /\ faults' \in Nat
      /\ UNCHANGED <<job, closed, written, opened, flushed, next, closing, lastAcked,
                     todo, temporary, received>>
  <2>1. incomplete' = (incomplete \/ ~ok)
    BY DEF Remove, Return
  <2>2. incomplete' \in BOOLEAN /\ (~incomplete' => ~incomplete /\ ok)
    BY <2>1, Zenon
  <2>3. CASE mode = "end"
    <3>1. Return(incomplete \/ ~ok)
      BY <2>3 DEF Remove
    <3>2. verdict' = IF incomplete' THEN "incomplete" ELSE "complete"
      BY <3>1 DEF Return
    <3>. QED BY <2>2, <2>3, <3>1, <3>2
          DEF Remove, Return, Release, Hold, Fault, writer, output, IInv, TypeOK
  <2>4. CASE mode # "end"
    BY <2>2, <2>4 DEF Remove, Continue, Release, Hold, Fault, writer, output, IInv, TypeOK
  <2>. QED BY <2>3, <2>4
<1>b. /\ Active /\ ~Storing /\ cur \in files /\ files' \subseteq files
      /\ [log |-> job, file |-> cur] \in received /\ Arrived' = Arrived
      /\ (todo # {} => mode = "old") /\ (mode = "old" => cur \notin todo)
  BY <1>a DEF IInv, ModeInv, Active, Storing, Arrived
<1>1. TypeOK'
  <2>1. files' \subseteq Files
    BY <1>b DEF IInv, TypeOK
  <2>2. todo' \subseteq files'
    <3>1. cur \notin todo
      BY <1>b
    <3>. QED BY <1>a, <3>1 DEF IInv, TypeOK
  <2>. QED BY <1>a, <2>1, <2>2, FilesTyped DEF IInv, TypeOK
<1>2. ModeInv'
  BY <1>a DEF IInv, ModeInv
<1>3. NumberInv'
  BY <1>a, <1>b DEF IInv, NumberInv, Active
<1>4. StoreInv'
  BY <1>a DEF IInv, StoreInv, Storing, Active
<1>5. QueueInv'
  BY <1>a DEF IInv, QueueInv, Active, Own
<1>6. DeliveryInv'
  <2>. SUFFICES ASSUME Active', ~incomplete'
                PROVE  /\ Accounted' /\ Suffix' /\ AckedFirst' /\ ForeignFirst'
                       /\ VisitsInOrder' /\ AckNoted' /\ EndRepeats'
    BY DEF DeliveryInv
  <2>a. /\ Active /\ ~incomplete /\ Accounted /\ Suffix /\ AckedFirst /\ ForeignFirst
        /\ VisitsInOrder /\ AckNoted /\ EndRepeats
    BY <1>a DEF Active, IInv, DeliveryInv, TypeOK
  <2>b. mode # "end" /\ files' = files \ {cur} /\ ~Storing'
    BY <1>a DEF Active, Storing
  <2>c. \A n : (Kept(n) => InSpool(n)) /\ (InSpool(n)' => InSpool(n))
    <3>1. \A n : InSpool(n)' => InSpool(n)
      BY <1>a, <1>b DEF InSpool
    <3>. QED BY <1>b, <3>1 DEF Kept
  <2>d. \A n : Acked(n) => Acked(n)'
    BY <1>a DEF Acked, Has, Own
  <2>n. flushed' = flushed /\ flushed \in Nat
    BY <1>a DEF IInv, TypeOK
  <2>e. ASSUME Own(cur) PROVE Accounted' /\ Suffix' /\ ForeignFirst'
    <3>1. /\ cur.data = Piece(job, cur.data.piece) /\ \A f \in files : Own(f)
          /\ \A m \in Nat : InSpool(m) => cur.data.piece <= m
      BY <1>a, <2>a, <2>e, FirstOut
    <3>2. ASSUME NEW n, InSpool(n) PROVE InSpool(n)' \/ n = cur.data.piece
      <4>1. PICK f \in files : f.kind = "chunk" /\ f.data = Piece(job, n)
        BY <3>2 DEF InSpool
      <4>. QED BY <1>a, <2>b, <4>1 DEF InSpool, Piece
    <3>3. ASSUME NEW n \in 1 .. flushed, n = cur.data.piece PROVE Acked(n)'
      <4>1. lastAcked' = cur /\ Own(lastAcked)'
        BY <1>a, <2>a, <2>e DEF AckNoted, Own
      <4>2. Has(n)'
        BY <1>a, <1>b, <2>e, <3>1, <3>3 DEF Has, Own
      <4>3. n >= n
        BY <2>n
      <4>. QED BY <3>3, <4>1, <4>2, <4>3 DEF Acked
    <3>4. Accounted'
      BY <2>a, <2>c, <2>d, <2>n, <3>2, <3>3 DEF Accounted, Kept
    <3>5. ASSUME NEW m \in 1 .. flushed, NEW n \in 1 .. flushed, InSpool(m), m < n
          PROVE  InSpool(n)'
      <4>1. InSpool(n)
        BY <2>a, <2>c, <3>5 DEF Suffix
      <4>. QED BY <2>n, <3>1, <3>2, <3>5, <4>1
    <3>6. Suffix'
      BY <2>c, <2>n, <3>5 DEF Suffix, Kept
    <3>7. ForeignFirst'
      BY <1>a, <1>b, <3>1 DEF ForeignFirst, Own
    <3>. QED BY <3>4, <3>6, <3>7
  <2>f. ASSUME ~Own(cur) PROVE Accounted' /\ Suffix' /\ ForeignFirst'
    <3>1. ASSUME NEW n, InSpool(n) PROVE InSpool(n)'
      <4>1. PICK f \in files : f.kind = "chunk" /\ f.data = Piece(job, n)
        BY <3>1 DEF InSpool
      <4>2. Own(f)
        BY <4>1 DEF IInv, NumberInv, Own, Piece
      <4>. QED BY <1>a, <2>b, <2>f, <4>1, <4>2 DEF InSpool
    <3>2. \A n : Kept(n) => Kept(n)'
      BY <2>c, <3>1 DEF Kept
    <3>. QED BY <1>a, <1>b, <2>a, <2>b, <2>c, <2>d, <2>n, <3>2
          DEF Accounted, Suffix, ForeignFirst, Own
  <2>1. AckedFirst'
    BY <1>a, <2>a, <2>c, <2>n DEF AckedFirst, Own
  <2>2. VisitsInOrder'
    BY <1>a, <1>b, <2>a, <2>b DEF VisitsInOrder
  <2>3. AckNoted' /\ EndRepeats'
    BY <1>a DEF AckNoted, EndRepeats
  <2>. QED BY <2>e, <2>f, <2>1, <2>2, <2>3
<1>7. OrderInv'
  BY <1>a DEF IInv, OrderInv, Has
<1>8. SeqNamesOneContent'
  BY <1>a DEF IInv, SeqNamesOneContent
<1>9. CompleteUnlessReported'
  <2>. SUFFICES ASSUME verdict' = "complete"
                PROVE  /\ \A n \in 1 .. written : Has(n)'
                       /\ \E e \in received :
                            /\ e.log = job /\ e.file.kind = "terminator"
                            /\ written > 0 => e.file.data = Piece(job, written)
    BY <1>a DEF CompleteUnlessReported
  <2>1. mode = "end" /\ ~incomplete
    BY <1>a, <1>b DEF IInv, ModeInv, Active
  <2>2. /\ cur.kind = "terminator" /\ Kind(files, "chunk") = {} /\ flushed = written
        /\ Accounted /\ (written > 0 => cur.data = Piece(job, written))
    BY <1>a, <1>b, <2>1 DEF IInv, StoreInv, ModeInv, DeliveryInv, EndRepeats, Active
  <2>3. \A n \in 1 .. written : Has(n)'
    BY <1>a, <1>b, <2>2 DEF Accounted, Acked, Kept, InSpool, Kind, Has
  <2> DEFINE e == [log |-> job, file |-> cur]
  <2>4. e \in received /\ e.log = job /\ e.file = cur
    BY <1>b
  <2>. QED BY <2>2, <2>3, <2>4
<1>. QED BY <1>1, <1>2, <1>3, <1>4, <1>5, <1>6, <1>7, <1>8, <1>9 DEF IInv

LEMMA ReplayNextKeeps ==
  ASSUME IInv, ReplayNext
  PROVE  IInv'
<1>1. TypeOK'
  BY DEF IInv, TypeOK, ReplayNext, Hold, writer, output, spool
<1>2. ModeInv'
  BY DEF IInv, TypeOK, ModeInv, ReplayNext, Hold, writer, output, spool
<1>3. NumberInv'
  BY DEF IInv, NumberInv, Active, Arrived, ReplayNext, writer, output, spool
<1>4. StoreInv'
  BY DEF IInv, ModeInv, StoreInv, Storing, Active, ReplayNext, Hold, writer, spool
<1>5. QueueInv'
  BY DEF IInv, QueueInv, Active, Own, ReplayNext, writer, output, spool
<1>6. DeliveryInv'
  BY DEF IInv, ModeInv, DeliveryInv, Accounted, Suffix, AckedFirst, ForeignFirst,
      VisitsInOrder, AckNoted, EndRepeats, Active, Kept, Acked, Has, InSpool, Storing,
      Own, ReplayNext, Hold, writer, output, spool
<1>7. OrderInv'
  BY DEF IInv, OrderInv, Has, ReplayNext, writer
<1>8. SeqNamesOneContent'
  BY DEF IInv, SeqNamesOneContent, ReplayNext
<1>9. CompleteUnlessReported'
  BY DEF IInv, CompleteUnlessReported, Has, ReplayNext, writer
<1>. QED BY <1>1, <1>2, <1>3, <1>4, <1>5, <1>6, <1>7, <1>8, <1>9 DEF IInv

LEMMA ReplaySkipKeeps ==
  ASSUME IInv, ReplaySkip
  PROVE  IInv'
<1>1. TypeOK'
  BY DEF IInv, TypeOK, ReplaySkip, Fault, writer, output, spool
<1>2. ModeInv'
  BY DEF IInv, ModeInv, ReplaySkip, writer, output
<1>3. NumberInv'
  BY DEF IInv, NumberInv, Active, Arrived, ReplaySkip, writer, output, spool
<1>4. StoreInv'
  BY DEF IInv, StoreInv, Storing, Active, ReplaySkip, writer, output, spool
<1>5. QueueInv'
  BY DEF IInv, QueueInv, Active, Own, ReplaySkip, writer, output, spool
<1>6. DeliveryInv'
  BY DEF DeliveryInv, ReplaySkip
<1>7. OrderInv'
  BY DEF OrderInv, ReplaySkip
<1>8. SeqNamesOneContent'
  BY DEF IInv, SeqNamesOneContent, ReplaySkip
<1>9. CompleteUnlessReported'
  BY DEF IInv, CompleteUnlessReported, Has, ReplaySkip, writer
<1>. QED BY <1>1, <1>2, <1>3, <1>4, <1>5, <1>6, <1>7, <1>8, <1>9 DEF IInv

LEMMA ReplayEndKeeps ==
  ASSUME IInv, ReplayEnd
  PROVE  IInv'
<1>1. TypeOK'
  BY DEF IInv, TypeOK, Files, Data, Piece, Nothing, NoFile, ReplayEnd, Release, Hold,
      writer, output, spool
<1>2. ModeInv'
  BY DEF IInv, ModeInv, ReplayEnd, Release, Hold, writer, output
<1>3. NumberInv'
  BY DEF IInv, NumberInv, Active, Arrived, ReplayEnd, writer, output, spool
<1>4. StoreInv'
  BY DEF IInv, ModeInv, StoreInv, Storing, Active, ReplayEnd, Release, Hold, writer,
      spool
<1>5. QueueInv'
  BY DEF IInv, QueueInv, Active, Own, ReplayEnd, writer, output, spool
<1>6. DeliveryInv'
  BY DEF IInv, ModeInv, DeliveryInv, Accounted, Suffix, AckedFirst, ForeignFirst,
      VisitsInOrder, AckNoted, EndRepeats, Active, Kept, Acked, Has, InSpool, Storing,
      Own, ReplayEnd, Release, Hold, writer, output, spool
<1>7. OrderInv'
  BY DEF IInv, OrderInv, Has, ReplayEnd, writer
<1>8. SeqNamesOneContent'
  BY DEF IInv, SeqNamesOneContent, ReplayEnd
<1>9. CompleteUnlessReported'
  BY DEF IInv, CompleteUnlessReported, Has, ReplayEnd, writer
<1>. QED BY <1>1, <1>2, <1>3, <1>4, <1>5, <1>6, <1>7, <1>8, <1>9 DEF IInv

LEMMA FinishGivesUpKeeps ==
  ASSUME IInv, FinishGivesUp
  PROVE  IInv'
<1>1. TypeOK'
  BY DEF IInv, TypeOK, Files, Data, Piece, Nothing, NoFile, FinishGivesUp, Return,
      Release, Hold, writer, output, spool
<1>2. ModeInv'
  BY DEF IInv, ModeInv, FinishGivesUp, Return, Release, Hold, writer, output
<1>3. NumberInv'
  BY DEF IInv, NumberInv, Active, FinishGivesUp, Return, Release, Hold, writer, spool
<1>4. StoreInv'
  BY DEF StoreInv, Storing, Active, FinishGivesUp, Return, Release, Hold
<1>5. QueueInv'
  BY DEF QueueInv, Active, FinishGivesUp, Return, Release, Hold
<1>6. DeliveryInv'
  BY DEF DeliveryInv, FinishGivesUp, Return
<1>7. OrderInv'
  BY DEF OrderInv, FinishGivesUp, Return
<1>8. SeqNamesOneContent'
  BY DEF IInv, SeqNamesOneContent, FinishGivesUp
<1>9. CompleteUnlessReported'
  BY DEF CompleteUnlessReported, FinishGivesUp, Return
<1>. QED BY <1>1, <1>2, <1>3, <1>4, <1>5, <1>6, <1>7, <1>8, <1>9 DEF IInv

LEMMA FinishAgainKeeps ==
  ASSUME IInv, FinishAgain
  PROVE  IInv'
<1>1. TypeOK'
  BY DEF IInv, TypeOK, FinishAgain, Hold, Kind, writer, output, spool
<1>2. ModeInv'
  BY DEF IInv, ModeInv, FinishAgain, Hold, Kind, writer, output, spool
<1>3. NumberInv'
  BY DEF IInv, NumberInv, Active, Arrived, FinishAgain, writer, output, spool
<1>4. StoreInv'
  BY DEF StoreInv, Storing, Kind, FinishAgain, Hold, spool
<1>5. QueueInv'
  BY DEF IInv, QueueInv, Active, Own, FinishAgain, writer, output, spool
<1>6. DeliveryInv'
  BY DEF IInv, TypeOK, ModeInv, DeliveryInv, Accounted, Suffix, AckedFirst,
      ForeignFirst, VisitsInOrder, AckNoted, EndRepeats, Active, Kept, InSpool,
      Storing, Own, FinishAgain, Hold, Kind, writer, output
<1>7. OrderInv'
  BY DEF IInv, OrderInv, Has, FinishAgain, writer
<1>8. SeqNamesOneContent'
  BY DEF IInv, SeqNamesOneContent, FinishAgain
<1>9. CompleteUnlessReported'
  BY DEF IInv, CompleteUnlessReported, Has, FinishAgain, writer
<1>. QED BY <1>1, <1>2, <1>3, <1>4, <1>5, <1>6, <1>7, <1>8, <1>9 DEF IInv

LEMMA FinishNewKeeps ==
  ASSUME IInv, FinishNew
  PROVE  IInv'
<1>a. /\ pc = "finish" /\ files = {} /\ pc' = "store" /\ mode' = "end"
      /\ \/ /\ lastAcked = NoFile /\ next' = next + 1
            /\ cur' = Terminator(job, next, Nothing)
         \/ /\ lastAcked # NoFile /\ next' = next
            /\ cur' = Terminator(job, lastAcked.seq, lastAcked.data)
      /\ UNCHANGED <<job, closed, written, opened, flushed, closing, lastAcked,
                     incomplete, todo, verdict, files, temporary, received, faults>>
  BY DEF FinishNew, Hold, writer, spool
<1>b. Active /\ closing /\ closed /\ flushed = written /\ Arrived' = Arrived
  BY <1>a DEF IInv, ModeInv, Active, Arrived
<1>c. /\ next \in Nat /\ next' \in Nat /\ next <= next'
      /\ job \in Nat /\ lastAcked.seq \in Nat /\ lastAcked.data \in Data
  BY <1>a DEF IInv, TypeOK, Files
<1>d. /\ cur' \in Files /\ cur'.kind = "terminator" /\ cur'.owner = job
      /\ cur'.seq < next'
      /\ \A t \in temporary : t.seq # cur'.seq
      /\ \A r \in Arrived : r.file.seq = cur'.seq => r.file.data = cur'.data
  <2>1. CASE lastAcked = NoFile
    <3>1. cur' = Terminator(job, next, Nothing) /\ next' = next + 1
      BY <1>a, <2>1
    <3>2. cur' \in Files /\ cur'.seq = next
      BY <1>c, <3>1, FilesTyped DEF Terminator
    <3>. QED BY <1>b, <1>c, <3>1, <3>2 DEF Terminator, IInv, NumberInv, TypeOK, Files, Arrived
  <2>2. CASE lastAcked # NoFile
    <3>1. cur' = Terminator(job, lastAcked.seq, lastAcked.data) /\ next' = next
      BY <1>a, <2>2
    <3>2. cur' \in Files
      BY <1>c, <3>1, FilesTyped
    <3> DEFINE last == [log |-> job, file |-> lastAcked]
    <3>3. last \in Arrived /\ last \in received /\ last.log = job /\ last.file = lastAcked
      BY <1>b, <2>2 DEF IInv, NumberInv, Arrived
    <3>4. lastAcked.seq < next /\ \A t \in temporary : t.seq # lastAcked.seq
      BY <1>b, <3>3 DEF IInv, NumberInv
    <3>5. \A r \in Arrived : r.file.seq = lastAcked.seq => r.file.data = lastAcked.data
      BY <3>3 DEF IInv, SeqNamesOneContent, Arrived
    <3>. QED BY <3>1, <3>2, <3>4, <3>5 DEF Terminator
  <2>. QED BY <2>1, <2>2
<1>1. TypeOK'
  BY <1>a, <1>c, <1>d DEF IInv, TypeOK
<1>2. ModeInv'
  BY <1>a DEF IInv, ModeInv
<1>3. NumberInv'
  <2>1. /\ \A f \in files \union temporary : f.seq < next'
        /\ \A r \in Arrived : r.file.seq < next'
    BY <1>b, <1>c DEF IInv, NumberInv, TypeOK, Files, Arrived
  <2>. QED BY <1>a, <1>b, <2>1 DEF IInv, NumberInv, Active
<1>4. StoreInv'
  BY <1>a, <1>b, <1>d DEF IInv, StoreInv, Storing, Kind
<1>5. QueueInv'
  BY <1>a DEF IInv, QueueInv, Active, Own
<1>6. DeliveryInv'
  <2>. SUFFICES ASSUME Active', ~incomplete'
                PROVE  /\ Accounted' /\ Suffix' /\ AckedFirst' /\ ForeignFirst'
                       /\ VisitsInOrder' /\ AckNoted' /\ EndRepeats'
    BY DEF DeliveryInv
  <2>a. /\ Active /\ ~incomplete /\ Accounted /\ Suffix /\ AckedFirst /\ ForeignFirst
        /\ VisitsInOrder /\ AckNoted /\ EndRepeats
    BY <1>a DEF Active, IInv, DeliveryInv, TypeOK
  <2>b. \A n : ~InSpool(n) /\ ~InSpool(n)' /\ ~Kept(n)
    BY <1>a DEF InSpool, Kept, Storing
  <2>c. \A n : Acked(n) => Acked(n)'
    BY <1>a DEF Acked, Has, Own
  <2>d. ASSUME written > 0 PROVE cur'.data = Piece(job, written)
    <3>1. written \in 1 .. flushed /\ written \in Nat
      BY <1>b, <2>d DEF IInv, TypeOK
    <3>2. Own(lastAcked) /\ lastAcked.data.piece >= written
      BY <2>a, <2>b, <3>1 DEF Accounted, Acked
    <3>3. lastAcked.data = Piece(job, lastAcked.data.piece)
          /\ lastAcked.data.piece \in 1 .. flushed
      BY <2>a, <3>2 DEF IInv, QueueInv
    <3>4. lastAcked.data.piece = written
      BY <1>b, <3>1, <3>2, <3>3
    <3>5. lastAcked # NoFile
      BY <3>2 DEF Own, NoFile
    <3>6. cur'.data = lastAcked.data
      BY <1>a, <3>5 DEF Terminator
    <3>. QED BY <3>3, <3>4, <3>6
  <2>1. Accounted'
    BY <1>a, <2>a, <2>b, <2>c DEF Accounted
  <2>2. Suffix'
    BY <2>b DEF Suffix
  <2>3. AckedFirst'
    BY <2>b DEF AckedFirst
  <2>4. ForeignFirst'
    BY <1>a DEF ForeignFirst
  <2>5. VisitsInOrder'
    BY <1>a DEF VisitsInOrder
  <2>6. AckNoted'
    BY <1>a DEF AckNoted
  <2>7. EndRepeats'
    BY <1>a, <2>d DEF EndRepeats
  <2>. QED BY <2>1, <2>2, <2>3, <2>4, <2>5, <2>6, <2>7
<1>7. OrderInv'
  BY <1>a DEF IInv, OrderInv, Has
<1>8. SeqNamesOneContent'
  BY <1>a DEF IInv, SeqNamesOneContent
<1>9. CompleteUnlessReported'
  BY <1>a DEF IInv, CompleteUnlessReported, Has
<1>. QED BY <1>1, <1>2, <1>3, <1>4, <1>5, <1>6, <1>7, <1>8, <1>9 DEF IInv

LEMMA FinishFailedKeeps ==
  ASSUME IInv, FinishFailed
  PROVE  IInv'
<1>1. TypeOK'
  BY DEF IInv, TypeOK, Files, Data, Piece, Nothing, NoFile, FinishFailed, Return,
      Release, Hold, Fault, writer, output, spool
<1>2. ModeInv'
  BY DEF IInv, ModeInv, FinishFailed, Return, Release, Hold, writer, output
<1>3. NumberInv'
  BY DEF IInv, NumberInv, Active, FinishFailed, Return, Release, Hold, writer, spool
<1>4. StoreInv'
  BY DEF StoreInv, Storing, Active, FinishFailed, Return, Release, Hold
<1>5. QueueInv'
  BY DEF QueueInv, Active, FinishFailed, Return, Release, Hold
<1>6. DeliveryInv'
  BY DEF DeliveryInv, FinishFailed, Return
<1>7. OrderInv'
  BY DEF OrderInv, FinishFailed, Return
<1>8. SeqNamesOneContent'
  BY DEF IInv, SeqNamesOneContent, FinishFailed
<1>9. CompleteUnlessReported'
  BY DEF CompleteUnlessReported, FinishFailed, Return
<1>. QED BY <1>1, <1>2, <1>3, <1>4, <1>5, <1>6, <1>7, <1>8, <1>9 DEF IInv

LEMMA CrashKeeps ==
  ASSUME IInv, Crash
  PROVE  IInv'
<1>a. /\ pc # "off" /\ pc' = "off" /\ cur' = NoFile /\ mode' = "none" /\ todo' = {}
      /\ \/ temporary' = temporary
         \/ /\ pc = "store"
            /\ temporary' \in {temporary, temporary \union {cur}, temporary \union {CutShort(cur)}}
      /\ faults' \in Nat
      /\ UNCHANGED <<job, closed, written, opened, flushed, next, closing, lastAcked,
                     incomplete, verdict, files, received>>
  BY DEF Crash, Remains, Release, Hold, Fault, writer, output, IInv, TypeOK
<1>b. PICK t \in {cur, CutShort(cur)} :
        temporary' = temporary \/ (pc = "store" /\ temporary' = temporary \union {t})
  BY <1>a
<1>c. t \in Files /\ t.seq = cur.seq /\ t.kind = cur.kind /\ t.owner = cur.owner
      /\ t.data.job = cur.data.job
  BY CutShortTyped DEF IInv, TypeOK
<1>1. TypeOK'
  <2>1. temporary' \subseteq Files
    BY <1>b, <1>c DEF IInv, TypeOK
  <2>. QED BY <1>a, <2>1, FilesTyped DEF IInv, TypeOK
<1>2. ModeInv'
  BY <1>a DEF IInv, ModeInv
<1>3. NumberInv'
  <2>1. CASE temporary' = temporary
    BY <1>a, <2>1 DEF IInv, NumberInv, Active
  <2>2. CASE pc = "store" /\ temporary' = temporary \union {t}
    <3>1. /\ t.kind # "none" /\ t.owner = job /\ (t.kind = "chunk" => t.data.job = job)
      BY <1>c, <2>2 DEF IInv, ModeInv, StoreInv, Storing, Chunk, Piece
    <3>2. \A f \in files \union temporary : f.seq # t.seq
      BY <1>c, <2>2 DEF IInv, ModeInv, StoreInv, Storing, TypeOK, Files
    <3>3. \A f \in files' \union temporary' : f = t \/ f \in files \union temporary
      BY <1>a, <2>2
    <3>4. job <= job
      BY DEF IInv, TypeOK
    <3>5. \A f, g \in files' \union temporary' : f.seq = g.seq => f = g
      BY <3>2, <3>3 DEF IInv, NumberInv
    <3>6. files' \intersect temporary' = {}
      BY <1>a, <2>2, <3>2 DEF IInv, NumberInv
    <3>. QED BY <1>a, <3>1, <3>3, <3>4, <3>5, <3>6 DEF IInv, NumberInv, Active
  <2>. QED BY <1>b, <2>1, <2>2
<1>4. StoreInv'
  BY <1>a DEF StoreInv, Storing, Active
<1>5. QueueInv'
  BY <1>a DEF QueueInv, Active
<1>6. DeliveryInv'
  BY <1>a DEF DeliveryInv, Active
<1>7. OrderInv'
  BY <1>a DEF IInv, OrderInv, Has
<1>8. SeqNamesOneContent'
  BY <1>a DEF IInv, SeqNamesOneContent
<1>9. CompleteUnlessReported'
  BY <1>a DEF IInv, CompleteUnlessReported, Has
<1>. QED BY <1>1, <1>2, <1>3, <1>4, <1>5, <1>6, <1>7, <1>8, <1>9 DEF IInv

-----------------------------------------------------------------------------
(* The invariant of the specification                                        *)

LEMMA InitHolds == Init => IInv
<1>. SUFFICES ASSUME Init PROVE IInv
  OBVIOUS
<1>1. TypeOK
  BY FilesTyped DEF Init, TypeOK
<1>2. ModeInv
  BY DEF Init, ModeInv, Arrived
<1>3. NumberInv /\ StoreInv /\ QueueInv /\ DeliveryInv
  BY DEF Init, NumberInv, StoreInv, Storing, QueueInv, DeliveryInv, Active
<1>4. OrderInv /\ SeqNamesOneContent /\ CompleteUnlessReported
  BY DEF Init, OrderInv, Has, SeqNamesOneContent, CompleteUnlessReported
<1>. QED BY <1>1, <1>2, <1>3, <1>4 DEF IInv

LEMMA UploaderKeeps ==
  ASSUME IInv, Uploader
  PROVE  IInv'
<1>1. CASE \E listed \in BOOLEAN : Flush(listed)
  BY <1>1, FlushKeeps
<1>2. CASE Tick \/ Close
  <2>1. PICK last \in BOOLEAN, listed \in BOOLEAN : BeginReplay(last, listed)
    BY <1>2 DEF Tick, Close
  <2>. QED BY <2>1, BeginReplayKeeps
<1>3. CASE FlushUnopened \/ CloseUnopened
  BY <1>3, FlushUnopenedKeeps, CloseUnopenedKeeps
<1>4. CASE Store \/ StoreFailed \/ Send \/ SendFailed
  BY <1>4, StoreKeeps, StoreFailedKeeps, SendKeeps, SendFailedKeeps
<1>5. CASE \E ok \in BOOLEAN : Remove(ok)
  BY <1>5, RemoveKeeps
<1>6. CASE ReplayNext \/ ReplaySkip \/ ReplayEnd
  BY <1>6, ReplayNextKeeps, ReplaySkipKeeps, ReplayEndKeeps
<1>7. CASE FinishGivesUp \/ FinishAgain \/ FinishNew \/ FinishFailed
  BY <1>7, FinishGivesUpKeeps, FinishAgainKeeps, FinishNewKeeps, FinishFailedKeeps
<1>. QED BY <1>1, <1>2, <1>3, <1>4, <1>5, <1>6, <1>7 DEF Uploader

LEMMA StutterKeeps ==
  ASSUME IInv, UNCHANGED vars
  PROVE  IInv'
<1>. USE DEF vars, writer, output, spool
<1>1. TypeOK' /\ ModeInv'
  BY DEF IInv, TypeOK, ModeInv, Arrived
<1>2. NumberInv' /\ StoreInv'
  BY DEF IInv, NumberInv, StoreInv, Storing, Active, Arrived
<1>3. QueueInv' /\ OrderInv'
  BY DEF IInv, QueueInv, OrderInv, Active, Own, Has
<1>4. DeliveryInv'
  BY DEF IInv, DeliveryInv, Accounted, Suffix, AckedFirst, ForeignFirst, VisitsInOrder,
         AckNoted, EndRepeats, Active, Kept, Acked, Has, InSpool, Storing, Own
<1>5. SeqNamesOneContent' /\ CompleteUnlessReported'
  BY DEF IInv, SeqNamesOneContent, CompleteUnlessReported, Has
<1>. QED BY <1>1, <1>2, <1>3, <1>4, <1>5 DEF IInv

\* The invariant of every behaviour: nothing a job, a failure or a crash does to
\* the spool of a run breaks the order and the numbering that delivery rests on.
THEOREM SpoolInvariant == Spec => []IInv
<1>1. ASSUME IInv, [Next]_vars PROVE IInv'
  <2>1. CASE Start \/ StartUnopened \/ CleanUpStale \/ Write \/ DropWriters
    BY <1>1, <2>1, StartKeeps, StartUnopenedKeeps, CleanUpStaleKeeps, WriteKeeps,
       DropWritersKeeps
  <2>2. CASE Uploader
    BY <1>1, <2>2, UploaderKeeps
  <2>3. CASE Crash
    BY <1>1, <2>3, CrashKeeps
  <2>4. CASE UNCHANGED vars
    BY <1>1, <2>4, StutterKeeps
  <2>. QED BY <1>1, <2>1, <2>2, <2>3, <2>4 DEF Next
<1>. QED BY <1>1, InitHolds, PTL DEF Spec

-----------------------------------------------------------------------------
(* What it establishes                                                       *)

\* Type correctness: the uploader's state, the spool and the log stay what
\* logs.rs declares them to be.
THEOREM SpoolTypeCorrect == Spec => []TypeOK
<1>1. IInv => TypeOK
  BY DEF IInv
<1>. QED BY <1>1, SpoolInvariant, PTL

\* A sequence number stands for one content within a log, through retries,
\* replays, restarts and the terminator: the control plane may deduplicate by it.
THEOREM OneContentPerNumber == Spec => []SeqNamesOneContent
<1>1. IInv => SeqNamesOneContent
  BY DEF IInv
<1>. QED BY <1>1, SpoolInvariant, PTL

\* As long as the flag of an incomplete log is not raised, the log receives a
\* prefix of the job's output, in the order in which it was written.
THEOREM DeliveredInOrder == Spec => []OrderedWhileComplete
<1>1. IInv => OrderedWhileComplete
  BY DEF IInv, OrderInv, OrderedWhileComplete, TypeOK
<1>. QED BY <1>1, SpoolInvariant, PTL

\* A log that finish() calls complete was received whole, up to the terminator.
THEOREM CompleteOrReported == Spec => []CompleteUnlessReported
<1>1. IInv => CompleteUnlessReported
  BY DEF IInv
<1>. QED BY <1>1, SpoolInvariant, PTL

\* No file is removed from the spool in use before the control plane has it.
THEOREM LeavesOnlyDelivered == Spec => FilesLeaveDelivered
<1> DEFINE Leaves == \A f \in files \ files' :
                       pc = "off" \/ [log |-> job, file |-> f] \in received
<1>1. ASSUME IInv, [Next]_vars PROVE Leaves \/ UNCHANGED vars
  <2>1. CASE CleanUpStale \/ Start \/ StartUnopened
    BY <2>1 DEF CleanUpStale, Start, StartUnopened, Begin
  <2>2. CASE \E ok \in BOOLEAN : Remove(ok)
    BY <1>1, <2>2 DEF Remove, IInv, ModeInv
  <2>3. CASE Store
    BY <2>3 DEF Store
  <2>4. CASE UNCHANGED files
    BY <2>4
  <2>. QED BY <1>1, <2>1, <2>2, <2>3, <2>4
        DEF Next, Uploader, Write, DropWriters, Crash, Flush, FlushUnopened, Tick, Close,
            BeginReplay, CloseUnopened, StoreFailed, Send, SendFailed, ReplayNext,
            ReplaySkip, ReplayEnd, FinishGivesUp, FinishAgain, FinishNew, FinishFailed,
            vars, spool
<1>2. ASSUME IInv, [Next]_vars PROVE [Leaves]_vars
  BY <1>1, <1>2
<1>. QED BY <1>2, SpoolInvariant, PTL DEF Spec, FilesLeaveDelivered
=============================================================================
