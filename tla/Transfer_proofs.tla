---------------------------- MODULE Transfer_proofs ----------------------------
(***************************************************************************)
(* Proofs about Transfer: for every number of versions, sizes, limits and    *)
(* attempts, a download returns one version whole, or the server did one of  *)
(* the things that nothing in the requests forbids.                          *)
(***************************************************************************)
EXTENDS Transfer, TLAPS

tvars == <<transfer, stored>>

\* While the server did nothing worse than to end a body early, the output is a part of
\* the version that comes and goes on where it ended; if it did nothing at all, what
\* comes is the rest of it.  And memory never takes a part it did not ask for.
Coherent ==
  /\ transfer.variant = "memory" => "misranged" \notin transfer.faulty
  /\ transfer.faulty \subseteq {"short"} =>
       /\ IsPart(transfer.output, transfer.version)
       /\ Len(transfer.output) <= Size[transfer.version]
       /\ transfer.st = "body" => /\ transfer.next = Len(transfer.output) + 1
                                 /\ transfer.last <= Size[transfer.version]
  /\ transfer.faulty = {} =>
       /\ transfer.st = "body" => transfer.last = Size[transfer.version]
       /\ transfer.st = "done" => Len(transfer.output) = Size[transfer.version]

TInv == TransferType /\ Coherent

\* Nothing collected yet is a part of any version (Idle, Carried).
LEMMA NothingIsPart ==
  ASSUME NEW v \in Versions
  PROVE  /\ IsPart(<<>>, v) /\ Len(<<>>) = 0 /\ Len(<<>>) <= Size[v] /\ <<>> \in Seq(Block)
         /\ Len(<<>>) <= Limit
  BY TransferConstants DEF IsPart, TransferConstants

\* The blocks that Chunk appends make a longer part.
LEMMA PartGrows ==
  ASSUME NEW v \in Versions, NEW output \in Seq(Block), NEW n \in Nat \ {0}
  PROVE  LET longer == Append(output, [version |-> v, at |-> n])
         IN  /\ longer \in Seq(Block) /\ Len(longer) = Len(output) + 1
             /\ IsPart(output, v) /\ n = Len(output) + 1 => IsPart(longer, v)
  <1> DEFINE b == [version |-> v, at |-> n]
             longer == Append(output, b)
  <1>1. b \in Block
    BY DEF Block
  <1>2. /\ longer \in Seq(Block) /\ Len(longer) = Len(output) + 1
        /\ \A i \in 1..Len(output) : longer[i] = output[i]
        /\ longer[Len(output) + 1] = b
    BY <1>1
  <1>3. ASSUME IsPart(output, v), n = Len(output) + 1
        PROVE  IsPart(longer, v)
    <2> SUFFICES ASSUME NEW i \in 1..Len(longer)
                 PROVE  longer[i] = [version |-> v, at |-> i]
      BY DEF IsPart
    <2>1. CASE i \in 1..Len(output)
      BY <2>1, <1>2, <1>3 DEF IsPart
    <2>2. CASE i = Len(output) + 1
      BY <2>2, <1>2, <1>3
    <2> QED
      BY <2>1, <2>2, <1>2
  <1> HIDE DEF b, longer
  <1> QED
    BY <1>2, <1>3 DEF longer, b

\* An accepted answer, field by field.
LEMMA AcceptedFields ==
  ASSUME TransferType, NEW a, Accepted(a)
  PROVE  /\ transfer' = [st |-> "body", variant |-> transfer.variant,
                         attempt |-> transfer.attempt, output |-> Carried(a),
                         version |-> stored, next |-> a.first, last |-> a.last,
                         faulty |-> Faults(a)]
         /\ transfer'.st = "body" /\ transfer'.variant = transfer.variant
         /\ transfer'.output = Carried(a) /\ transfer'.version = stored
         /\ transfer'.next = a.first /\ transfer'.last = a.last
         /\ transfer'.faulty = Faults(a)
         /\ stored' = stored
  <1> HIDE DEF Carried, Faults
  <1> QED
    BY DEF TransferType, Accepted

\* What an answer can be.
LEMMA AnswerFields ==
  ASSUME TransferType, NEW a \in Answers
  PROVE  /\ a.first \in Nat \ {0} /\ a.last \in Nat /\ a.last <= Size[stored]
         /\ a.status \in {"ok", "partial", "other"}
         /\ a.status = "ok" => a.first = 1
         /\ Size[stored] \in Nat \ {0} /\ stored \in Versions
  <1>1. Size[stored] \in Nat \ {0} /\ stored \in Versions
    BY TransferConstants DEF TransferType, TransferConstants
  <1> QED
    BY <1>1 DEF Answers

\* What the server did with an answer: at most an early end, with a whole object; and
\* no more with another one only if it begins where the output ended, in the same version.
LEMMA FaultsAre ==
  ASSUME TransferType, NEW a \in Answers
  PROVE  /\ Faults(a) \subseteq {"replaced", "misranged", "unasked", "short"}
         /\ a.status = "ok" => Faults(a) \subseteq {"short"}
         /\ a.status # "ok" /\ Faults(a) \subseteq {"short"} =>
              /\ a.first = Asked
              /\ transfer.output = <<>>
                   \/ (transfer.faulty \subseteq {"short"} /\ transfer.version = stored)
         /\ Faults(a) = {} => a.last = Size[stored]
         /\ "misranged" \in Faults(a) => Misplaced(a) \/ "misranged" \in transfer.faulty
  <1> DEFINE old == IF transfer.output = <<>> THEN {}
                    ELSE (transfer.faulty \ {"short"}) \union Replaced
  <1>1. /\ Astray(a) \subseteq {"misranged", "unasked"}
        /\ Astray(a) \subseteq {"short"} => a.first = Asked
        /\ "misranged" \in Astray(a) => Misplaced(a)
    BY DEF Astray, Misplaced
  <1>2. /\ Short(a) \subseteq {"short"}
        /\ Short(a) = {} => a.last = Size[stored]
    BY DEF Short
  <1>3. /\ old \subseteq {"replaced", "misranged", "unasked"}
        /\ "misranged" \in old => "misranged" \in transfer.faulty
        /\ old \subseteq {"short"} =>
              transfer.output = <<>>
                \/ (transfer.faulty \subseteq {"short"} /\ transfer.version = stored)
    BY DEF Replaced, TransferType
  <1>4. Faults(a) = Short(a) \union IF a.status = "ok" THEN {} ELSE Astray(a) \union old
    BY DEF Faults
  <1> HIDE DEF old
  <1> QED
    BY <1>1, <1>2, <1>3, <1>4

\* An idle download, field by field.
LEMMA IdleFields ==
  ASSUME stored \in Versions
  PROVE  \E v \in Versions :
           Idle = [st |-> "idle", variant |-> "file", attempt |-> 0, output |-> <<>>,
                   version |-> v, next |-> 1, last |-> 0, faulty |-> {}]
  BY DEF Idle

\* An idle download satisfies the invariant.
LEMMA NothingIsTyped ==
  ASSUME stored \in Versions, transfer = Idle
  PROVE  TInv
  <1>1. PICK v \in Versions :
          transfer = [st |-> "idle", variant |-> "file", attempt |-> 0, output |-> <<>>,
                      version |-> v, next |-> 1, last |-> 0, faulty |-> {}]
    BY IdleFields
  <1>2. IsPart(<<>>, v) /\ <<>> \in Seq(Block) /\ Len(<<>>) = 0
        /\ 0 <= Size[v] /\ 0 <= Limit /\ 0 \in 0..MaxAttempts
    BY NothingIsPart, TransferConstants DEF TransferConstants
  <1> QED
    BY <1>1, <1>2 DEF TInv, TransferType, Coherent, Variants

\* Idle and Begin start with nothing, and Fail leaves nothing.
LEMMA NothingKeeps ==
  ASSUME stored \in Versions, stored' \in Versions,
         transfer' = Idle \/ Fail \/ \E variant \in Variants : Begin(variant)
  PROVE  TInv'
  <1>1. PICK v \in Versions :
          Idle = [st |-> "idle", variant |-> "file", attempt |-> 0, output |-> <<>>,
                  version |-> v, next |-> 1, last |-> 0, faulty |-> {}]
    BY IdleFields
  <1>2. PICK variant \in Variants, st \in {"idle", "request", "failed"}, n \in {0, 1} :
          transfer' = [st |-> st, variant |-> variant, attempt |-> n, output |-> <<>>,
                       version |-> v, next |-> 1, last |-> 0, faulty |-> {}]
    BY <1>1 DEF Begin, Fail, Variants
  <1>3. n \in 0..MaxAttempts
    BY TransferConstants DEF TransferConstants
  <1>4. /\ IsPart(<<>>, v) /\ Len(<<>>) = 0 /\ <<>> \in Seq(Block)
        /\ 0 <= Size[v] /\ 0 <= Limit
    BY NothingIsPart
  <1>5. TransferType'
    BY <1>2, <1>3, <1>4 DEF TransferType, Variants
  <1>6. Coherent'
    BY <1>2, <1>4 DEF Coherent, IsPart
  <1> QED
    BY <1>5, <1>6 DEF TInv

\* A download that fails keeps nothing, one that asks again what it had.
LEMMA FailKeeps ==
  ASSUME TInv, Fail, stored' = stored
  PROVE  TInv'
  BY NothingKeeps DEF TInv, TransferType

LEMMA RetryKeeps ==
  ASSUME TInv, Retry, stored' = stored
  PROVE  TInv'
  <1>1. CASE transfer.attempt < MaxAttempts
    <2>1. transfer.attempt + 1 \in 0..MaxAttempts
      BY <1>1, TransferConstants DEF TInv, TransferType, TransferConstants
    <2>2. transfer' = [transfer EXCEPT !.st = "request", !.attempt = transfer.attempt + 1,
                                       !.next = 1, !.last = 0]
      BY <1>1 DEF Retry
    <2>3. /\ transfer'.st = "request" /\ transfer'.variant = transfer.variant
          /\ transfer'.output = transfer.output /\ transfer'.version = transfer.version
          /\ transfer'.faulty = transfer.faulty
      BY <2>2 DEF TInv, TransferType
    <2>4. transfer' = [st |-> "request", variant |-> transfer.variant,
                       attempt |-> transfer.attempt + 1, output |-> transfer.output,
                       version |-> transfer.version, next |-> 1, last |-> 0,
                       faulty |-> transfer.faulty]
      BY <2>2 DEF TInv, TransferType
    <2>5. TransferType'
      BY <2>1, <2>3, <2>4 DEF TInv, TransferType
    <2>6. Coherent'
      BY <2>3 DEF TInv, Coherent, IsPart
    <2> QED
      BY <2>5, <2>6 DEF TInv
  <1>2. CASE ~(transfer.attempt < MaxAttempts)
    BY <1>2, FailKeeps DEF Retry
  <1> QED
    BY <1>1, <1>2

\* An answer that is taken as it comes: the whole object, or what goes on from the
\* output, unless the server is at fault.
LEMMA AcceptedKeeps ==
  ASSUME TInv, NEW a \in Answers, Accepted(a)
  PROVE  TInv'
  <1> USE DEF TInv
  <1>1. /\ a.first \in Nat \ {0} /\ a.last \in Nat /\ a.last <= Size[stored]
        /\ a.status = "ok" => a.first = 1
        /\ Size[stored] \in Nat \ {0} /\ stored \in Versions
    BY AnswerFields
  <1>2. /\ Carried(a) = IF a.status = "ok" THEN <<>> ELSE transfer.output
        /\ Carried(a) \in Seq(Block) /\ Len(Carried(a)) <= Limit
        /\ Len(<<>>) = 0 /\ IsPart(<<>>, stored)
    BY <1>1, NothingIsPart DEF Carried, TransferType
  <1>3. /\ transfer' = [st |-> "body", variant |-> transfer.variant,
                        attempt |-> transfer.attempt, output |-> Carried(a),
                        version |-> stored, next |-> a.first, last |-> a.last,
                        faulty |-> Faults(a)]
        /\ transfer'.st = "body" /\ transfer'.variant = transfer.variant
        /\ transfer'.output = Carried(a) /\ transfer'.version = stored
        /\ transfer'.next = a.first /\ transfer'.last = a.last
        /\ transfer'.faulty = Faults(a)
        /\ stored' = stored
    BY AcceptedFields
  <1>4. /\ Faults(a) \subseteq {"replaced", "misranged", "unasked", "short"}
        /\ a.status = "ok" => Faults(a) \subseteq {"short"}
        /\ a.status # "ok" /\ Faults(a) \subseteq {"short"} =>
             /\ a.first = Asked
             /\ transfer.output = <<>>
                  \/ (transfer.faulty \subseteq {"short"} /\ transfer.version = stored)
        /\ Faults(a) = {} => a.last = Size[stored]
        /\ "misranged" \in Faults(a) => Misplaced(a) \/ "misranged" \in transfer.faulty
    BY FaultsAre
  <1> HIDE DEF Carried, Faults, Answers
  <1>5. TransferType'
    <2>1. transfer.variant \in Variants /\ transfer.attempt \in 0..MaxAttempts
      BY DEF TransferType
    <2> QED
      BY <1>1, <1>2, <1>3, <1>4, <2>1 DEF TransferType
  <1>6. ASSUME transfer'.variant = "memory"
        PROVE  "misranged" \notin transfer'.faulty
    <2>1. ~Misplaced(a) /\ "misranged" \notin transfer.faulty
      BY <1>6, <1>3 DEF Accepted, Coherent
    <2> QED
      BY <2>1, <1>3, <1>4
  <1>7. ASSUME transfer'.faulty \subseteq {"short"}
        PROVE  /\ IsPart(Carried(a), stored) /\ Len(Carried(a)) <= Size[stored]
               /\ a.first = Len(Carried(a)) + 1
    <2>1. CASE a.status = "ok"
      BY <2>1, <1>1, <1>2
    <2>2. CASE a.status # "ok"
      <3>1. Carried(a) = transfer.output /\ a.first = Len(transfer.output) + 1
        BY <2>2, <1>2, <1>3, <1>4, <1>7 DEF Asked
      <3>2. CASE transfer.output = <<>>
        BY <3>1, <3>2, <1>1, <1>2
      <3>3. CASE transfer.faulty \subseteq {"short"} /\ transfer.version = stored
        BY <3>1, <3>3 DEF Coherent
      <3> QED
        BY <2>2, <3>2, <3>3, <1>3, <1>4, <1>7
    <2> QED
      BY <2>1, <2>2
  <1>8. transfer'.faulty = {} => a.last = Size[stored]
    BY <1>1, <1>3, <1>4
  <1>9. Coherent'
    BY <1>1, <1>3, <1>6, <1>7, <1>8 DEF Coherent, IsPart
  <1> QED
    BY <1>5, <1>9

\* A step of a download keeps the invariant.
LEMMA DownloadKeeps ==
  ASSUME TInv, Download
  PROVE  TInv'
  <1> USE DEF TInv
  <1>1. CASE NoAnswer
    BY <1>1, RetryKeeps DEF NoAnswer
  <1>2. CASE Unauthorized
    BY <1>2, FailKeeps DEF Unauthorized
  <1>3. ASSUME NEW a \in Answers, Rejected(a)
        PROVE  TInv'
    BY <1>3, FailKeeps DEF Rejected
  <1>4. ASSUME NEW a \in Answers, Accepted(a)
        PROVE  TInv'
    BY <1>4, AcceptedKeeps
  <1>5. ASSUME NEW transient \in BOOLEAN, ErrorStatus(transient)
        PROVE  TInv'
    BY <1>5, RetryKeeps, FailKeeps DEF ErrorStatus
  <1>6. CASE Chunk
    <2>1. CASE Len(transfer.output) < Limit
      <3> DEFINE longer == Append(transfer.output,
                                  [version |-> transfer.version, at |-> transfer.next])
      <3>1. /\ longer \in Seq(Block) /\ Len(longer) = Len(transfer.output) + 1
            /\ IsPart(transfer.output, transfer.version)
                 /\ transfer.next = Len(transfer.output) + 1 => IsPart(longer, transfer.version)
        BY PartGrows DEF TransferType
      <3>2. transfer' = [transfer EXCEPT !.output = longer, !.next = @ + 1]
        BY <1>6, <2>1 DEF Chunk
      <3>3. /\ transfer.next <= transfer.last /\ transfer.st = "body"
            /\ Size[transfer.version] \in Nat /\ stored' = stored
            /\ transfer.last \in Nat /\ Len(transfer.output) \in Nat
        BY <1>6, TransferConstants DEF Chunk, TransferType, TransferConstants
      <3> HIDE DEF longer
      <3>4. /\ transfer'.st = "body" /\ transfer'.variant = transfer.variant
            /\ transfer'.output = longer /\ transfer'.version = transfer.version
            /\ transfer'.next = transfer.next + 1 /\ transfer'.faulty = transfer.faulty
            /\ transfer'.last = transfer.last
            /\ transfer.next + 1 \in Nat \ {0} /\ transfer.next \in Nat
        BY <3>2, <3>3 DEF TransferType
      <3>5. Len(longer) <= Limit
        BY <2>1, <3>1, TransferConstants DEF TransferType, TransferConstants
      <3>6. TransferType'
        BY <3>1, <3>2, <3>3, <3>4, <3>5 DEF TransferType
      <3>7. Coherent'
        BY <3>1, <3>3, <3>4 DEF Coherent
      <3> QED
        BY <3>6, <3>7
    <2>2. CASE ~(Len(transfer.output) < Limit)
      BY <2>2, <1>6, FailKeeps DEF Chunk
    <2> QED
      BY <2>1, <2>2
  <1>7. CASE Broken
    BY <1>7, RetryKeeps DEF Broken
  <1>8. CASE Complete
    <2>1. /\ Size[transfer.version] \in Nat /\ Len(transfer.output) \in Nat
          /\ 0 \in 0..MaxAttempts /\ transfer.next \in Nat /\ transfer.last \in Nat
      BY TransferConstants DEF TransferConstants, TransferType
    <2>2. /\ transfer.st = "body" /\ transfer.next > transfer.last /\ stored' = stored
          /\ transfer' = [transfer EXCEPT !.st = "done", !.attempt = 0, !.next = 1, !.last = 0]
      BY <1>8 DEF Complete
    <2>3. /\ transfer'.st = "done" /\ transfer'.variant = transfer.variant
          /\ transfer'.output = transfer.output /\ transfer'.version = transfer.version
          /\ transfer'.faulty = transfer.faulty
      BY <2>2 DEF TransferType
    <2>4. transfer' = [st |-> "done", variant |-> transfer.variant, attempt |-> 0,
                       output |-> transfer.output, version |-> transfer.version,
                       next |-> 1, last |-> 0, faulty |-> transfer.faulty]
      BY <2>2 DEF TransferType
    <2>5. transfer.faulty = {} => Len(transfer.output) = Size[transfer.version]
      BY <2>1, <2>2 DEF Coherent
    <2>6. TransferType'
      BY <2>1, <2>2, <2>3, <2>4 DEF TransferType
    <2>7. Coherent'
      BY <2>3, <2>5 DEF Coherent, IsPart
    <2> QED
      BY <2>6, <2>7
  <1>9. CASE Dropped
    BY <1>9, FailKeeps DEF Dropped
  <1> QED
    BY <1>1, <1>2, <1>3, <1>4, <1>5, <1>6, <1>7, <1>8, <1>9 DEF Download

\* The invariant holds of every use of the download, whatever the server answers: any
\* status, any part, any version (get_artifact_file, get_artifact_retry).
THEOREM TransferInvariant == TransferSpec => []TInv
  <1>1. TransferInit => TInv
    BY NothingIsTyped DEF TransferInit
  <1>2. TInv /\ [TransferNext]_tvars => TInv'
    <2> SUFFICES ASSUME TInv, [TransferNext]_tvars
                 PROVE  TInv'
      OBVIOUS
    <2>0. stored \in Versions
      BY DEF TInv, TransferType
    <2>1. CASE Download
      BY <2>1, DownloadKeeps
    <2>2. ASSUME NEW v \in Versions, Overwritten(v)
          PROVE  TInv'
      BY <2>2 DEF Overwritten, TInv, TransferType, Coherent, IsPart
    <2>3. CASE stored' \in Versions /\ \E variant \in Variants : Begin(variant)
      BY <2>3, <2>0, NothingKeeps
    <2>4. CASE stored' = stored /\ transfer' = Idle
      BY <2>4, <2>0, NothingKeeps
    <2>5. CASE UNCHANGED tvars
      BY <2>5 DEF tvars, TInv, TransferType, Coherent, IsPart
    <2> QED
      BY <2>1, <2>2, <2>3, <2>4, <2>5 DEF TransferNext
  <1> QED
    BY <1>1, <1>2, PTL DEF TransferSpec, tvars

\* Variables keep their types.
THEOREM TransferTypeCorrect == TransferSpec => []TransferType
  <1>1. TInv => TransferType
    BY DEF TInv
  <1> QED
    BY <1>1, TransferInvariant, PTL

\* Without any of the faults that DownloadIsWhole names the server did nothing, and then
\* the output of a finished download is the whole of one version.
LEMMA TInvIsWhole ==
  ASSUME TInv
  PROVE  DownloadIsWhole
  <1> SUFFICES ASSUME transfer.st = "done",
                      transfer.faulty \intersect {"replaced", "unasked", "short"} = {},
                      ~(transfer.variant = "file" /\ "misranged" \in transfer.faulty)
               PROVE  Whole(transfer.output, transfer.version)
    BY DEF DownloadIsWhole
  <1>1. transfer.faulty = {}
    BY DEF TInv, TransferType, Coherent, Variants
  <1> QED
    BY <1>1 DEF TInv, Coherent, Whole

\* Whatever breaks off, is asked for again or answered with something else: a
\* download that returns has one version whole, unless the object was replaced between
\* two answers, an answer began where nothing was asked for or ended too early, or a
\* file's partial answer began elsewhere (get_artifact_file, get_artifact_retry).
THEOREM ReturnsWhole == TransferSpec => []DownloadIsWhole
  <1>1. TInv => DownloadIsWhole
    BY TInvIsWhole
  <1> QED
    BY <1>1, TransferInvariant, PTL
=============================================================================
