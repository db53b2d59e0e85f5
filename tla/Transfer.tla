------------------------------- MODULE Transfer -------------------------------
(***************************************************************************)
(* A download of client.rs: get_artifact_file ("file": archives and          *)
(* snapshots) and get_artifact_retry ("memory": tools and their checksums).  *)
(* Both make up to MaxAttempts requests, ask for the rest of what a broken   *)
(* answer left behind, and differ in what they check of the answer.          *)
(*                                                                         *)
(* What is downloaded comes in blocks.  The server is external: it may serve *)
(* another version of the object at every request, ignore the range, send    *)
(* another part than the one asked for or less of it, or answer with any     *)
(* status.  Its Content-Range names where the part begins that it sends.     *)
(* The pauses between attempts are left out.                                 *)
(***************************************************************************)
EXTENDS Integers, Sequences

CONSTANTS
  Versions,     \* of the object that is downloaded
  Size,         \* blocks of each version
  Limit,        \* MAX_ARTIFACT_BYTES
  MaxAttempts   \* MAX_ARTIFACT_ATTEMPTS

ASSUME TransferConstants ==
  /\ Size \in [Versions -> Nat \ {0}]
  /\ Limit \in Nat
  /\ MaxAttempts \in Nat \ {0}

VARIABLES
  transfer,     \* the download
  stored        \* the version the server has now

Variants == {"file", "memory"}
Block == [version : Versions, at : Nat \ {0}]

\* An idle download.  "version" is that of the last answer, and means nothing before
\* there was one; "next" and "last" bound what is to come of its body.  "faulty" is a
\* history: what the server did while the present output was collected.
Idle == [st |-> "idle", variant |-> "file", attempt |-> 0, output |-> <<>>,
         version |-> CHOOSE v \in Versions : TRUE, next |-> 1, last |-> 0, faulty |-> {}]

Active == transfer.st \in {"request", "body"}

Begin(variant) ==
  transfer' = [Idle EXCEPT !.st = "request", !.variant = variant, !.attempt = 1]

\* What was collected is of no use to anybody.
Fail == transfer' = [Idle EXCEPT !.st = "failed"]

\* The next attempt, which asks for what is missing, or none.
Retry ==
  IF transfer.attempt < MaxAttempts
    THEN transfer' = [transfer EXCEPT !.st = "request", !.attempt = @ + 1,
                                      !.next = 1, !.last = 0]
    ELSE Fail

\* The block that the present request asks for, with all that follow it.
Asked == Len(transfer.output) + 1

-----------------------------------------------------------------------------
(* Answers to a request                                                      *)

NoAnswer ==
  /\ transfer.st = "request"
  /\ Retry
  /\ UNCHANGED stored

\* A 401 ends the download.
Unauthorized ==
  /\ transfer.st = "request"
  /\ Fail
  /\ UNCHANGED stored

\* An error: a file is asked for again whatever the status, memory only if the
\* status is a transient one.
ErrorStatus(transient) ==
  /\ transfer.st = "request"
  /\ IF transfer.variant = "file" \/ transient THEN Retry ELSE Fail
  /\ UNCHANGED stored

\* The answers that are not errors (200, 206, any other), with the blocks of their
\* bodies.  Nothing tells a whole body from one that ends early: a server may send less,
\* and without a length a connection that is closed is the end.
Answers ==
  LET n == Size[stored] IN
  [status : {"ok", "other"}, first : {1}, last : 0..n]
  \union {a \in [status : {"partial"}, first : 1..n, last : 1..n] : a.first <= a.last}

\* What the server did to the blocks collected so far by going on with answer a:
\* the object was replaced since, the part begins elsewhere, after a range was asked
\* for or where none was, or ends too early.  An early end is made good by an answer
\* that goes on from there.
Replaced == IF transfer.version = stored THEN {} ELSE {"replaced"}
Astray(a) ==
  IF a.first = Asked THEN {}
  ELSE IF a.status = "partial" /\ transfer.output # <<>> THEN {"misranged"} ELSE {"unasked"}
Short(a) == IF a.last = Size[stored] THEN {} ELSE {"short"}

Faults(a) ==
  Short(a) \union
  (IF a.status = "ok" THEN {}
   ELSE Astray(a) \union
        IF transfer.output = <<>> THEN {} ELSE (transfer.faulty \ {"short"}) \union Replaced)

\* Mutant of Carried: what there was is kept.
CarriedAlways(a) == transfer.output

\* A 200 is taken to hold everything, asked for a range or not.
Carried(a) == IF a.status = "ok" THEN <<>> ELSE transfer.output

\* Content-Range shows that another part comes than the one asked for.  Only memory
\* looks at it, and neither looks at where the part ends.
Misplaced(a) == a.status = "partial" /\ transfer.output # <<>> /\ a.first # Asked

\* Memory may be told the length of the body, too.
TooLong(a) == Len(Carried(a)) + (a.last + 1 - a.first) > Limit

Rejected(a) ==
  /\ transfer.st = "request" /\ transfer.variant = "memory"
  /\ Misplaced(a) \/ TooLong(a)
  /\ Fail
  /\ UNCHANGED stored

Accepted(a) ==
  /\ transfer.st = "request"
  /\ transfer.variant = "memory" => ~Misplaced(a)
  /\ transfer' = [transfer EXCEPT !.st = "body", !.output = Carried(a), !.version = stored,
                                  !.next = a.first, !.last = a.last, !.faulty = Faults(a)]
  /\ UNCHANGED stored

-----------------------------------------------------------------------------
(* The body                                                                  *)

Chunk ==
  /\ transfer.st = "body" /\ transfer.next <= transfer.last
  /\ IF Len(transfer.output) < Limit
       THEN transfer' = [transfer EXCEPT
              !.output = Append(@, [version |-> transfer.version, at |-> transfer.next]),
              !.next = @ + 1]
       ELSE Fail
  /\ UNCHANGED stored

\* The connection breaks, or brings nothing for the idle timeout.
Broken ==
  /\ transfer.st = "body"
  /\ Retry
  /\ UNCHANGED stored

\* The body has ended; that is all the download asks for.
Complete ==
  /\ transfer.st = "body" /\ transfer.next > transfer.last
  /\ transfer' = [transfer EXCEPT !.st = "done", !.attempt = 0, !.next = 1, !.last = 0]
  /\ UNCHANGED stored

\* The deadline of the job drops the download (await_deadline).
Dropped ==
  /\ Active
  /\ Fail
  /\ UNCHANGED stored

Download ==
  \/ NoAnswer \/ Unauthorized
  \/ \E transient \in BOOLEAN : ErrorStatus(transient)
  \/ \E a \in Answers : Rejected(a) \/ Accepted(a)
  \/ Chunk \/ Broken \/ Complete \/ Dropped

\* Somebody puts version v in the place of the stored one.
Overwritten(v) == stored' = v /\ UNCHANGED transfer

-----------------------------------------------------------------------------
(* The download by itself, for any use of it                                 *)

TransferInit == stored \in Versions /\ transfer = Idle

TransferNext ==
  \/ Download
  \/ \E v \in Versions : Overwritten(v)
  \/ ~Active /\ stored' \in Versions /\ \E variant \in Variants : Begin(variant)
  \/ ~Active /\ UNCHANGED stored /\ transfer' = Idle

TransferSpec == TransferInit /\ [][TransferNext]_<<transfer, stored>>

-----------------------------------------------------------------------------
TransferType ==
  /\ stored \in Versions
  /\ transfer \in [st : {"idle", "request", "body", "done", "failed"},
                   variant : Variants, attempt : 0..MaxAttempts, output : Seq(Block),
                   version : Versions, next : Nat \ {0}, last : Nat,
                   faulty : SUBSET {"replaced", "misranged", "unasked", "short"}]
  /\ Len(transfer.output) <= Limit

\* The output is a beginning of version v, or all of it.
IsPart(output, v) ==
  \A i \in 1..Len(output) : output[i] = [version |-> v, at |-> i]

Whole(output, v) == Len(output) = Size[v] /\ IsPart(output, v)

\* However often a download breaks off and is taken up again, what it returns
\* is one version of the object from its first to its last block, unless the server
\* did what nothing in the requests forbids and the download does not look at: it
\* replaced the object between two answers, gave a part that begins where nothing
\* was asked for or ends too early, or, to the file variant alone, which does not
\* look at Content-Range, another part than the range.  An answer 200 makes good what
\* was before it, and one that goes on an early end.
DownloadIsWhole ==
  transfer.st = "done" =>
    \/ Whole(transfer.output, transfer.version)
    \/ transfer.faulty \intersect {"replaced", "unasked", "short"} # {}
    \/ transfer.variant = "file" /\ "misranged" \in transfer.faulty
=============================================================================
