----------------------------- MODULE AgentSession -----------------------------
(***************************************************************************)
(* The agent's session with the control plane: client.rs (registration,     *)
(* request headers, status messages, claims, request forwarding and         *)
(* deregistration), the poll loop and the forwarding loop of main.rs, the   *)
(* heartbeat task of runner.rs and the readiness flag of observability.rs.  *)
(*                                                                         *)
(* Three tasks of one process send requests: the poll loop ("main"), the    *)
(* heartbeat ("heart", while a command runs) and the forwarding loop        *)
(* ("forward").  They share the agent id and the session token, each behind *)
(* a lock of its own, and the counter of status messages.  A request that   *)
(* its sender gave up (timeout, dropped future, aborted task) may still     *)
(* reach the control plane later, after requests that were sent after it.   *)
(*                                                                         *)
(* The control plane is external.  As the code uses it: it knows one        *)
(* session per agent, a registration replaces it, it may end by itself, a   *)
(* request of another session is answered 401, and of two status messages   *)
(* the one with the higher message index is the later one.  What becomes of *)
(* a claimed job in the journal is JobLifecycle's subject; here a job is    *)
(* claimed, runs, and owes a completion.                                    *)
(***************************************************************************)
EXTENDS Naturals

CONSTANTS
  Forwarded,            \* ids of forwarded requests
  NoForwarded,
  DeregisterAttempts,   \* 3 in client.rs
  MaxJobs,              \* bound: jobs the control plane has
  MaxBeats,             \* bound: busy statuses of the heartbeat
  MaxFaults             \* bound: failures, ended sessions, repeated hand-outs

Tasks == {"main", "heart", "forward"}

ASSUME SessionConstants ==
  /\ NoForwarded \notin Forwarded
  /\ DeregisterAttempts \in Nat \ {0}
  /\ MaxJobs \in Nat /\ MaxBeats \in Nat /\ MaxFaults \in Nat

Kinds == {"none", "register", "claim", "job_status", "busy", "idle", "deregister",
          "take", "answer"}

\* Sessions are numbered in the order of their registration.  As an agent id 0
\* is none; as a token it is the agent's own pool token, which is sent when the
\* registration came without a session token.
Requests == [from : Tasks, kind : Kinds, id : Nat, token : Nat, index : Nat,
             about : Forwarded \union {NoForwarded}]

VARIABLES
  pc,           \* where the poll loop is
  heart,        \* the heartbeat task
  fwd,          \* the forwarding loop: its step, the id it read, its request
  agentId, token, messageIndex,    \* Client
  registered,   \* Metrics
  owed,         \* the journal holds a completion that is not acknowledged
  attempts,     \* deregistration attempts
  shutdown,     \* the shutdown token
  waiting,      \* the request each task waits for
  late,         \* requests given up that may still arrive
  issued, live, \* control plane: sessions so far, and the one that is valid
  jobs,         \* control plane: jobs to hand out
  belief,       \* control plane: the latest status
  queue, answered,      \* control plane: forwarded requests open and answered
  handed, executed,     \* history: how often each was handed out and executed
  beats, faults         \* the bounds' counters

client == <<agentId, token, messageIndex>>
sessions == <<issued, live>>
forwarding == <<queue, answered, handed, executed>>
loop == <<pc, registered, owed, attempts>>
vars == <<loop, heart, fwd, client, shutdown, waiting, late, sessions, jobs, belief,
          forwarding, beats, faults>>

-----------------------------------------------------------------------------
(* Requests                                                                  *)

NoRequest(t) == [from |-> t, kind |-> "none", id |-> 0, token |-> 0, index |-> 0,
                 about |-> NoForwarded]

\* A request of task t that carries the agent id i (agent_headers reads it
\* first) and the session token as it is now.
Request(t, kind, i, index, about) ==
  [from |-> t, kind |-> kind, id |-> i, token |-> token, index |-> index, about |-> about]

Send(t, kind, i, index, about) ==
  waiting' = [waiting EXCEPT ![t] = Request(t, kind, i, index, about)]

\* The task has its answer.
Answered(t) == waiting' = [waiting EXCEPT ![t] = NoRequest(t)]

Fault == faults < MaxFaults /\ faults' = faults + 1

\* The control plane accepts the identity of a request.
Authentic(r) == live # 0 /\ r.id = live /\ r.token \in {0, live}

\* The request of task t is given up.  It is remembered if it can still have an
\* effect: a session that is over never comes back, and job_status has none.
GiveUp(t) ==
  LET r == waiting[t]
  IN  /\ Answered(t)
      /\ late' = IF \/ r.kind = "register"
                    \/ r.kind \notin {"none", "job_status"} /\ Authentic(r)
                  THEN late \union {r} ELSE late

\* The session the control plane knows is now s: requests of another one are
\* refused from here on.
LiveIs(s) ==
  /\ live' = s
  /\ late' = {r \in late : r.kind = "register"}

NewSession == issued' = issued + 1 /\ LiveIs(issued + 1)

\* The control plane takes a status message, unless it knows a later one.
Believe(r) ==
  belief' = IF r.index > belief.index
              THEN [index |-> r.index, busy |-> r.kind = "busy"]
              ELSE belief

-----------------------------------------------------------------------------
Init ==
  /\ pc = "register" /\ heart = "off"
  /\ fwd = [step |-> "unborn", id |-> 0, about |-> NoForwarded]
  /\ agentId = 0 /\ token = 0 /\ messageIndex = 0
  /\ registered = FALSE /\ owed = FALSE /\ attempts = 0
  /\ shutdown = FALSE
  /\ waiting = [t \in Tasks |-> NoRequest(t)]
  /\ late = {}
  /\ issued = 0 /\ live = 0
  /\ jobs = MaxJobs
  /\ belief = [index |-> 0, busy |-> FALSE]
  /\ queue = Forwarded /\ answered = {}
  /\ handed = [f \in Forwarded |-> 0]
  /\ executed = [f \in Forwarded |-> 0]
  /\ beats = 0 /\ faults = 0

-----------------------------------------------------------------------------
(* register_with_retry                                                       *)

\* The process ends and its tasks with it.  What still arrives of its requests
\* is not followed any more.
Die ==
  /\ pc' = "stopped"
  /\ heart' = "off"
  /\ fwd' = [fwd EXCEPT !.step = "off"]
  /\ waiting' = [t \in Tasks |-> NoRequest(t)]
  /\ late' = {}

RegisterSend ==
  /\ pc = "register" /\ ~shutdown
  /\ pc' = "registering"
  /\ waiting' = [waiting EXCEPT !["main"] = [NoRequest("main") EXCEPT !.kind = "register"]]
  /\ UNCHANGED <<registered, owed, attempts, heart, fwd, client, shutdown, late,
                 sessions, jobs, belief, forwarding, beats, faults>>

\* Mutant of RegisterAnswered: a new session starts its messages over.
RegisterAnsweredResets ==
  /\ pc = "registering"
  /\ NewSession
  /\ agentId' = issued + 1
  /\ messageIndex' = 0
  /\ pc' = "store"
  /\ Answered("main")
  /\ UNCHANGED <<registered, owed, attempts, heart, fwd, token, shutdown, jobs, belief,
                 forwarding, beats, faults>>

\* The answer gives the agent its id, which is stored first.
RegisterAnswered ==
  /\ pc = "registering"
  /\ NewSession
  /\ agentId' = issued + 1
  /\ pc' = "store"
  /\ Answered("main")
  /\ UNCHANGED <<registered, owed, attempts, heart, fwd, token, messageIndex, shutdown,
                 jobs, belief, forwarding, beats, faults>>

\* Then the session token, if the answer had one.  The first registration
\* starts the forwarding loop.
TokenStored ==
  /\ pc = "store"
  /\ token' \in {0, agentId}
  /\ registered' = TRUE
  /\ pc' = "poll"
  /\ fwd' = IF fwd.step = "unborn" THEN [fwd EXCEPT !.step = "idle"] ELSE fwd
  /\ UNCHANGED <<owed, attempts, heart, agentId, messageIndex, shutdown, waiting, late,
                 sessions, jobs, belief, forwarding, beats, faults>>

\* The registration is rejected (401), or its token is no valid one: main
\* returns the error.
RegisterRejected ==
  /\ pc \in {"registering", "store"}
  /\ Fault
  /\ registered' = FALSE
  /\ Die
  /\ UNCHANGED <<owed, attempts, client, shutdown, sessions, jobs, belief, forwarding, beats>>

RegisterFailed ==
  /\ pc = "registering"
  /\ Fault
  /\ registered' = FALSE
  /\ pc' = "register"
  /\ GiveUp("main")
  /\ UNCHANGED <<owed, attempts, heart, fwd, client, shutdown, sessions, jobs, belief,
                 forwarding, beats>>

\* Shutdown ends the registration wherever it waits, at the locks too.  Before
\* the first registration main just returns.
RegisterAbandoned ==
  /\ pc \in {"register", "registering", "store"}
  /\ shutdown
  /\ pc' = IF fwd.step = "unborn" THEN "stopped" ELSE "leave"
  /\ GiveUp("main")
  /\ UNCHANGED <<registered, owed, attempts, heart, fwd, client, shutdown, sessions, jobs,
                 belief, forwarding, beats, faults>>

-----------------------------------------------------------------------------
(* The poll loop                                                             *)

\* The poll loop goes on at p; what only a claim, a status or a failure changes
\* is left to the action.
GoOn(p) ==
  /\ pc' = p
  /\ UNCHANGED <<registered, attempts, fwd, agentId, token, shutdown, issued, forwarding, beats>>

PollStops ==
  /\ pc = "poll" /\ shutdown
  /\ GoOn("leave")
  /\ UNCHANGED <<owed, heart, messageIndex, waiting, late, live, jobs, belief, faults>>

ClaimSend ==
  /\ pc = "poll" /\ ~shutdown /\ ~owed
  /\ GoOn("claiming")
  /\ Send("main", "claim", agentId, 0, NoForwarded)
  /\ UNCHANGED <<owed, heart, messageIndex, late, live, jobs, belief, faults>>

\* A job, or none.
ClaimAnswered ==
  /\ pc = "claiming" /\ Authentic(waiting["main"])
  /\ \/ GoOn("poll") /\ UNCHANGED jobs
     \/ GoOn("start") /\ jobs > 0 /\ jobs' = jobs - 1
  /\ Answered("main")
  /\ UNCHANGED <<owed, heart, messageIndex, late, live, belief, faults>>

\* Mutant of ClaimUnauthorized: the 401 is taken for any other failure.
ClaimUnauthorizedPolls ==
  /\ pc = "claiming" /\ ~Authentic(waiting["main"])
  /\ GoOn("poll")
  /\ Answered("main")
  /\ UNCHANGED <<owed, heart, messageIndex, late, live, jobs, belief, faults>>

\* A 401 sends the loop back to registration.
ClaimUnauthorized ==
  /\ pc = "claiming" /\ ~Authentic(waiting["main"])
  /\ GoOn("register")
  /\ Answered("main")
  /\ UNCHANGED <<owed, heart, messageIndex, late, live, jobs, belief, faults>>

ClaimFailed ==
  /\ pc = "claiming"
  /\ Fault
  /\ GoOn("poll")
  /\ GiveUp("main")
  /\ UNCHANGED <<owed, heart, messageIndex, live, jobs, belief>>

\* Shutdown wins the select: the claim is dropped, answered or not.
ClaimAbandoned ==
  /\ pc = "claiming" /\ shutdown
  /\ GoOn("leave")
  /\ GiveUp("main")
  /\ UNCHANGED <<owed, heart, messageIndex, live, jobs, belief, faults>>

\* The journal refuses the job, or fails.
StartFailed ==
  /\ pc = "start"
  /\ Fault
  /\ GoOn("poll")
  /\ UNCHANGED <<owed, heart, messageIndex, waiting, late, live, jobs, belief>>

\* put_status takes its index before it reads the headers.
BusySend ==
  /\ pc = "start"
  /\ messageIndex' = messageIndex + 1
  /\ Send("main", "busy", agentId, messageIndex', NoForwarded)
  /\ GoOn("busying")
  /\ UNCHANGED <<owed, heart, late, live, jobs, belief, faults>>

\* Whatever the answer, a 401 too, the run begins.
BusyAnswered ==
  /\ pc = "busying"
  /\ IF Authentic(waiting["main"]) THEN Believe(waiting["main"]) ELSE UNCHANGED belief
  /\ GoOn("preparing")
  /\ Answered("main")
  /\ UNCHANGED <<owed, heart, messageIndex, late, live, jobs, faults>>

BusyFailed ==
  /\ pc = "busying"
  /\ Fault
  /\ GoOn("preparing")
  /\ GiveUp("main")
  /\ UNCHANGED <<owed, heart, messageIndex, live, jobs, belief>>

\* run_inner up to its heartbeat may fail: the job ends without one.
PrepareFailed ==
  /\ pc = "preparing"
  /\ owed' = TRUE
  /\ GoOn("report")
  /\ UNCHANGED <<heart, messageIndex, waiting, late, live, jobs, belief, faults>>

HeartStart ==
  /\ pc = "preparing"
  /\ heart' = "tick"
  /\ GoOn("running")
  /\ UNCHANGED <<owed, messageIndex, waiting, late, live, jobs, belief, faults>>

\* Mutant of RunEnd: the heartbeat is left to itself.
RunEndKeepsHeart ==
  /\ pc = "running"
  /\ owed' = TRUE
  /\ GoOn("report")
  /\ UNCHANGED <<heart, messageIndex, waiting, late, live, jobs, belief, faults>>

\* The commands are done: the heartbeat is aborted wherever it waits.  Its
\* request may be on the wire.
RunEnd ==
  /\ pc = "running"
  /\ heart' = "off"
  /\ GiveUp("heart")
  /\ owed' = TRUE
  /\ GoOn("report")
  /\ UNCHANGED <<messageIndex, live, jobs, belief, faults>>

\* The completion of this run or, at the next poll, one the journal still holds.
ReportSend ==
  /\ pc = "report" \/ (pc = "poll" /\ ~shutdown /\ owed)
  /\ messageIndex' = messageIndex + 1
  /\ Send("main", "idle", agentId, messageIndex', NoForwarded)
  /\ GoOn("reporting")
  /\ UNCHANGED <<owed, heart, late, live, jobs, belief, faults>>

ReportAnswered ==
  /\ pc = "reporting" /\ Authentic(waiting["main"])
  /\ Believe(waiting["main"])
  /\ owed' = FALSE
  /\ GoOn("poll")
  /\ Answered("main")
  /\ UNCHANGED <<heart, messageIndex, late, live, jobs, faults>>

ReportUnauthorized ==
  /\ pc = "reporting" /\ ~Authentic(waiting["main"])
  /\ GoOn("register")
  /\ Answered("main")
  /\ UNCHANGED <<owed, heart, messageIndex, late, live, jobs, belief, faults>>

ReportFailed ==
  /\ pc = "reporting"
  /\ Fault
  /\ GoOn("poll")
  /\ GiveUp("main")
  /\ UNCHANGED <<owed, heart, messageIndex, live, jobs, belief>>

-----------------------------------------------------------------------------
(* Leaving                                                                   *)

\* Mutant of Join: the forwarding loop is waited for without a limit.
JoinWaits ==
  /\ pc = "leave" /\ fwd.step = "off"
  /\ GoOn("deregister")
  /\ UNCHANGED <<owed, heart, messageIndex, waiting, late, live, jobs, belief, faults>>

\* The forwarding loop is waited for, but for five seconds only.
Join ==
  /\ pc = "leave"
  /\ GoOn("deregister")
  /\ UNCHANGED <<owed, heart, messageIndex, waiting, late, live, jobs, belief, faults>>

DeregisterSend ==
  /\ pc = "deregister"
  /\ pc' = "deregistering"
  /\ attempts' = attempts + 1
  /\ Send("main", "deregister", agentId, 0, NoForwarded)
  /\ UNCHANGED <<registered, owed, heart, fwd, client, shutdown, late, sessions, jobs,
                 belief, forwarding, beats, faults>>

\* Accepted or refused, the process ends.
DeregisterAnswered ==
  /\ pc = "deregistering"
  /\ live' = IF Authentic(waiting["main"]) THEN 0 ELSE live
  /\ Die
  /\ UNCHANGED <<registered, owed, attempts, client, shutdown, issued, jobs, belief,
                 forwarding, beats, faults>>

\* A transient failure is tried again; the last one, or another, is the end.
DeregisterRetried ==
  /\ pc = "deregistering"
  /\ attempts < DeregisterAttempts
  /\ Fault
  /\ GoOn("deregister")
  /\ GiveUp("main")
  /\ UNCHANGED <<owed, heart, messageIndex, live, jobs, belief>>

DeregisterFailed ==
  /\ pc = "deregistering"
  /\ Fault
  /\ Die
  /\ UNCHANGED <<registered, owed, attempts, client, shutdown, sessions, jobs, belief,
                 forwarding, beats>>

-----------------------------------------------------------------------------
(* The heartbeat task                                                        *)

Beat(h) ==
  /\ heart' = h
  /\ UNCHANGED <<loop, fwd, agentId, token, shutdown, sessions, jobs, forwarding>>

HeartAsk ==
  /\ heart = "tick"
  /\ Send("heart", "job_status", agentId, 0, NoForwarded)
  /\ Beat("asked")
  /\ UNCHANGED <<messageIndex, late, belief, beats, faults>>

\* An error is only logged, a 401 too; a canceled job ends the task.
HeartAsked ==
  /\ heart = "asked"
  /\ \/ Beat("tick")
     \/ Authentic(waiting["heart"]) /\ Beat("off")
  /\ Answered("heart")
  /\ UNCHANGED <<messageIndex, late, belief, beats, faults>>

\* The same, with a sign of life due.
HeartBusy ==
  /\ heart = "asked"
  /\ beats < MaxBeats /\ beats' = beats + 1
  /\ messageIndex' = messageIndex + 1
  /\ Send("heart", "busy", agentId, messageIndex', NoForwarded)
  /\ Beat("busy")
  /\ UNCHANGED <<late, belief, faults>>

HeartBusyAnswered ==
  /\ heart = "busy"
  /\ IF Authentic(waiting["heart"]) THEN Believe(waiting["heart"]) ELSE UNCHANGED belief
  /\ Beat("tick")
  /\ Answered("heart")
  /\ UNCHANGED <<messageIndex, late, beats, faults>>

HeartBusyFailed ==
  /\ heart = "busy"
  /\ Fault
  /\ Beat("tick")
  /\ GiveUp("heart")
  /\ UNCHANGED <<messageIndex, belief, beats>>

-----------------------------------------------------------------------------
(* The forwarding loop                                                       *)

Forwards(step, i, f) ==
  /\ fwd' = [step |-> step, id |-> i, about |-> f]
  /\ UNCHANGED <<loop, heart, client, shutdown, sessions, jobs, belief, beats>>

ForwardStop ==
  /\ fwd.step = "idle" /\ shutdown
  /\ Forwards("off", 0, NoForwarded)
  /\ UNCHANGED <<waiting, late, forwarding, faults>>

\* agent_headers: the id is read, then the token; a registration may fall
\* between the two.
TakeReadsId ==
  /\ fwd.step = "idle" /\ ~shutdown
  /\ Forwards("take", agentId, NoForwarded)
  /\ UNCHANGED <<waiting, late, forwarding, faults>>

TakeSend ==
  /\ fwd.step = "take"
  /\ Send("forward", "take", fwd.id, 0, NoForwarded)
  /\ Forwards("taking", 0, NoForwarded)
  /\ UNCHANGED <<late, forwarding, faults>>

Taken(f) ==
  /\ fwd.step = "taking" /\ Authentic(waiting["forward"])
  /\ f \in queue
  /\ queue' = queue \ {f}
  /\ handed' = [handed EXCEPT ![f] = @ + 1]
  /\ Forwards("execute", 0, f)
  /\ Answered("forward")
  /\ UNCHANGED <<late, answered, executed, faults>>

\* Nothing to forward, or a 401, which is only logged.
TakenNothing ==
  /\ fwd.step = "taking"
  /\ Forwards("idle", 0, NoForwarded)
  /\ Answered("forward")
  /\ UNCHANGED <<late, forwarding, faults>>

TakeFailed ==
  /\ fwd.step = "taking"
  /\ Fault
  /\ Forwards("idle", 0, NoForwarded)
  /\ GiveUp("forward")
  /\ UNCHANGED forwarding

\* The request is sent to its target; what comes back, an error too, is the
\* completion, for whose headers the id is read.
Execute ==
  /\ fwd.step = "execute"
  /\ executed' = [executed EXCEPT ![fwd.about] = @ + 1]
  /\ Forwards("answer", agentId, fwd.about)
  /\ UNCHANGED <<waiting, late, queue, answered, handed, faults>>

AnswerSend ==
  /\ fwd.step = "answer"
  /\ Send("forward", "answer", fwd.id, 0, fwd.about)
  /\ Forwards("answering", 0, fwd.about)
  /\ UNCHANGED <<late, forwarding, faults>>

\* Mutant of AnswerEnds: a refused completion is tried again from the start.
AnswerEndsRetries ==
  /\ fwd.step = "answering"
  /\ IF Authentic(waiting["forward"])
       THEN /\ answered' = answered \union {fwd.about}
            /\ Forwards("idle", 0, NoForwarded)
       ELSE Forwards("execute", 0, fwd.about) /\ UNCHANGED answered
  /\ Answered("forward")
  /\ UNCHANGED <<late, queue, handed, executed, faults>>

\* A completion that is refused is logged and forgotten.
AnswerEnds ==
  /\ fwd.step = "answering"
  /\ answered' = IF Authentic(waiting["forward"])
                   THEN answered \union {fwd.about} ELSE answered
  /\ Forwards("idle", 0, NoForwarded)
  /\ Answered("forward")
  /\ UNCHANGED <<late, queue, handed, executed, faults>>

AnswerFailed ==
  /\ fwd.step = "answering"
  /\ Fault
  /\ Forwards("idle", 0, NoForwarded)
  /\ GiveUp("forward")
  /\ UNCHANGED forwarding

-----------------------------------------------------------------------------
(* The surroundings                                                          *)

Signal ==
  /\ pc # "stopped" /\ ~shutdown
  /\ shutdown' = TRUE
  /\ UNCHANGED <<loop, heart, fwd, client, waiting, late, sessions, jobs, belief,
                 forwarding, beats, faults>>

\* The control plane ends the session.
Expire ==
  /\ live # 0
  /\ Fault
  /\ LiveIs(0)
  /\ UNCHANGED <<loop, heart, fwd, client, shutdown, waiting, issued, jobs, belief,
                 forwarding, beats>>

\* It hands out a forwarded request again that nobody answered.
OfferAgain(f) ==
  /\ handed[f] > 0 /\ f \notin queue \union answered
  /\ Fault
  /\ queue' = queue \union {f}
  /\ UNCHANGED <<loop, heart, fwd, client, shutdown, waiting, late, sessions, jobs, belief,
                 answered, handed, executed, beats>>

\* A request that was given up arrives.  A job or a forwarded request handed
\* out for it reaches nobody.
Arrive(r) ==
  /\ issued' = IF r.kind = "register" THEN issued + 1 ELSE issued
  /\ live' = CASE r.kind = "register" -> issued + 1
               [] r.kind = "deregister" -> 0
               [] OTHER -> live
  /\ late' = {q \in late \ {r} : live' # live => q.kind = "register"}
  /\ jobs' = IF r.kind = "claim" /\ jobs > 0 THEN jobs - 1 ELSE jobs
  /\ IF r.kind \in {"busy", "idle"} THEN Believe(r) ELSE UNCHANGED belief
  /\ answered' = IF r.kind = "answer" THEN answered \union {r.about} ELSE answered
  /\ IF r.kind = "take" /\ queue # {}
       THEN \E f \in queue : /\ queue' = queue \ {f}
                             /\ handed' = [handed EXCEPT ![f] = @ + 1]
       ELSE UNCHANGED <<queue, handed>>
  /\ UNCHANGED <<loop, heart, fwd, client, shutdown, waiting, executed, beats, faults>>

Ended == pc = "stopped" /\ UNCHANGED vars

-----------------------------------------------------------------------------
\* What the poll loop does when nothing goes wrong, the answers it gets included.
Main ==
  \/ RegisterSend \/ RegisterAnswered \/ TokenStored \/ RegisterAbandoned
  \/ PollStops \/ ClaimSend \/ ClaimAnswered \/ ClaimUnauthorized \/ ClaimAbandoned
  \/ BusySend \/ BusyAnswered \/ PrepareFailed \/ HeartStart \/ RunEnd
  \/ ReportSend \/ ReportAnswered \/ ReportUnauthorized
  \/ Join \/ DeregisterSend \/ DeregisterAnswered

Heart == HeartAsk \/ HeartAsked \/ HeartBusy \/ HeartBusyAnswered

Forward ==
  \/ ForwardStop \/ TakeReadsId \/ TakeSend \/ TakenNothing \/ Execute
  \/ AnswerSend \/ AnswerEnds
  \/ \E f \in Forwarded : Taken(f)

Failure ==
  \/ RegisterRejected \/ RegisterFailed \/ ClaimFailed \/ StartFailed \/ BusyFailed
  \/ ReportFailed \/ DeregisterRetried \/ DeregisterFailed \/ HeartBusyFailed
  \/ TakeFailed \/ AnswerFailed

Surroundings ==
  \/ Signal \/ Expire
  \/ \E f \in Forwarded : OfferAgain(f)
  \/ \E r \in late : Arrive(r)

Next == Main \/ Heart \/ Forward \/ Failure \/ Surroundings \/ Ended

Spec == Init /\ [][Next]_vars

\* The runtime schedules the poll loop, every request it sends is answered or
\* times out, and a command ends by its deadline.  Nothing is assumed of the
\* forwarding loop: its target may take its time.
FairSpec == Spec /\ WF_vars(Main)

-----------------------------------------------------------------------------
(* Properties                                                                *)

\* The tasks have one request each while they wait, of the kind they wait for.
RequestType ==
  /\ waiting \in [Tasks -> Requests]
  /\ \A t \in Tasks : waiting[t].from = t
  /\ late \subseteq Requests

WaitingType ==
  /\ waiting["main"].kind =
       CASE pc = "registering" -> "register"
         [] pc = "claiming" -> "claim"
         [] pc = "busying" -> "busy"
         [] pc = "reporting" -> "idle"
         [] pc = "deregistering" -> "deregister"
         [] OTHER -> "none"
  /\ waiting["heart"].kind =
       CASE heart = "asked" -> "job_status"
         [] heart = "busy" -> "busy"
         [] OTHER -> "none"
  /\ waiting["forward"].kind =
       CASE fwd.step = "taking" -> "take"
         [] fwd.step = "answering" -> "answer"
         [] OTHER -> "none"

LoopType ==
  /\ pc \in {"register", "registering", "store", "poll", "claiming", "start", "busying",
             "preparing", "running", "report", "reporting", "leave", "deregister",
             "deregistering", "stopped"}
  /\ heart \in {"off", "tick", "asked", "busy"}
  /\ heart # "off" => pc = "running"
  /\ fwd \in [step : {"unborn", "off", "idle", "take", "taking", "execute", "answer",
                      "answering"},
              id : Nat, about : Forwarded \union {NoForwarded}]
  /\ agentId \in Nat /\ token \in Nat /\ messageIndex \in Nat
  /\ registered \in BOOLEAN /\ owed \in BOOLEAN /\ shutdown \in BOOLEAN
  /\ attempts \in 0..DeregisterAttempts

ServerType ==
  /\ issued \in Nat /\ live \in 0..issued /\ agentId <= issued
  /\ jobs \in 0..MaxJobs
  /\ belief \in [index : Nat, busy : BOOLEAN]
  /\ queue \subseteq Forwarded /\ answered \subseteq Forwarded
  /\ handed \in [Forwarded -> Nat] /\ executed \in [Forwarded -> Nat]
  /\ beats \in 0..MaxBeats /\ faults \in 0..MaxFaults

\* Variables have their types, a task waits for the request of its step, and a
\* heartbeat exists only while a command runs.
TypeOK == RequestType /\ WaitingType /\ LoopType /\ ServerType

\* Once a completion is acknowledged the control plane takes the agent for idle,
\* until the next job: however late a busy status arrives, of the heartbeat that
\* was aborted with it on the wire or of the poll loop, its message index is
\* older, over re-registrations too (put_status, heartbeat.abort).
IdleIsBelieved == pc \in {"poll", "claiming"} /\ ~owed => ~belief.busy

\* Only the forwarding loop can send the id of one session with the token of
\* another: the poll loop registers when no heartbeat runs, so their claims,
\* statuses and completions never do (agent_headers, register).
OnlyForwardingMixes ==
  \A t \in Tasks :
    waiting[t].kind \in {"claim", "job_status", "busy", "idle"}
      => waiting[t].token \in {0, waiting[t].id}

\* A forwarded request is executed at most once each time it is handed out:
\* neither a refused nor a lost completion makes the agent execute it again, and
\* none is answered that was not executed.
ExecutedOncePerHandout ==
  \A f \in Forwarded :
    /\ executed[f] <= handed[f]
    /\ f \in answered => executed[f] > 0

\* A session the control plane ended is replaced, though only the poll loop
\* registers and a 401 of the other tasks is merely logged; or the agent stops.
SessionIsReplaced ==
  (agentId # 0 /\ live # agentId) ~> (live = agentId \/ pc = "stopped")

\* A first signal stops the agent, whatever the forwarding loop is doing and
\* whichever request is on its way.
SignalStops == shutdown ~> pc = "stopped"
=============================================================================
