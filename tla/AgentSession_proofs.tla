------------------------- MODULE AgentSession_proofs -------------------------
(***************************************************************************)
(* What AgentSession promises for any number of jobs, forwarded requests,    *)
(* signs of life, failures and sessions.                                     *)
(***************************************************************************)
EXTENDS AgentSession, TLAPS

\* Before the last deregistration attempt is on its way there is one left.
AttemptInv == pc \notin {"deregistering", "stopped"} => attempts < DeregisterAttempts

\* While the poll loop works, the id and the token are of one registration.
Working == {"poll", "claiming", "start", "busying", "preparing", "running", "report",
            "reporting"}

IdentityInv == pc \in Working => token \in {0, agentId}

\* Every message index that is still around was drawn from the counter.
IndexInv ==
  /\ belief.index <= messageIndex
  /\ \A t \in Tasks : waiting[t].index <= messageIndex
  /\ \A r \in late : r.index <= messageIndex
  /\ waiting["forward"].index = 0

\* The completion that is on its way is the latest status of all, and the
\* journal owes it.
ReportInv ==
  /\ pc \in {"report", "reporting"} => owed
  /\ pc = "reporting" =>
       /\ waiting["main"].index > belief.index
       /\ \A r \in late : waiting["main"].index > r.index

\* Where the agent has nothing to report, what may still arrive is old.
Quiet == {"register", "registering", "store", "poll", "claiming", "start"}

QuietInv ==
  pc \in Quiet /\ ~owed =>
    /\ ~belief.busy
    /\ \A r \in late : r.kind = "busy" => r.index <= belief.index

\* A forwarded request is executed after it is handed out and answered after it
\* is executed, in the loop, on the wire and where it arrives late.
Done(f) == f \in Forwarded /\ executed[f] > 0

ForwardInv ==
  /\ fwd.step = "execute" =>
       fwd.about \in Forwarded /\ executed[fwd.about] < handed[fwd.about]
  /\ fwd.step \in {"answer", "answering"} => Done(fwd.about)
  /\ \A t \in Tasks : waiting[t].kind = "answer" => Done(waiting[t].about)
  /\ \A r \in late : r.kind = "answer" => Done(r.about)

-----------------------------------------------------------------------------
(* What the actions do to the requests                                       *)

\* The other tasks wait for what they waited for.
OthersWait(t) == \A u \in Tasks \ {t} : waiting'[u] = waiting[u]

\* Task t waits for this request from now on.
Waits(t, kind, i, index, about) ==
  /\ waiting' \in [Tasks -> Requests] /\ OthersWait(t)
  /\ waiting'[t].from = t /\ waiting'[t].kind = kind /\ waiting'[t].index = index
  /\ waiting'[t].id = i /\ waiting'[t].about = about

\* Task t waits for nothing from now on.
Free(t) == Waits(t, "none", 0, 0, NoForwarded)

LEMMA SendWaits ==
  ASSUME RequestType, token \in Nat,
         NEW t \in Tasks, NEW kind \in Kinds, NEW i \in Nat, NEW index \in Nat,
         NEW about \in Forwarded \union {NoForwarded}, Send(t, kind, i, index, about)
  PROVE  Waits(t, kind, i, index, about) /\ waiting'[t].token = token
  BY DEF RequestType, Send, Request, Requests, Waits, OthersWait

LEMMA AnsweredFrees ==
  ASSUME RequestType, NEW t \in Tasks, Answered(t)
  PROVE  Free(t)
  BY DEF RequestType, Answered, NoRequest, Requests, Kinds, Free, Waits, OthersWait

\* A request that is given up becomes a late one, or is gone.
LEMMA GiveUpFrees ==
  ASSUME RequestType, NEW t \in Tasks, GiveUp(t)
  PROVE  /\ Free(t)
         /\ late' \subseteq late \union {waiting[t]} /\ late' \subseteq Requests
  <1>1. Answered(t) /\ late' \subseteq late \union {waiting[t]}
    BY DEF GiveUp
  <1> QED
    BY <1>1, AnsweredFrees DEF RequestType

\* With the process its requests are gone.
LEMMA DieFrees ==
  ASSUME Die
  PROVE  /\ waiting' \in [Tasks -> Requests] /\ late' = {}
         /\ \A t \in Tasks : /\ waiting'[t].from = t /\ waiting'[t].kind = "none"
                             /\ waiting'[t].index = 0
  BY DEF Die, NoRequest, Requests, Kinds

\* A status is taken when it is the latest, and only then.
LEMMA BelieveFields ==
  ASSUME ServerType, NEW r \in Requests, Believe(r)
  PROVE  /\ belief' \in [index : Nat, busy : BOOLEAN]
         /\ r.index > belief.index =>
              belief'.index = r.index /\ (belief'.busy <=> r.kind = "busy")
         /\ ~(r.index > belief.index) => belief' = belief
  BY DEF ServerType, Requests, Believe

\* What each action puts on the wire.
Sends(t, kind, i, index, about) ==
  Waits(t, kind, i, index, about) /\ waiting'[t].token = token

LEMMA Sent ==
  ASSUME TypeOK
  PROVE  /\ ClaimSend => Sends("main", "claim", agentId, 0, NoForwarded)
         /\ BusySend => Sends("main", "busy", agentId, messageIndex', NoForwarded)
         /\ ReportSend => Sends("main", "idle", agentId, messageIndex', NoForwarded)
         /\ DeregisterSend => Sends("main", "deregister", agentId, 0, NoForwarded)
         /\ HeartAsk => Sends("heart", "job_status", agentId, 0, NoForwarded)
         /\ HeartBusy => Sends("heart", "busy", agentId, messageIndex', NoForwarded)
         /\ TakeSend => Sends("forward", "take", fwd.id, 0, NoForwarded)
         /\ AnswerSend => Sends("forward", "answer", fwd.id, 0, fwd.about)
  <1> USE DEF TypeOK, LoopType
  <1>1. ClaimSend => Sends("main", "claim", agentId, 0, NoForwarded)
    BY SendWaits DEF Sends, ClaimSend, GoOn, Tasks, Kinds
  <1>2. BusySend => Sends("main", "busy", agentId, messageIndex', NoForwarded)
    <2>1. BusySend => messageIndex' \in Nat
      BY DEF BusySend
    <2> QED
      BY <2>1, SendWaits DEF Sends, BusySend, Tasks, Kinds
  <1>3. ReportSend => Sends("main", "idle", agentId, messageIndex', NoForwarded)
    <2>1. ReportSend => messageIndex' \in Nat
      BY DEF ReportSend
    <2> QED
      BY <2>1, SendWaits DEF Sends, ReportSend, Tasks, Kinds
  <1>4. DeregisterSend => Sends("main", "deregister", agentId, 0, NoForwarded)
    BY SendWaits DEF Sends, DeregisterSend, Tasks, Kinds
  <1>5. HeartAsk => Sends("heart", "job_status", agentId, 0, NoForwarded)
    BY SendWaits DEF Sends, HeartAsk, Beat, Tasks, Kinds
  <1>6. HeartBusy => Sends("heart", "busy", agentId, messageIndex', NoForwarded)
    <2>1. HeartBusy => messageIndex' \in Nat
      BY DEF HeartBusy
    <2> QED
      BY <2>1, SendWaits DEF Sends, HeartBusy, Tasks, Kinds
  <1>7. TakeSend => Sends("forward", "take", fwd.id, 0, NoForwarded)
    BY SendWaits DEF Sends, TakeSend, Forwards, Tasks, Kinds
  <1>8. AnswerSend => Sends("forward", "answer", fwd.id, 0, fwd.about)
    BY SendWaits DEF Sends, AnswerSend, Forwards, Tasks, Kinds
  <1> QED
    BY <1>1, <1>2, <1>3, <1>4, <1>5, <1>6, <1>7, <1>8

\* What each action has answered.
LEMMA Freed ==
  ASSUME TypeOK
  PROVE  /\ RegisterAnswered => Free("main")
         /\ ClaimAnswered => Free("main")
         /\ ClaimUnauthorized => Free("main")
         /\ BusyAnswered => Free("main")
         /\ ReportAnswered => Free("main")
         /\ ReportUnauthorized => Free("main")
         /\ HeartAsked => Free("heart")
         /\ HeartBusyAnswered => Free("heart")
         /\ TakenNothing => Free("forward")
         /\ AnswerEnds => Free("forward")
         /\ \A f \in Forwarded : Taken(f) => Free("forward")
  BY AnsweredFrees DEF TypeOK, Tasks, RegisterAnswered, ClaimAnswered,
     ClaimUnauthorized, BusyAnswered, ReportAnswered, ReportUnauthorized, HeartAsked,
     HeartBusyAnswered, TakenNothing, AnswerEnds, Taken

\* What each action gives up.
Lost(t) ==
  Free(t) /\ late' \subseteq late \union {waiting[t]} /\ late' \subseteq Requests

LEMMA GivenUp ==
  ASSUME TypeOK
  PROVE  /\ RegisterAbandoned => Lost("main")
         /\ ClaimAbandoned => Lost("main")
         /\ RunEnd => Lost("heart")
         /\ RegisterFailed => Lost("main")
         /\ ClaimFailed => Lost("main")
         /\ BusyFailed => Lost("main")
         /\ ReportFailed => Lost("main")
         /\ DeregisterRetried => Lost("main")
         /\ HeartBusyFailed => Lost("heart")
         /\ TakeFailed => Lost("forward")
         /\ AnswerFailed => Lost("forward")
  BY GiveUpFrees DEF TypeOK, Lost, Tasks, RegisterAbandoned, ClaimAbandoned, RunEnd,
     RegisterFailed, ClaimFailed, BusyFailed, ReportFailed, DeregisterRetried,
     HeartBusyFailed, TakeFailed, AnswerFailed

-----------------------------------------------------------------------------
(* Types                                                                     *)

\* A task waits for one request of the kind its step asks for, whatever the others
\* do: each action sends, answers or gives up the request of its own task.
LEMMA RequestsTyped ==
  ASSUME TypeOK, [Next]_vars
  PROVE  RequestType' /\ WaitingType'
  <1> USE DEF TypeOK, RequestType, WaitingType, LoopType, Tasks
  <1>1. ASSUME RegisterSend PROVE RequestType' /\ WaitingType'
    BY <1>1 DEF RegisterSend, NoRequest, Requests, Kinds
  <1>2. ASSUME RegisterAnswered PROVE RequestType' /\ WaitingType'
    BY <1>2, Freed DEF RegisterAnswered, Free, Waits, OthersWait, LiveIs, NewSession
  <1>3. ASSUME TokenStored PROVE RequestType' /\ WaitingType'
    BY <1>3 DEF TokenStored
  <1>4. ASSUME RegisterAbandoned PROVE RequestType' /\ WaitingType'
    BY <1>4, GivenUp DEF RegisterAbandoned, Lost, Free, Waits, OthersWait, loop
  <1>5. ASSUME PollStops PROVE RequestType' /\ WaitingType'
    BY <1>5 DEF PollStops, GoOn
  <1>6. ASSUME ClaimSend PROVE RequestType' /\ WaitingType'
    BY <1>6, Sent DEF ClaimSend, Sends, Waits, OthersWait, GoOn
  <1>7. ASSUME ClaimAnswered PROVE RequestType' /\ WaitingType'
    BY <1>7, Freed DEF ClaimAnswered, Free, Waits, OthersWait, GoOn
  <1>8. ASSUME ClaimUnauthorized PROVE RequestType' /\ WaitingType'
    BY <1>8, Freed DEF ClaimUnauthorized, Free, Waits, OthersWait, GoOn
  <1>9. ASSUME ClaimAbandoned PROVE RequestType' /\ WaitingType'
    BY <1>9, GivenUp DEF ClaimAbandoned, Lost, Free, Waits, OthersWait, GoOn
  <1>10. ASSUME BusySend PROVE RequestType' /\ WaitingType'
    BY <1>10, Sent DEF BusySend, Sends, Waits, OthersWait, GoOn
  <1>11. ASSUME BusyAnswered PROVE RequestType' /\ WaitingType'
    BY <1>11, Freed DEF BusyAnswered, Free, Waits, OthersWait, GoOn
  <1>12. ASSUME PrepareFailed PROVE RequestType' /\ WaitingType'
    BY <1>12 DEF PrepareFailed, GoOn
  <1>13. ASSUME HeartStart PROVE RequestType' /\ WaitingType'
    BY <1>13 DEF HeartStart, GoOn
  <1>14. ASSUME RunEnd PROVE RequestType' /\ WaitingType'
    BY <1>14, GivenUp DEF RunEnd, Lost, Free, Waits, OthersWait, GoOn
  <1>15. ASSUME ReportSend PROVE RequestType' /\ WaitingType'
    BY <1>15, Sent DEF ReportSend, Sends, Waits, OthersWait, GoOn
  <1>16. ASSUME ReportAnswered PROVE RequestType' /\ WaitingType'
    BY <1>16, Freed DEF ReportAnswered, Free, Waits, OthersWait, GoOn
  <1>17. ASSUME ReportUnauthorized PROVE RequestType' /\ WaitingType'
    BY <1>17, Freed DEF ReportUnauthorized, Free, Waits, OthersWait, GoOn
  <1>18. ASSUME Join PROVE RequestType' /\ WaitingType'
    BY <1>18 DEF Join, GoOn
  <1>19. ASSUME DeregisterSend PROVE RequestType' /\ WaitingType'
    BY <1>19, Sent DEF DeregisterSend, Sends, Waits, OthersWait
  <1>20. ASSUME DeregisterAnswered PROVE RequestType' /\ WaitingType'
    BY <1>20, DieFrees DEF DeregisterAnswered, Die
  <1>21. ASSUME HeartAsk PROVE RequestType' /\ WaitingType'
    BY <1>21, Sent DEF HeartAsk, Sends, Waits, OthersWait, Beat, loop
  <1>22. ASSUME HeartAsked PROVE RequestType' /\ WaitingType'
    BY <1>22, Freed DEF HeartAsked, Free, Waits, OthersWait, Beat, loop
  <1>23. ASSUME HeartBusy PROVE RequestType' /\ WaitingType'
    BY <1>23, Sent DEF HeartBusy, Sends, Waits, OthersWait, Beat, loop
  <1>24. ASSUME HeartBusyAnswered PROVE RequestType' /\ WaitingType'
    BY <1>24, Freed DEF HeartBusyAnswered, Free, Waits, OthersWait, Beat, loop
  <1>25. ASSUME ForwardStop PROVE RequestType' /\ WaitingType'
    BY <1>25 DEF ForwardStop, Forwards, loop
  <1>26. ASSUME TakeReadsId PROVE RequestType' /\ WaitingType'
    BY <1>26 DEF TakeReadsId, Forwards, loop
  <1>27. ASSUME TakeSend PROVE RequestType' /\ WaitingType'
    BY <1>27, Sent DEF TakeSend, Sends, Waits, OthersWait, Forwards, loop
  <1>28. ASSUME TakenNothing PROVE RequestType' /\ WaitingType'
    BY <1>28, Freed DEF TakenNothing, Free, Waits, OthersWait, Forwards, loop
  <1>29. ASSUME Execute PROVE RequestType' /\ WaitingType'
    BY <1>29 DEF Execute, Forwards, loop
  <1>30. ASSUME AnswerSend PROVE RequestType' /\ WaitingType'
    BY <1>30, Sent DEF AnswerSend, Sends, Waits, OthersWait, Forwards, loop
  <1>31. ASSUME AnswerEnds PROVE RequestType' /\ WaitingType'
    BY <1>31, Freed DEF AnswerEnds, Free, Waits, OthersWait, Forwards, loop
  <1>32. ASSUME NEW f \in Forwarded, Taken(f) PROVE RequestType' /\ WaitingType'
    <2>1. Free("forward")
      BY <1>32, Freed
    <2> QED
      BY <1>32, <2>1 DEF Taken, Free, Waits, OthersWait, Forwards, loop
  <1>33. ASSUME RegisterRejected PROVE RequestType' /\ WaitingType'
    BY <1>33, DieFrees DEF RegisterRejected, Die
  <1>34. ASSUME RegisterFailed PROVE RequestType' /\ WaitingType'
    <2>1. Lost("main")
      BY <1>34, GivenUp
    <2> QED
      BY <1>34, <2>1 DEF RegisterFailed, Lost, Free, Waits, OthersWait
  <1>35. ASSUME ClaimFailed PROVE RequestType' /\ WaitingType'
    BY <1>35, GivenUp DEF ClaimFailed, Lost, Free, Waits, OthersWait, GoOn
  <1>36. ASSUME StartFailed PROVE RequestType' /\ WaitingType'
    BY <1>36 DEF StartFailed, GoOn
  <1>37. ASSUME BusyFailed PROVE RequestType' /\ WaitingType'
    BY <1>37, GivenUp DEF BusyFailed, Lost, Free, Waits, OthersWait, GoOn
  <1>38. ASSUME ReportFailed PROVE RequestType' /\ WaitingType'
    BY <1>38, GivenUp DEF ReportFailed, Lost, Free, Waits, OthersWait, GoOn
  <1>39. ASSUME DeregisterRetried PROVE RequestType' /\ WaitingType'
    BY <1>39, GivenUp DEF DeregisterRetried, Lost, Free, Waits, OthersWait, GoOn
  <1>40. ASSUME DeregisterFailed PROVE RequestType' /\ WaitingType'
    BY <1>40, DieFrees DEF DeregisterFailed, Die
  <1>41. ASSUME HeartBusyFailed PROVE RequestType' /\ WaitingType'
    BY <1>41, GivenUp DEF HeartBusyFailed, Lost, Free, Waits, OthersWait, Beat, loop
  <1>42. ASSUME TakeFailed PROVE RequestType' /\ WaitingType'
    BY <1>42, GivenUp DEF TakeFailed, Lost, Free, Waits, OthersWait, Forwards, loop
  <1>43. ASSUME AnswerFailed PROVE RequestType' /\ WaitingType'
    BY <1>43, GivenUp DEF AnswerFailed, Lost, Free, Waits, OthersWait, Forwards, loop
  <1>44. ASSUME Signal PROVE RequestType' /\ WaitingType'
    BY <1>44 DEF Signal, loop
  <1>45. ASSUME Expire PROVE RequestType' /\ WaitingType'
    BY <1>45 DEF Expire, LiveIs, loop
  <1>46. ASSUME NEW f \in Forwarded, OfferAgain(f) PROVE RequestType' /\ WaitingType'
    BY <1>46 DEF OfferAgain, loop
  <1>47. ASSUME NEW r \in late, Arrive(r) PROVE RequestType' /\ WaitingType'
    BY <1>47 DEF Arrive, loop
  <1> QED
    BY <1>1, <1>2, <1>3, <1>4, <1>5, <1>6, <1>7, <1>8, <1>9, <1>10, <1>11, <1>12,
       <1>13, <1>14, <1>15, <1>16, <1>17, <1>18, <1>19, <1>20, <1>21, <1>22, <1>23,
       <1>24, <1>25, <1>26, <1>27, <1>28, <1>29, <1>30, <1>31, <1>32, <1>33, <1>34,
       <1>35, <1>36, <1>37, <1>38, <1>39, <1>40, <1>41, <1>42, <1>43, <1>44, <1>45,
       <1>46, <1>47 DEF Next, Main, Heart, Forward, Failure, Surroundings, Ended,
       vars, loop, client, sessions, forwarding

\* The loops keep their types, and DeregisterRetried needs an attempt that is left.
LEMMA LoopTyped ==
  ASSUME TypeOK, AttemptInv, [Next]_vars
  PROVE  LoopType' /\ AttemptInv'
  <1> USE SessionConstants DEF TypeOK, LoopType, AttemptInv
  <1>1. ASSUME RegisterSend PROVE LoopType' /\ AttemptInv'
    BY <1>1 DEF RegisterSend, client
  <1>2. ASSUME RegisterAnswered PROVE LoopType' /\ AttemptInv'
    BY <1>2 DEF RegisterAnswered, LiveIs, NewSession, ServerType
  <1>3. ASSUME TokenStored PROVE LoopType' /\ AttemptInv'
    BY <1>3 DEF TokenStored
  <1>4. ASSUME RegisterAbandoned PROVE LoopType' /\ AttemptInv'
    BY <1>4 DEF RegisterAbandoned, client, loop
  <1>5. ASSUME PollStops PROVE LoopType' /\ AttemptInv'
    BY <1>5 DEF PollStops, GoOn
  <1>6. ASSUME ClaimSend PROVE LoopType' /\ AttemptInv'
    BY <1>6 DEF ClaimSend, GoOn
  <1>7. ASSUME ClaimAnswered PROVE LoopType' /\ AttemptInv'
    BY <1>7 DEF ClaimAnswered, GoOn
  <1>8. ASSUME ClaimUnauthorized PROVE LoopType' /\ AttemptInv'
    BY <1>8 DEF ClaimUnauthorized, GoOn
  <1>9. ASSUME ClaimAbandoned PROVE LoopType' /\ AttemptInv'
    BY <1>9 DEF ClaimAbandoned, GoOn
  <1>10. ASSUME BusySend PROVE LoopType' /\ AttemptInv'
    BY <1>10 DEF BusySend, GoOn
  <1>11. ASSUME BusyAnswered PROVE LoopType' /\ AttemptInv'
    BY <1>11 DEF BusyAnswered, GoOn
  <1>12. ASSUME PrepareFailed PROVE LoopType' /\ AttemptInv'
    BY <1>12 DEF PrepareFailed, GoOn
  <1>13. ASSUME HeartStart PROVE LoopType' /\ AttemptInv'
    BY <1>13 DEF HeartStart, GoOn
  <1>14. ASSUME RunEnd PROVE LoopType' /\ AttemptInv'
    BY <1>14 DEF RunEnd, GoOn
  <1>15. ASSUME ReportSend PROVE LoopType' /\ AttemptInv'
    BY <1>15 DEF ReportSend, GoOn
  <1>16. ASSUME ReportAnswered PROVE LoopType' /\ AttemptInv'
    BY <1>16 DEF ReportAnswered, GoOn
  <1>17. ASSUME ReportUnauthorized PROVE LoopType' /\ AttemptInv'
    BY <1>17 DEF ReportUnauthorized, GoOn
  <1>18. ASSUME Join PROVE LoopType' /\ AttemptInv'
    BY <1>18 DEF Join, GoOn
  <1>19. ASSUME DeregisterSend PROVE LoopType' /\ AttemptInv'
    BY <1>19 DEF DeregisterSend, client
  <1>20. ASSUME DeregisterAnswered PROVE LoopType' /\ AttemptInv'
    BY <1>20 DEF DeregisterAnswered, Die, client
  <1>21. ASSUME HeartAsk PROVE LoopType' /\ AttemptInv'
    BY <1>21 DEF HeartAsk, Beat, loop
  <1>22. ASSUME HeartAsked PROVE LoopType' /\ AttemptInv'
    BY <1>22 DEF HeartAsked, Beat, loop
  <1>23. ASSUME HeartBusy PROVE LoopType' /\ AttemptInv'
    BY <1>23 DEF HeartBusy, Beat, loop
  <1>24. ASSUME HeartBusyAnswered PROVE LoopType' /\ AttemptInv'
    BY <1>24 DEF HeartBusyAnswered, Beat, loop
  <1>25. ASSUME ForwardStop PROVE LoopType' /\ AttemptInv'
    BY <1>25 DEF ForwardStop, Forwards, client, loop
  <1>26. ASSUME TakeReadsId PROVE LoopType' /\ AttemptInv'
    BY <1>26 DEF TakeReadsId, Forwards, client, loop
  <1>27. ASSUME TakeSend PROVE LoopType' /\ AttemptInv'
    BY <1>27 DEF TakeSend, Forwards, client, loop
  <1>28. ASSUME TakenNothing PROVE LoopType' /\ AttemptInv'
    BY <1>28 DEF TakenNothing, Forwards, client, loop
  <1>29. ASSUME Execute PROVE LoopType' /\ AttemptInv'
    BY <1>29 DEF Execute, Forwards, client, loop
  <1>30. ASSUME AnswerSend PROVE LoopType' /\ AttemptInv'
    BY <1>30 DEF AnswerSend, Forwards, client, loop
  <1>31. ASSUME AnswerEnds PROVE LoopType' /\ AttemptInv'
    BY <1>31 DEF AnswerEnds, Forwards, client, loop
  <1>32. ASSUME NEW f \in Forwarded, Taken(f) PROVE LoopType' /\ AttemptInv'
    BY <1>32 DEF Taken, Forwards, client, loop
  <1>33. ASSUME RegisterRejected PROVE LoopType' /\ AttemptInv'
    BY <1>33 DEF RegisterRejected, Die, client
  <1>34. ASSUME RegisterFailed PROVE LoopType' /\ AttemptInv'
    BY <1>34 DEF RegisterFailed, client
  <1>35. ASSUME ClaimFailed PROVE LoopType' /\ AttemptInv'
    BY <1>35 DEF ClaimFailed, GoOn
  <1>36. ASSUME StartFailed PROVE LoopType' /\ AttemptInv'
    BY <1>36 DEF StartFailed, GoOn
  <1>37. ASSUME BusyFailed PROVE LoopType' /\ AttemptInv'
    BY <1>37 DEF BusyFailed, GoOn
  <1>38. ASSUME ReportFailed PROVE LoopType' /\ AttemptInv'
    BY <1>38 DEF ReportFailed, GoOn
  <1>39. ASSUME DeregisterRetried PROVE LoopType' /\ AttemptInv'
    BY <1>39 DEF DeregisterRetried, GoOn
  <1>40. ASSUME DeregisterFailed PROVE LoopType' /\ AttemptInv'
    BY <1>40 DEF DeregisterFailed, Die, client
  <1>41. ASSUME HeartBusyFailed PROVE LoopType' /\ AttemptInv'
    BY <1>41 DEF HeartBusyFailed, Beat, loop
  <1>42. ASSUME TakeFailed PROVE LoopType' /\ AttemptInv'
    BY <1>42 DEF TakeFailed, Forwards, client, loop
  <1>43. ASSUME AnswerFailed PROVE LoopType' /\ AttemptInv'
    BY <1>43 DEF AnswerFailed, Forwards, client, loop
  <1>44. ASSUME Signal PROVE LoopType' /\ AttemptInv'
    BY <1>44 DEF Signal, client, loop
  <1>45. ASSUME Expire PROVE LoopType' /\ AttemptInv'
    BY <1>45 DEF Expire, LiveIs, client, loop
  <1>46. ASSUME NEW f \in Forwarded, OfferAgain(f) PROVE LoopType' /\ AttemptInv'
    BY <1>46 DEF OfferAgain, client, loop
  <1>47. ASSUME NEW r \in late, Arrive(r) PROVE LoopType' /\ AttemptInv'
    BY <1>47 DEF Arrive, client, loop
  <1> QED
    BY <1>1, <1>2, <1>3, <1>4, <1>5, <1>6, <1>7, <1>8, <1>9, <1>10, <1>11, <1>12,
       <1>13, <1>14, <1>15, <1>16, <1>17, <1>18, <1>19, <1>20, <1>21, <1>22, <1>23,
       <1>24, <1>25, <1>26, <1>27, <1>28, <1>29, <1>30, <1>31, <1>32, <1>33, <1>34,
       <1>35, <1>36, <1>37, <1>38, <1>39, <1>40, <1>41, <1>42, <1>43, <1>44, <1>45,
       <1>46, <1>47 DEF Next, Main, Heart, Forward, Failure, Surroundings, Ended,
       vars, loop, client, sessions, forwarding

\* The control plane keeps its types: what it is sent are requests, and the
\* forwarded ones among them exist.
LEMMA ServerTyped ==
  ASSUME TypeOK, ForwardInv, [Next]_vars
  PROVE  ServerType'
  <1> USE SessionConstants DEF TypeOK, ServerType
  <1>1. ASSUME RegisterSend PROVE ServerType'
    BY <1>1 DEF RegisterSend, client, forwarding, sessions
  <1>2. ASSUME RegisterAnswered PROVE ServerType'
    BY <1>2 DEF RegisterAnswered, LiveIs, NewSession, forwarding, LoopType
  <1>3. ASSUME TokenStored PROVE ServerType'
    BY <1>3 DEF TokenStored, forwarding, sessions
  <1>4. ASSUME RegisterAbandoned PROVE ServerType'
    BY <1>4 DEF RegisterAbandoned, client, forwarding, loop, sessions
  <1>5. ASSUME PollStops PROVE ServerType'
    BY <1>5 DEF PollStops, GoOn, forwarding
  <1>6. ASSUME ClaimSend PROVE ServerType'
    BY <1>6 DEF ClaimSend, GoOn, forwarding
  <1>7. ASSUME ClaimAnswered PROVE ServerType'
    BY <1>7 DEF ClaimAnswered, GoOn, forwarding
  <1>8. ASSUME ClaimUnauthorized PROVE ServerType'
    BY <1>8 DEF ClaimUnauthorized, GoOn, forwarding
  <1>9. ASSUME ClaimAbandoned PROVE ServerType'
    BY <1>9 DEF ClaimAbandoned, GoOn, forwarding
  <1>10. ASSUME BusySend PROVE ServerType'
    BY <1>10 DEF BusySend, GoOn, forwarding
  <1>11. ASSUME BusyAnswered PROVE ServerType'
    BY <1>11, BelieveFields DEF BusyAnswered, GoOn, forwarding, RequestType, Tasks
  <1>12. ASSUME PrepareFailed PROVE ServerType'
    BY <1>12 DEF PrepareFailed, GoOn, forwarding
  <1>13. ASSUME HeartStart PROVE ServerType'
    BY <1>13 DEF HeartStart, GoOn, forwarding
  <1>14. ASSUME RunEnd PROVE ServerType'
    BY <1>14 DEF RunEnd, GoOn, forwarding
  <1>15. ASSUME ReportSend PROVE ServerType'
    BY <1>15 DEF ReportSend, GoOn, forwarding
  <1>16. ASSUME ReportAnswered PROVE ServerType'
    BY <1>16, BelieveFields DEF ReportAnswered, GoOn, forwarding, RequestType, Tasks
  <1>17. ASSUME ReportUnauthorized PROVE ServerType'
    BY <1>17 DEF ReportUnauthorized, GoOn, forwarding
  <1>18. ASSUME Join PROVE ServerType'
    BY <1>18 DEF Join, GoOn, forwarding
  <1>19. ASSUME DeregisterSend PROVE ServerType'
    BY <1>19 DEF DeregisterSend, client, forwarding, sessions
  <1>20. ASSUME DeregisterAnswered PROVE ServerType'
    BY <1>20 DEF DeregisterAnswered, Die, client, forwarding
  <1>21. ASSUME HeartAsk PROVE ServerType'
    BY <1>21 DEF HeartAsk, Beat, forwarding, loop, sessions
  <1>22. ASSUME HeartAsked PROVE ServerType'
    BY <1>22 DEF HeartAsked, Beat, forwarding, loop, sessions
  <1>23. ASSUME HeartBusy PROVE ServerType'
    BY <1>23 DEF HeartBusy, Beat, forwarding, loop, sessions
  <1>24. ASSUME HeartBusyAnswered PROVE ServerType'
    BY <1>24, BelieveFields DEF HeartBusyAnswered, Beat, forwarding, loop, sessions,
       RequestType, Tasks
  <1>25. ASSUME ForwardStop PROVE ServerType'
    BY <1>25 DEF ForwardStop, Forwards, client, forwarding, loop, sessions
  <1>26. ASSUME TakeReadsId PROVE ServerType'
    BY <1>26 DEF TakeReadsId, Forwards, client, forwarding, loop, sessions
  <1>27. ASSUME TakeSend PROVE ServerType'
    BY <1>27 DEF TakeSend, Forwards, client, forwarding, loop, sessions
  <1>28. ASSUME TakenNothing PROVE ServerType'
    BY <1>28 DEF TakenNothing, Forwards, client, forwarding, loop, sessions
  <1>29. ASSUME Execute PROVE ServerType'
    BY <1>29 DEF Execute, Forwards, client, loop, sessions, ForwardInv, Done, LoopType
  <1>30. ASSUME AnswerSend PROVE ServerType'
    BY <1>30 DEF AnswerSend, Forwards, client, forwarding, loop, sessions
  <1>31. ASSUME AnswerEnds PROVE ServerType'
    BY <1>31 DEF AnswerEnds, Forwards, client, loop, sessions, ForwardInv, Done,
       LoopType
  <1>32. ASSUME NEW f \in Forwarded, Taken(f) PROVE ServerType'
    BY <1>32 DEF Taken, Forwards, client, loop, sessions
  <1>33. ASSUME RegisterRejected PROVE ServerType'
    BY <1>33 DEF RegisterRejected, Die, Fault, client, forwarding, sessions
  <1>34. ASSUME RegisterFailed PROVE ServerType'
    BY <1>34 DEF RegisterFailed, Fault, client, forwarding, sessions
  <1>35. ASSUME ClaimFailed PROVE ServerType'
    BY <1>35 DEF ClaimFailed, Fault, GoOn, forwarding
  <1>36. ASSUME StartFailed PROVE ServerType'
    BY <1>36 DEF StartFailed, Fault, GoOn, forwarding
  <1>37. ASSUME BusyFailed PROVE ServerType'
    BY <1>37 DEF BusyFailed, Fault, GoOn, forwarding
  <1>38. ASSUME ReportFailed PROVE ServerType'
    BY <1>38 DEF ReportFailed, Fault, GoOn, forwarding
  <1>39. ASSUME DeregisterRetried PROVE ServerType'
    BY <1>39 DEF DeregisterRetried, Fault, GoOn, forwarding
  <1>40. ASSUME DeregisterFailed PROVE ServerType'
    BY <1>40 DEF DeregisterFailed, Die, Fault, client, forwarding, sessions
  <1>41. ASSUME HeartBusyFailed PROVE ServerType'
    BY <1>41 DEF HeartBusyFailed, Beat, Fault, forwarding, loop, sessions
  <1>42. ASSUME TakeFailed PROVE ServerType'
    BY <1>42 DEF TakeFailed, Fault, Forwards, client, forwarding, loop, sessions
  <1>43. ASSUME AnswerFailed PROVE ServerType'
    BY <1>43 DEF AnswerFailed, Fault, Forwards, client, forwarding, loop, sessions
  <1>44. ASSUME Signal PROVE ServerType'
    BY <1>44 DEF Signal, client, forwarding, loop, sessions
  <1>45. ASSUME Expire PROVE ServerType'
    BY <1>45 DEF Expire, Fault, LiveIs, client, forwarding, loop
  <1>46. ASSUME NEW f \in Forwarded, OfferAgain(f) PROVE ServerType'
    BY <1>46 DEF OfferAgain, Fault, client, loop, sessions
  <1>47. ASSUME NEW r \in late, Arrive(r) PROVE ServerType'
    <2>1. r \in Requests
      BY DEF RequestType
    <2>2. /\ issued' \in Nat /\ live' \in 0..issued' /\ agentId' <= issued'
          /\ jobs' \in 0..MaxJobs
      BY <1>47, <2>1 DEF Arrive, client, loop, LoopType
    <2>3. belief' \in [index : Nat, busy : BOOLEAN]
      BY <1>47, <2>1, BelieveFields DEF Arrive
    <2>4. answered' \subseteq Forwarded
      BY <1>47, <2>1 DEF Arrive, ForwardInv, Done
    <2>5. queue' \subseteq Forwarded /\ handed' \in [Forwarded -> Nat]
      BY <1>47 DEF Arrive
    <2> QED
      BY <1>47, <2>2, <2>3, <2>4, <2>5 DEF Arrive
  <1> QED
    BY <1>1, <1>2, <1>3, <1>4, <1>5, <1>6, <1>7, <1>8, <1>9, <1>10, <1>11, <1>12,
       <1>13, <1>14, <1>15, <1>16, <1>17, <1>18, <1>19, <1>20, <1>21, <1>22, <1>23,
       <1>24, <1>25, <1>26, <1>27, <1>28, <1>29, <1>30, <1>31, <1>32, <1>33, <1>34,
       <1>35, <1>36, <1>37, <1>38, <1>39, <1>40, <1>41, <1>42, <1>43, <1>44, <1>45,
       <1>46, <1>47 DEF Next, Main, Heart, Forward, Failure, Surroundings, Ended,
       vars, loop, client, sessions, forwarding

-----------------------------------------------------------------------------
(* The agent id and the token                                                *)

\* The poll loop and its heartbeat never mix two registrations: agentId changes at
\* RegisterAnswered only, where no heartbeat runs, and the loop works again only
\* after TokenStored.
LEMMA IdentityKept ==
  ASSUME TypeOK, IdentityInv, OnlyForwardingMixes, [Next]_vars
  PROVE  IdentityInv' /\ OnlyForwardingMixes'
  <1> USE DEF TypeOK, RequestType, LoopType, IdentityInv, OnlyForwardingMixes, Working, Tasks
  <1>1. ASSUME RegisterSend PROVE IdentityInv' /\ OnlyForwardingMixes'
    BY <1>1 DEF RegisterSend, client, NoRequest, Requests, Kinds
  <1>2. ASSUME RegisterAnswered PROVE IdentityInv' /\ OnlyForwardingMixes'
    BY <1>2, Freed DEF RegisterAnswered, Free, Waits, OthersWait
  <1>3. ASSUME TokenStored PROVE IdentityInv' /\ OnlyForwardingMixes'
    BY <1>3 DEF TokenStored
  <1>4. ASSUME RegisterAbandoned PROVE IdentityInv' /\ OnlyForwardingMixes'
    BY <1>4, GivenUp DEF RegisterAbandoned, Lost, Free, Waits, OthersWait, client,
       loop
  <1>5. ASSUME PollStops PROVE IdentityInv' /\ OnlyForwardingMixes'
    BY <1>5 DEF PollStops, GoOn
  <1>6. ASSUME ClaimSend PROVE IdentityInv' /\ OnlyForwardingMixes'
    BY <1>6, Sent DEF ClaimSend, Sends, Waits, OthersWait, GoOn
  <1>7. ASSUME ClaimAnswered PROVE IdentityInv' /\ OnlyForwardingMixes'
    BY <1>7, Freed DEF ClaimAnswered, Free, Waits, OthersWait, GoOn
  <1>8. ASSUME ClaimUnauthorized PROVE IdentityInv' /\ OnlyForwardingMixes'
    BY <1>8, Freed DEF ClaimUnauthorized, Free, Waits, OthersWait, GoOn
  <1>9. ASSUME ClaimAbandoned PROVE IdentityInv' /\ OnlyForwardingMixes'
    BY <1>9, GivenUp DEF ClaimAbandoned, Lost, Free, Waits, OthersWait, GoOn
  <1>10. ASSUME BusySend PROVE IdentityInv' /\ OnlyForwardingMixes'
    BY <1>10, Sent DEF BusySend, Sends, Waits, OthersWait, GoOn
  <1>11. ASSUME BusyAnswered PROVE IdentityInv' /\ OnlyForwardingMixes'
    BY <1>11, Freed DEF BusyAnswered, Free, Waits, OthersWait, GoOn
  <1>12. ASSUME PrepareFailed PROVE IdentityInv' /\ OnlyForwardingMixes'
    BY <1>12 DEF PrepareFailed, GoOn
  <1>13. ASSUME HeartStart PROVE IdentityInv' /\ OnlyForwardingMixes'
    BY <1>13 DEF HeartStart, GoOn
  <1>14. ASSUME RunEnd PROVE IdentityInv' /\ OnlyForwardingMixes'
    BY <1>14, GivenUp DEF RunEnd, Lost, Free, Waits, OthersWait, GoOn
  <1>15. ASSUME ReportSend PROVE IdentityInv' /\ OnlyForwardingMixes'
    BY <1>15, Sent DEF ReportSend, Sends, Waits, OthersWait, GoOn
  <1>16. ASSUME ReportAnswered PROVE IdentityInv' /\ OnlyForwardingMixes'
    BY <1>16, Freed DEF ReportAnswered, Free, Waits, OthersWait, GoOn
  <1>17. ASSUME ReportUnauthorized PROVE IdentityInv' /\ OnlyForwardingMixes'
    BY <1>17, Freed DEF ReportUnauthorized, Free, Waits, OthersWait, GoOn
  <1>18. ASSUME Join PROVE IdentityInv' /\ OnlyForwardingMixes'
    BY <1>18 DEF Join, GoOn
  <1>19. ASSUME DeregisterSend PROVE IdentityInv' /\ OnlyForwardingMixes'
    BY <1>19, Sent DEF DeregisterSend, Sends, Waits, OthersWait, client
  <1>20. ASSUME DeregisterAnswered PROVE IdentityInv' /\ OnlyForwardingMixes'
    BY <1>20, DieFrees DEF DeregisterAnswered, Die, client
  <1>21. ASSUME HeartAsk PROVE IdentityInv' /\ OnlyForwardingMixes'
    BY <1>21, Sent DEF HeartAsk, Sends, Waits, OthersWait, Beat, loop
  <1>22. ASSUME HeartAsked PROVE IdentityInv' /\ OnlyForwardingMixes'
    BY <1>22, Freed DEF HeartAsked, Free, Waits, OthersWait, Beat, loop
  <1>23. ASSUME HeartBusy PROVE IdentityInv' /\ OnlyForwardingMixes'
    BY <1>23, Sent DEF HeartBusy, Sends, Waits, OthersWait, Beat, loop
  <1>24. ASSUME HeartBusyAnswered PROVE IdentityInv' /\ OnlyForwardingMixes'
    BY <1>24, Freed DEF HeartBusyAnswered, Free, Waits, OthersWait, Beat, loop
  <1>25. ASSUME ForwardStop PROVE IdentityInv' /\ OnlyForwardingMixes'
    BY <1>25 DEF ForwardStop, Forwards, client, loop
  <1>26. ASSUME TakeReadsId PROVE IdentityInv' /\ OnlyForwardingMixes'
    BY <1>26 DEF TakeReadsId, Forwards, client, loop
  <1>27. ASSUME TakeSend PROVE IdentityInv' /\ OnlyForwardingMixes'
    BY <1>27, Sent DEF TakeSend, Sends, Waits, OthersWait, Forwards, client, loop
  <1>28. ASSUME TakenNothing PROVE IdentityInv' /\ OnlyForwardingMixes'
    BY <1>28, Freed DEF TakenNothing, Free, Waits, OthersWait, Forwards, client, loop
  <1>29. ASSUME Execute PROVE IdentityInv' /\ OnlyForwardingMixes'
    BY <1>29 DEF Execute, Forwards, client, loop
  <1>30. ASSUME AnswerSend PROVE IdentityInv' /\ OnlyForwardingMixes'
    BY <1>30, Sent DEF AnswerSend, Sends, Waits, OthersWait, Forwards, client, loop
  <1>31. ASSUME AnswerEnds PROVE IdentityInv' /\ OnlyForwardingMixes'
    BY <1>31, Freed DEF AnswerEnds, Free, Waits, OthersWait, Forwards, client, loop
  <1>32. ASSUME NEW f \in Forwarded, Taken(f) PROVE IdentityInv' /\ OnlyForwardingMixes'
    <2>1. Free("forward")
      BY <1>32, Freed
    <2> QED
      BY <1>32, <2>1 DEF Taken, Free, Waits, OthersWait, Forwards, client, loop
  <1>33. ASSUME RegisterRejected PROVE IdentityInv' /\ OnlyForwardingMixes'
    BY <1>33, DieFrees DEF RegisterRejected, Die, client
  <1>34. ASSUME RegisterFailed PROVE IdentityInv' /\ OnlyForwardingMixes'
    <2>1. Lost("main")
      BY <1>34, GivenUp
    <2> QED
      BY <1>34, <2>1 DEF RegisterFailed, Lost, Free, Waits, OthersWait, client
  <1>35. ASSUME ClaimFailed PROVE IdentityInv' /\ OnlyForwardingMixes'
    BY <1>35, GivenUp DEF ClaimFailed, Lost, Free, Waits, OthersWait, GoOn
  <1>36. ASSUME StartFailed PROVE IdentityInv' /\ OnlyForwardingMixes'
    BY <1>36 DEF StartFailed, GoOn
  <1>37. ASSUME BusyFailed PROVE IdentityInv' /\ OnlyForwardingMixes'
    BY <1>37, GivenUp DEF BusyFailed, Lost, Free, Waits, OthersWait, GoOn
  <1>38. ASSUME ReportFailed PROVE IdentityInv' /\ OnlyForwardingMixes'
    BY <1>38, GivenUp DEF ReportFailed, Lost, Free, Waits, OthersWait, GoOn
  <1>39. ASSUME DeregisterRetried PROVE IdentityInv' /\ OnlyForwardingMixes'
    BY <1>39, GivenUp DEF DeregisterRetried, Lost, Free, Waits, OthersWait, GoOn
  <1>40. ASSUME DeregisterFailed PROVE IdentityInv' /\ OnlyForwardingMixes'
    BY <1>40, DieFrees DEF DeregisterFailed, Die, client
  <1>41. ASSUME HeartBusyFailed PROVE IdentityInv' /\ OnlyForwardingMixes'
    BY <1>41, GivenUp DEF HeartBusyFailed, Lost, Free, Waits, OthersWait, Beat, loop
  <1>42. ASSUME TakeFailed PROVE IdentityInv' /\ OnlyForwardingMixes'
    BY <1>42, GivenUp DEF TakeFailed, Lost, Free, Waits, OthersWait, Forwards, client,
       loop
  <1>43. ASSUME AnswerFailed PROVE IdentityInv' /\ OnlyForwardingMixes'
    BY <1>43, GivenUp DEF AnswerFailed, Lost, Free, Waits, OthersWait, Forwards,
       client, loop
  <1>44. ASSUME Signal PROVE IdentityInv' /\ OnlyForwardingMixes'
    BY <1>44 DEF Signal, client, loop
  <1>45. ASSUME Expire PROVE IdentityInv' /\ OnlyForwardingMixes'
    BY <1>45 DEF Expire, client, loop
  <1>46. ASSUME NEW f \in Forwarded, OfferAgain(f) PROVE IdentityInv' /\ OnlyForwardingMixes'
    BY <1>46 DEF OfferAgain, client, loop
  <1>47. ASSUME NEW r \in late, Arrive(r) PROVE IdentityInv' /\ OnlyForwardingMixes'
    BY <1>47 DEF Arrive, client, loop
  <1> QED
    BY <1>1, <1>2, <1>3, <1>4, <1>5, <1>6, <1>7, <1>8, <1>9, <1>10, <1>11, <1>12,
       <1>13, <1>14, <1>15, <1>16, <1>17, <1>18, <1>19, <1>20, <1>21, <1>22, <1>23,
       <1>24, <1>25, <1>26, <1>27, <1>28, <1>29, <1>30, <1>31, <1>32, <1>33, <1>34,
       <1>35, <1>36, <1>37, <1>38, <1>39, <1>40, <1>41, <1>42, <1>43, <1>44, <1>45,
       <1>46, <1>47 DEF Next, Main, Heart, Forward, Failure, Surroundings, Ended,
       vars, loop, client, sessions, forwarding

-----------------------------------------------------------------------------
(* Status messages                                                           *)

\* Every index is drawn from the counter, which only grows.
LEMMA IndexKept ==
  ASSUME TypeOK, IndexInv, [Next]_vars
  PROVE  IndexInv'
  <1> USE DEF TypeOK, RequestType, ServerType, LoopType, IndexInv, Requests, Tasks
  <1>1. ASSUME RegisterSend PROVE IndexInv'
    BY <1>1 DEF RegisterSend, client, NoRequest, Requests, Kinds
  <1>2. ASSUME RegisterAnswered PROVE IndexInv'
    BY <1>2, Freed DEF RegisterAnswered, Free, Waits, OthersWait, LiveIs, NewSession
  <1>3. ASSUME TokenStored PROVE IndexInv'
    BY <1>3 DEF TokenStored
  <1>4. ASSUME RegisterAbandoned PROVE IndexInv'
    BY <1>4, GivenUp DEF RegisterAbandoned, Lost, Free, Waits, OthersWait, client,
       loop
  <1>5. ASSUME PollStops PROVE IndexInv'
    BY <1>5 DEF PollStops, GoOn
  <1>6. ASSUME ClaimSend PROVE IndexInv'
    BY <1>6, Sent DEF ClaimSend, Sends, Waits, OthersWait, GoOn
  <1>7. ASSUME ClaimAnswered PROVE IndexInv'
    BY <1>7, Freed DEF ClaimAnswered, Free, Waits, OthersWait, GoOn
  <1>8. ASSUME ClaimUnauthorized PROVE IndexInv'
    BY <1>8, Freed DEF ClaimUnauthorized, Free, Waits, OthersWait, GoOn
  <1>9. ASSUME ClaimAbandoned PROVE IndexInv'
    BY <1>9, GivenUp DEF ClaimAbandoned, Lost, Free, Waits, OthersWait, GoOn
  <1>10. ASSUME BusySend PROVE IndexInv'
    BY <1>10, Sent DEF BusySend, Sends, Waits, OthersWait, GoOn
  <1>11. ASSUME BusyAnswered PROVE IndexInv'
    BY <1>11, Freed, BelieveFields DEF BusyAnswered, Free, Waits, OthersWait, GoOn
  <1>12. ASSUME PrepareFailed PROVE IndexInv'
    BY <1>12 DEF PrepareFailed, GoOn
  <1>13. ASSUME HeartStart PROVE IndexInv'
    BY <1>13 DEF HeartStart, GoOn
  <1>14. ASSUME RunEnd PROVE IndexInv'
    BY <1>14, GivenUp DEF RunEnd, Lost, Free, Waits, OthersWait, GoOn
  <1>15. ASSUME ReportSend PROVE IndexInv'
    BY <1>15, Sent DEF ReportSend, Sends, Waits, OthersWait, GoOn
  <1>16. ASSUME ReportAnswered PROVE IndexInv'
    BY <1>16, Freed, BelieveFields DEF ReportAnswered, Free, Waits, OthersWait, GoOn
  <1>17. ASSUME ReportUnauthorized PROVE IndexInv'
    BY <1>17, Freed DEF ReportUnauthorized, Free, Waits, OthersWait, GoOn
  <1>18. ASSUME Join PROVE IndexInv'
    BY <1>18 DEF Join, GoOn
  <1>19. ASSUME DeregisterSend PROVE IndexInv'
    BY <1>19, Sent DEF DeregisterSend, Sends, Waits, OthersWait, client
  <1>20. ASSUME DeregisterAnswered PROVE IndexInv'
    BY <1>20, DieFrees DEF DeregisterAnswered, Die, client
  <1>21. ASSUME HeartAsk PROVE IndexInv'
    BY <1>21, Sent DEF HeartAsk, Sends, Waits, OthersWait, Beat, loop
  <1>22. ASSUME HeartAsked PROVE IndexInv'
    BY <1>22, Freed DEF HeartAsked, Free, Waits, OthersWait, Beat, loop
  <1>23. ASSUME HeartBusy PROVE IndexInv'
    BY <1>23, Sent DEF HeartBusy, Sends, Waits, OthersWait, Beat, loop
  <1>24. ASSUME HeartBusyAnswered PROVE IndexInv'
    BY <1>24, Freed, BelieveFields DEF HeartBusyAnswered, Free, Waits, OthersWait,
       Beat, loop
  <1>25. ASSUME ForwardStop PROVE IndexInv'
    BY <1>25 DEF ForwardStop, Forwards, client, loop
  <1>26. ASSUME TakeReadsId PROVE IndexInv'
    BY <1>26 DEF TakeReadsId, Forwards, client, loop
  <1>27. ASSUME TakeSend PROVE IndexInv'
    BY <1>27, Sent DEF TakeSend, Sends, Waits, OthersWait, Forwards, client, loop
  <1>28. ASSUME TakenNothing PROVE IndexInv'
    BY <1>28, Freed DEF TakenNothing, Free, Waits, OthersWait, Forwards, client, loop
  <1>29. ASSUME Execute PROVE IndexInv'
    BY <1>29 DEF Execute, Forwards, client, loop
  <1>30. ASSUME AnswerSend PROVE IndexInv'
    BY <1>30, Sent DEF AnswerSend, Sends, Waits, OthersWait, Forwards, client, loop
  <1>31. ASSUME AnswerEnds PROVE IndexInv'
    BY <1>31, Freed DEF AnswerEnds, Free, Waits, OthersWait, Forwards, client, loop
  <1>32. ASSUME NEW f \in Forwarded, Taken(f) PROVE IndexInv'
    <2>1. Free("forward")
      BY <1>32, Freed
    <2> QED
      BY <1>32, <2>1 DEF Taken, Free, Waits, OthersWait, Forwards, client, loop
  <1>33. ASSUME RegisterRejected PROVE IndexInv'
    BY <1>33, DieFrees DEF RegisterRejected, Die, client
  <1>34. ASSUME RegisterFailed PROVE IndexInv'
    <2>1. Lost("main")
      BY <1>34, GivenUp
    <2> QED
      BY <1>34, <2>1 DEF RegisterFailed, Lost, Free, Waits, OthersWait, client
  <1>35. ASSUME ClaimFailed PROVE IndexInv'
    BY <1>35, GivenUp DEF ClaimFailed, Lost, Free, Waits, OthersWait, GoOn
  <1>36. ASSUME StartFailed PROVE IndexInv'
    BY <1>36 DEF StartFailed, GoOn
  <1>37. ASSUME BusyFailed PROVE IndexInv'
    BY <1>37, GivenUp DEF BusyFailed, Lost, Free, Waits, OthersWait, GoOn
  <1>38. ASSUME ReportFailed PROVE IndexInv'
    BY <1>38, GivenUp DEF ReportFailed, Lost, Free, Waits, OthersWait, GoOn
  <1>39. ASSUME DeregisterRetried PROVE IndexInv'
    BY <1>39, GivenUp DEF DeregisterRetried, Lost, Free, Waits, OthersWait, GoOn
  <1>40. ASSUME DeregisterFailed PROVE IndexInv'
    BY <1>40, DieFrees DEF DeregisterFailed, Die, client
  <1>41. ASSUME HeartBusyFailed PROVE IndexInv'
    BY <1>41, GivenUp DEF HeartBusyFailed, Lost, Free, Waits, OthersWait, Beat, loop
  <1>42. ASSUME TakeFailed PROVE IndexInv'
    BY <1>42, GivenUp DEF TakeFailed, Lost, Free, Waits, OthersWait, Forwards, client,
       loop
  <1>43. ASSUME AnswerFailed PROVE IndexInv'
    BY <1>43, GivenUp DEF AnswerFailed, Lost, Free, Waits, OthersWait, Forwards,
       client, loop
  <1>44. ASSUME Signal PROVE IndexInv'
    BY <1>44 DEF Signal, client, loop
  <1>45. ASSUME Expire PROVE IndexInv'
    BY <1>45 DEF Expire, LiveIs, client, loop
  <1>46. ASSUME NEW f \in Forwarded, OfferAgain(f) PROVE IndexInv'
    BY <1>46 DEF OfferAgain, client, loop
  <1>47. ASSUME NEW r \in late, Arrive(r) PROVE IndexInv'
    BY <1>47, BelieveFields DEF Arrive, client, loop
  <1> QED
    BY <1>1, <1>2, <1>3, <1>4, <1>5, <1>6, <1>7, <1>8, <1>9, <1>10, <1>11, <1>12,
       <1>13, <1>14, <1>15, <1>16, <1>17, <1>18, <1>19, <1>20, <1>21, <1>22, <1>23,
       <1>24, <1>25, <1>26, <1>27, <1>28, <1>29, <1>30, <1>31, <1>32, <1>33, <1>34,
       <1>35, <1>36, <1>37, <1>38, <1>39, <1>40, <1>41, <1>42, <1>43, <1>44, <1>45,
       <1>46, <1>47 DEF Next, Main, Heart, Forward, Failure, Surroundings, Ended,
       vars, loop, client, sessions, forwarding

\* A completion takes the next index, and while it is on its way no other task of
\* the agent takes one: RunEnd has ended the heartbeat.
LEMMA ReportKept ==
  ASSUME TypeOK, IndexInv, ReportInv, [Next]_vars
  PROVE  ReportInv'
  <1> USE DEF TypeOK, RequestType, WaitingType, ServerType, LoopType, IndexInv, ReportInv, Requests, Tasks
  <1>1. ASSUME RegisterSend PROVE ReportInv'
    BY <1>1 DEF RegisterSend, client, NoRequest, Requests, Kinds
  <1>2. ASSUME RegisterAnswered PROVE ReportInv'
    BY <1>2, Freed DEF RegisterAnswered, Free, Waits, OthersWait, LiveIs, NewSession
  <1>3. ASSUME TokenStored PROVE ReportInv'
    BY <1>3 DEF TokenStored
  <1>4. ASSUME RegisterAbandoned PROVE ReportInv'
    BY <1>4, GivenUp DEF RegisterAbandoned, Lost, Free, Waits, OthersWait, client,
       loop
  <1>5. ASSUME PollStops PROVE ReportInv'
    BY <1>5 DEF PollStops, GoOn
  <1>6. ASSUME ClaimSend PROVE ReportInv'
    BY <1>6, Sent DEF ClaimSend, Sends, Waits, OthersWait, GoOn
  <1>7. ASSUME ClaimAnswered PROVE ReportInv'
    BY <1>7, Freed DEF ClaimAnswered, Free, Waits, OthersWait, GoOn
  <1>8. ASSUME ClaimUnauthorized PROVE ReportInv'
    BY <1>8, Freed DEF ClaimUnauthorized, Free, Waits, OthersWait, GoOn
  <1>9. ASSUME ClaimAbandoned PROVE ReportInv'
    BY <1>9, GivenUp DEF ClaimAbandoned, Lost, Free, Waits, OthersWait, GoOn
  <1>10. ASSUME BusySend PROVE ReportInv'
    BY <1>10, Sent DEF BusySend, Sends, Waits, OthersWait, GoOn
  <1>11. ASSUME BusyAnswered PROVE ReportInv'
    BY <1>11, Freed, BelieveFields DEF BusyAnswered, Free, Waits, OthersWait, GoOn
  <1>12. ASSUME PrepareFailed PROVE ReportInv'
    BY <1>12 DEF PrepareFailed, GoOn
  <1>13. ASSUME HeartStart PROVE ReportInv'
    BY <1>13 DEF HeartStart, GoOn
  <1>14. ASSUME RunEnd PROVE ReportInv'
    BY <1>14, GivenUp DEF RunEnd, Lost, Free, Waits, OthersWait, GoOn
  <1>15. ASSUME ReportSend PROVE ReportInv'
    BY <1>15, Sent DEF ReportSend, Sends, Waits, OthersWait, GoOn
  <1>16. ASSUME ReportAnswered PROVE ReportInv'
    <2>1. Free("main")
      BY <1>16, Freed
    <2> QED
      BY <1>16, <2>1, BelieveFields DEF ReportAnswered, Free, Waits, OthersWait, GoOn
  <1>17. ASSUME ReportUnauthorized PROVE ReportInv'
    BY <1>17, Freed DEF ReportUnauthorized, Free, Waits, OthersWait, GoOn
  <1>18. ASSUME Join PROVE ReportInv'
    BY <1>18 DEF Join, GoOn
  <1>19. ASSUME DeregisterSend PROVE ReportInv'
    BY <1>19, Sent DEF DeregisterSend, Sends, Waits, OthersWait, client
  <1>20. ASSUME DeregisterAnswered PROVE ReportInv'
    BY <1>20, DieFrees DEF DeregisterAnswered, Die, client
  <1>21. ASSUME HeartAsk PROVE ReportInv'
    BY <1>21, Sent DEF HeartAsk, Sends, Waits, OthersWait, Beat, loop
  <1>22. ASSUME HeartAsked PROVE ReportInv'
    BY <1>22, Freed DEF HeartAsked, Free, Waits, OthersWait, Beat, loop
  <1>23. ASSUME HeartBusy PROVE ReportInv'
    BY <1>23, Sent DEF HeartBusy, Sends, Waits, OthersWait, Beat, loop
  <1>24. ASSUME HeartBusyAnswered PROVE ReportInv'
    BY <1>24, Freed, BelieveFields DEF HeartBusyAnswered, Free, Waits, OthersWait,
       Beat, loop
  <1>25. ASSUME ForwardStop PROVE ReportInv'
    BY <1>25 DEF ForwardStop, Forwards, client, loop
  <1>26. ASSUME TakeReadsId PROVE ReportInv'
    BY <1>26 DEF TakeReadsId, Forwards, client, loop
  <1>27. ASSUME TakeSend PROVE ReportInv'
    BY <1>27, Sent DEF TakeSend, Sends, Waits, OthersWait, Forwards, client, loop
  <1>28. ASSUME TakenNothing PROVE ReportInv'
    BY <1>28, Freed DEF TakenNothing, Free, Waits, OthersWait, Forwards, client, loop
  <1>29. ASSUME Execute PROVE ReportInv'
    BY <1>29 DEF Execute, Forwards, client, loop
  <1>30. ASSUME AnswerSend PROVE ReportInv'
    BY <1>30, Sent DEF AnswerSend, Sends, Waits, OthersWait, Forwards, client, loop
  <1>31. ASSUME AnswerEnds PROVE ReportInv'
    BY <1>31, Freed DEF AnswerEnds, Free, Waits, OthersWait, Forwards, client, loop
  <1>32. ASSUME NEW f \in Forwarded, Taken(f) PROVE ReportInv'
    <2>1. Free("forward")
      BY <1>32, Freed
    <2> QED
      BY <1>32, <2>1 DEF Taken, Free, Waits, OthersWait, Forwards, client, loop
  <1>33. ASSUME RegisterRejected PROVE ReportInv'
    BY <1>33, DieFrees DEF RegisterRejected, Die, client
  <1>34. ASSUME RegisterFailed PROVE ReportInv'
    <2>1. Lost("main")
      BY <1>34, GivenUp
    <2> QED
      BY <1>34, <2>1 DEF RegisterFailed, Lost, Free, Waits, OthersWait, client
  <1>35. ASSUME ClaimFailed PROVE ReportInv'
    BY <1>35, GivenUp DEF ClaimFailed, Lost, Free, Waits, OthersWait, GoOn
  <1>36. ASSUME StartFailed PROVE ReportInv'
    BY <1>36 DEF StartFailed, GoOn
  <1>37. ASSUME BusyFailed PROVE ReportInv'
    BY <1>37, GivenUp DEF BusyFailed, Lost, Free, Waits, OthersWait, GoOn
  <1>38. ASSUME ReportFailed PROVE ReportInv'
    BY <1>38, GivenUp DEF ReportFailed, Lost, Free, Waits, OthersWait, GoOn
  <1>39. ASSUME DeregisterRetried PROVE ReportInv'
    BY <1>39, GivenUp DEF DeregisterRetried, Lost, Free, Waits, OthersWait, GoOn
  <1>40. ASSUME DeregisterFailed PROVE ReportInv'
    BY <1>40, DieFrees DEF DeregisterFailed, Die, client
  <1>41. ASSUME HeartBusyFailed PROVE ReportInv'
    BY <1>41, GivenUp DEF HeartBusyFailed, Lost, Free, Waits, OthersWait, Beat, loop
  <1>42. ASSUME TakeFailed PROVE ReportInv'
    BY <1>42, GivenUp DEF TakeFailed, Lost, Free, Waits, OthersWait, Forwards, client,
       loop
  <1>43. ASSUME AnswerFailed PROVE ReportInv'
    BY <1>43, GivenUp DEF AnswerFailed, Lost, Free, Waits, OthersWait, Forwards,
       client, loop
  <1>44. ASSUME Signal PROVE ReportInv'
    BY <1>44 DEF Signal, client, loop
  <1>45. ASSUME Expire PROVE ReportInv'
    BY <1>45 DEF Expire, LiveIs, client, loop
  <1>46. ASSUME NEW f \in Forwarded, OfferAgain(f) PROVE ReportInv'
    BY <1>46 DEF OfferAgain, client, loop
  <1>47. ASSUME NEW r \in late, Arrive(r) PROVE ReportInv'
    BY <1>47, BelieveFields DEF Arrive, client, loop
  <1> QED
    BY <1>1, <1>2, <1>3, <1>4, <1>5, <1>6, <1>7, <1>8, <1>9, <1>10, <1>11, <1>12,
       <1>13, <1>14, <1>15, <1>16, <1>17, <1>18, <1>19, <1>20, <1>21, <1>22, <1>23,
       <1>24, <1>25, <1>26, <1>27, <1>28, <1>29, <1>30, <1>31, <1>32, <1>33, <1>34,
       <1>35, <1>36, <1>37, <1>38, <1>39, <1>40, <1>41, <1>42, <1>43, <1>44, <1>45,
       <1>46, <1>47 DEF Next, Main, Heart, Forward, Failure, Surroundings, Ended,
       vars, loop, client, sessions, forwarding

\* The answer to a completion makes everything that is late old; until the next job
\* no busy status is sent.
LEMMA QuietKept ==
  ASSUME TypeOK, IndexInv, ReportInv, QuietInv, [Next]_vars
  PROVE  QuietInv'
  <1> USE DEF TypeOK, RequestType, WaitingType, ServerType, LoopType, IndexInv, ReportInv, QuietInv, Quiet, Requests, Tasks
  <1>1. ASSUME RegisterSend PROVE QuietInv'
    BY <1>1 DEF RegisterSend, client, NoRequest, Requests, Kinds
  <1>2. ASSUME RegisterAnswered PROVE QuietInv'
    BY <1>2, Freed DEF RegisterAnswered, Free, Waits, OthersWait, LiveIs, NewSession
  <1>3. ASSUME TokenStored PROVE QuietInv'
    BY <1>3 DEF TokenStored
  <1>4. ASSUME RegisterAbandoned PROVE QuietInv'
    BY <1>4, GivenUp DEF RegisterAbandoned, Lost, Free, Waits, OthersWait, client,
       loop
  <1>5. ASSUME PollStops PROVE QuietInv'
    BY <1>5 DEF PollStops, GoOn
  <1>6. ASSUME ClaimSend PROVE QuietInv'
    BY <1>6, Sent DEF ClaimSend, Sends, Waits, OthersWait, GoOn
  <1>7. ASSUME ClaimAnswered PROVE QuietInv'
    BY <1>7, Freed DEF ClaimAnswered, Free, Waits, OthersWait, GoOn
  <1>8. ASSUME ClaimUnauthorized PROVE QuietInv'
    BY <1>8, Freed DEF ClaimUnauthorized, Free, Waits, OthersWait, GoOn
  <1>9. ASSUME ClaimAbandoned PROVE QuietInv'
    BY <1>9, GivenUp DEF ClaimAbandoned, Lost, Free, Waits, OthersWait, GoOn
  <1>10. ASSUME BusySend PROVE QuietInv'
    BY <1>10, Sent DEF BusySend, Sends, Waits, OthersWait, GoOn
  <1>11. ASSUME BusyAnswered PROVE QuietInv'
    BY <1>11, Freed, BelieveFields DEF BusyAnswered, Free, Waits, OthersWait, GoOn
  <1>12. ASSUME PrepareFailed PROVE QuietInv'
    BY <1>12 DEF PrepareFailed, GoOn
  <1>13. ASSUME HeartStart PROVE QuietInv'
    BY <1>13 DEF HeartStart, GoOn
  <1>14. ASSUME RunEnd PROVE QuietInv'
    BY <1>14, GivenUp DEF RunEnd, Lost, Free, Waits, OthersWait, GoOn
  <1>15. ASSUME ReportSend PROVE QuietInv'
    BY <1>15, Sent DEF ReportSend, Sends, Waits, OthersWait, GoOn
  <1>16. ASSUME ReportAnswered PROVE QuietInv'
    <2>1. Free("main")
      BY <1>16, Freed
    <2> QED
      BY <1>16, <2>1, BelieveFields DEF ReportAnswered, Free, Waits, OthersWait, GoOn
  <1>17. ASSUME ReportUnauthorized PROVE QuietInv'
    BY <1>17, Freed DEF ReportUnauthorized, Free, Waits, OthersWait, GoOn
  <1>18. ASSUME Join PROVE QuietInv'
    BY <1>18 DEF Join, GoOn
  <1>19. ASSUME DeregisterSend PROVE QuietInv'
    BY <1>19, Sent DEF DeregisterSend, Sends, Waits, OthersWait, client
  <1>20. ASSUME DeregisterAnswered PROVE QuietInv'
    BY <1>20, DieFrees DEF DeregisterAnswered, Die, client
  <1>21. ASSUME HeartAsk PROVE QuietInv'
    BY <1>21, Sent DEF HeartAsk, Sends, Waits, OthersWait, Beat, loop
  <1>22. ASSUME HeartAsked PROVE QuietInv'
    BY <1>22, Freed DEF HeartAsked, Free, Waits, OthersWait, Beat, loop
  <1>23. ASSUME HeartBusy PROVE QuietInv'
    BY <1>23, Sent DEF HeartBusy, Sends, Waits, OthersWait, Beat, loop
  <1>24. ASSUME HeartBusyAnswered PROVE QuietInv'
    BY <1>24, Freed, BelieveFields DEF HeartBusyAnswered, Free, Waits, OthersWait,
       Beat, loop
  <1>25. ASSUME ForwardStop PROVE QuietInv'
    BY <1>25 DEF ForwardStop, Forwards, client, loop
  <1>26. ASSUME TakeReadsId PROVE QuietInv'
    BY <1>26 DEF TakeReadsId, Forwards, client, loop
  <1>27. ASSUME TakeSend PROVE QuietInv'
    BY <1>27, Sent DEF TakeSend, Sends, Waits, OthersWait, Forwards, client, loop
  <1>28. ASSUME TakenNothing PROVE QuietInv'
    BY <1>28, Freed DEF TakenNothing, Free, Waits, OthersWait, Forwards, client, loop
  <1>29. ASSUME Execute PROVE QuietInv'
    BY <1>29 DEF Execute, Forwards, client, loop
  <1>30. ASSUME AnswerSend PROVE QuietInv'
    BY <1>30, Sent DEF AnswerSend, Sends, Waits, OthersWait, Forwards, client, loop
  <1>31. ASSUME AnswerEnds PROVE QuietInv'
    BY <1>31, Freed DEF AnswerEnds, Free, Waits, OthersWait, Forwards, client, loop
  <1>32. ASSUME NEW f \in Forwarded, Taken(f) PROVE QuietInv'
    <2>1. Free("forward")
      BY <1>32, Freed
    <2> QED
      BY <1>32, <2>1 DEF Taken, Free, Waits, OthersWait, Forwards, client, loop
  <1>33. ASSUME RegisterRejected PROVE QuietInv'
    BY <1>33, DieFrees DEF RegisterRejected, Die, client
  <1>34. ASSUME RegisterFailed PROVE QuietInv'
    <2>1. Lost("main")
      BY <1>34, GivenUp
    <2> QED
      BY <1>34, <2>1 DEF RegisterFailed, Lost, Free, Waits, OthersWait, client
  <1>35. ASSUME ClaimFailed PROVE QuietInv'
    BY <1>35, GivenUp DEF ClaimFailed, Lost, Free, Waits, OthersWait, GoOn
  <1>36. ASSUME StartFailed PROVE QuietInv'
    BY <1>36 DEF StartFailed, GoOn
  <1>37. ASSUME BusyFailed PROVE QuietInv'
    BY <1>37, GivenUp DEF BusyFailed, Lost, Free, Waits, OthersWait, GoOn
  <1>38. ASSUME ReportFailed PROVE QuietInv'
    BY <1>38, GivenUp DEF ReportFailed, Lost, Free, Waits, OthersWait, GoOn
  <1>39. ASSUME DeregisterRetried PROVE QuietInv'
    BY <1>39, GivenUp DEF DeregisterRetried, Lost, Free, Waits, OthersWait, GoOn
  <1>40. ASSUME DeregisterFailed PROVE QuietInv'
    BY <1>40, DieFrees DEF DeregisterFailed, Die, client
  <1>41. ASSUME HeartBusyFailed PROVE QuietInv'
    BY <1>41, GivenUp DEF HeartBusyFailed, Lost, Free, Waits, OthersWait, Beat, loop
  <1>42. ASSUME TakeFailed PROVE QuietInv'
    BY <1>42, GivenUp DEF TakeFailed, Lost, Free, Waits, OthersWait, Forwards, client,
       loop
  <1>43. ASSUME AnswerFailed PROVE QuietInv'
    BY <1>43, GivenUp DEF AnswerFailed, Lost, Free, Waits, OthersWait, Forwards,
       client, loop
  <1>44. ASSUME Signal PROVE QuietInv'
    BY <1>44 DEF Signal, client, loop
  <1>45. ASSUME Expire PROVE QuietInv'
    BY <1>45 DEF Expire, LiveIs, client, loop
  <1>46. ASSUME NEW f \in Forwarded, OfferAgain(f) PROVE QuietInv'
    BY <1>46 DEF OfferAgain, client, loop
  <1>47. ASSUME NEW r \in late, Arrive(r) PROVE QuietInv'
    BY <1>47, BelieveFields DEF Arrive, client, loop
  <1> QED
    BY <1>1, <1>2, <1>3, <1>4, <1>5, <1>6, <1>7, <1>8, <1>9, <1>10, <1>11, <1>12,
       <1>13, <1>14, <1>15, <1>16, <1>17, <1>18, <1>19, <1>20, <1>21, <1>22, <1>23,
       <1>24, <1>25, <1>26, <1>27, <1>28, <1>29, <1>30, <1>31, <1>32, <1>33, <1>34,
       <1>35, <1>36, <1>37, <1>38, <1>39, <1>40, <1>41, <1>42, <1>43, <1>44, <1>45,
       <1>46, <1>47 DEF Next, Main, Heart, Forward, Failure, Surroundings, Ended,
       vars, loop, client, sessions, forwarding

-----------------------------------------------------------------------------
(* Forwarded requests                                                        *)

\* The forwarding loop executes what it was handed and answers what it executed.
LEMMA ForwardKept ==
  ASSUME TypeOK, ForwardInv, ExecutedOncePerHandout, [Next]_vars
  PROVE  ForwardInv' /\ ExecutedOncePerHandout'
  <1> USE DEF TypeOK, RequestType, WaitingType, LoopType, ServerType, ForwardInv, Done, ExecutedOncePerHandout, Tasks
  <1>1. ASSUME RegisterSend PROVE ForwardInv' /\ ExecutedOncePerHandout'
    BY <1>1 DEF RegisterSend, client, forwarding, NoRequest, Requests, Kinds
  <1>2. ASSUME RegisterAnswered PROVE ForwardInv' /\ ExecutedOncePerHandout'
    BY <1>2, Freed DEF RegisterAnswered, Free, Waits, OthersWait, LiveIs, NewSession,
       forwarding
  <1>3. ASSUME TokenStored PROVE ForwardInv' /\ ExecutedOncePerHandout'
    BY <1>3 DEF TokenStored, forwarding
  <1>4. ASSUME RegisterAbandoned PROVE ForwardInv' /\ ExecutedOncePerHandout'
    BY <1>4, GivenUp DEF RegisterAbandoned, Lost, Free, Waits, OthersWait, client,
       forwarding, loop
  <1>5. ASSUME PollStops PROVE ForwardInv' /\ ExecutedOncePerHandout'
    BY <1>5 DEF PollStops, GoOn, forwarding
  <1>6. ASSUME ClaimSend PROVE ForwardInv' /\ ExecutedOncePerHandout'
    BY <1>6, Sent DEF ClaimSend, Sends, Waits, OthersWait, GoOn, forwarding
  <1>7. ASSUME ClaimAnswered PROVE ForwardInv' /\ ExecutedOncePerHandout'
    BY <1>7, Freed DEF ClaimAnswered, Free, Waits, OthersWait, GoOn, forwarding
  <1>8. ASSUME ClaimUnauthorized PROVE ForwardInv' /\ ExecutedOncePerHandout'
    BY <1>8, Freed DEF ClaimUnauthorized, Free, Waits, OthersWait, GoOn, forwarding
  <1>9. ASSUME ClaimAbandoned PROVE ForwardInv' /\ ExecutedOncePerHandout'
    BY <1>9, GivenUp DEF ClaimAbandoned, Lost, Free, Waits, OthersWait, GoOn,
       forwarding
  <1>10. ASSUME BusySend PROVE ForwardInv' /\ ExecutedOncePerHandout'
    BY <1>10, Sent DEF BusySend, Sends, Waits, OthersWait, GoOn, forwarding
  <1>11. ASSUME BusyAnswered PROVE ForwardInv' /\ ExecutedOncePerHandout'
    BY <1>11, Freed DEF BusyAnswered, Free, Waits, OthersWait, GoOn, forwarding
  <1>12. ASSUME PrepareFailed PROVE ForwardInv' /\ ExecutedOncePerHandout'
    BY <1>12 DEF PrepareFailed, GoOn, forwarding
  <1>13. ASSUME HeartStart PROVE ForwardInv' /\ ExecutedOncePerHandout'
    BY <1>13 DEF HeartStart, GoOn, forwarding
  <1>14. ASSUME RunEnd PROVE ForwardInv' /\ ExecutedOncePerHandout'
    BY <1>14, GivenUp DEF RunEnd, Lost, Free, Waits, OthersWait, GoOn, forwarding
  <1>15. ASSUME ReportSend PROVE ForwardInv' /\ ExecutedOncePerHandout'
    BY <1>15, Sent DEF ReportSend, Sends, Waits, OthersWait, GoOn, forwarding
  <1>16. ASSUME ReportAnswered PROVE ForwardInv' /\ ExecutedOncePerHandout'
    <2>1. Free("main")
      BY <1>16, Freed
    <2> QED
      BY <1>16, <2>1 DEF ReportAnswered, Free, Waits, OthersWait, GoOn, forwarding
  <1>17. ASSUME ReportUnauthorized PROVE ForwardInv' /\ ExecutedOncePerHandout'
    BY <1>17, Freed DEF ReportUnauthorized, Free, Waits, OthersWait, GoOn, forwarding
  <1>18. ASSUME Join PROVE ForwardInv' /\ ExecutedOncePerHandout'
    BY <1>18 DEF Join, GoOn, forwarding
  <1>19. ASSUME DeregisterSend PROVE ForwardInv' /\ ExecutedOncePerHandout'
    BY <1>19, Sent DEF DeregisterSend, Sends, Waits, OthersWait, client, forwarding
  <1>20. ASSUME DeregisterAnswered PROVE ForwardInv' /\ ExecutedOncePerHandout'
    BY <1>20, DieFrees DEF DeregisterAnswered, Die, client, forwarding
  <1>21. ASSUME HeartAsk PROVE ForwardInv' /\ ExecutedOncePerHandout'
    BY <1>21, Sent DEF HeartAsk, Sends, Waits, OthersWait, Beat, forwarding, loop
  <1>22. ASSUME HeartAsked PROVE ForwardInv' /\ ExecutedOncePerHandout'
    BY <1>22, Freed DEF HeartAsked, Free, Waits, OthersWait, Beat, forwarding, loop
  <1>23. ASSUME HeartBusy PROVE ForwardInv' /\ ExecutedOncePerHandout'
    BY <1>23, Sent DEF HeartBusy, Sends, Waits, OthersWait, Beat, forwarding, loop
  <1>24. ASSUME HeartBusyAnswered PROVE ForwardInv' /\ ExecutedOncePerHandout'
    BY <1>24, Freed DEF HeartBusyAnswered, Free, Waits, OthersWait, Beat, forwarding,
       loop
  <1>25. ASSUME ForwardStop PROVE ForwardInv' /\ ExecutedOncePerHandout'
    BY <1>25 DEF ForwardStop, Forwards, client, forwarding, loop
  <1>26. ASSUME TakeReadsId PROVE ForwardInv' /\ ExecutedOncePerHandout'
    BY <1>26 DEF TakeReadsId, Forwards, client, forwarding, loop
  <1>27. ASSUME TakeSend PROVE ForwardInv' /\ ExecutedOncePerHandout'
    BY <1>27, Sent DEF TakeSend, Sends, Waits, OthersWait, Forwards, client,
       forwarding, loop
  <1>28. ASSUME TakenNothing PROVE ForwardInv' /\ ExecutedOncePerHandout'
    BY <1>28, Freed DEF TakenNothing, Free, Waits, OthersWait, Forwards, client,
       forwarding, loop
  <1>29. ASSUME Execute PROVE ForwardInv' /\ ExecutedOncePerHandout'
    BY <1>29 DEF Execute, Forwards, client, loop
  <1>30. ASSUME AnswerSend PROVE ForwardInv' /\ ExecutedOncePerHandout'
    BY <1>30, Sent DEF AnswerSend, Sends, Waits, OthersWait, Forwards, client,
       forwarding, loop
  <1>31. ASSUME AnswerEnds PROVE ForwardInv' /\ ExecutedOncePerHandout'
    BY <1>31, Freed DEF AnswerEnds, Free, Waits, OthersWait, Forwards, client, loop
  <1>32. ASSUME NEW f \in Forwarded, Taken(f) PROVE ForwardInv' /\ ExecutedOncePerHandout'
    <2>1. Free("forward")
      BY <1>32, Freed
    <2> QED
      BY <1>32, <2>1 DEF Taken, Free, Waits, OthersWait, Forwards, client, loop
  <1>33. ASSUME RegisterRejected PROVE ForwardInv' /\ ExecutedOncePerHandout'
    BY <1>33, DieFrees DEF RegisterRejected, Die, client, forwarding
  <1>34. ASSUME RegisterFailed PROVE ForwardInv' /\ ExecutedOncePerHandout'
    <2>1. Lost("main")
      BY <1>34, GivenUp
    <2> QED
      BY <1>34, <2>1 DEF RegisterFailed, Lost, Free, Waits, OthersWait, client,
         forwarding
  <1>35. ASSUME ClaimFailed PROVE ForwardInv' /\ ExecutedOncePerHandout'
    BY <1>35, GivenUp DEF ClaimFailed, Lost, Free, Waits, OthersWait, GoOn, forwarding
  <1>36. ASSUME StartFailed PROVE ForwardInv' /\ ExecutedOncePerHandout'
    BY <1>36 DEF StartFailed, GoOn, forwarding
  <1>37. ASSUME BusyFailed PROVE ForwardInv' /\ ExecutedOncePerHandout'
    BY <1>37, GivenUp DEF BusyFailed, Lost, Free, Waits, OthersWait, GoOn, forwarding
  <1>38. ASSUME ReportFailed PROVE ForwardInv' /\ ExecutedOncePerHandout'
    BY <1>38, GivenUp DEF ReportFailed, Lost, Free, Waits, OthersWait, GoOn,
       forwarding
  <1>39. ASSUME DeregisterRetried PROVE ForwardInv' /\ ExecutedOncePerHandout'
    BY <1>39, GivenUp DEF DeregisterRetried, Lost, Free, Waits, OthersWait, GoOn,
       forwarding
  <1>40. ASSUME DeregisterFailed PROVE ForwardInv' /\ ExecutedOncePerHandout'
    BY <1>40, DieFrees DEF DeregisterFailed, Die, client, forwarding
  <1>41. ASSUME HeartBusyFailed PROVE ForwardInv' /\ ExecutedOncePerHandout'
    BY <1>41, GivenUp DEF HeartBusyFailed, Lost, Free, Waits, OthersWait, Beat,
       forwarding, loop
  <1>42. ASSUME TakeFailed PROVE ForwardInv' /\ ExecutedOncePerHandout'
    BY <1>42, GivenUp DEF TakeFailed, Lost, Free, Waits, OthersWait, Forwards, client,
       forwarding, loop
  <1>43. ASSUME AnswerFailed PROVE ForwardInv' /\ ExecutedOncePerHandout'
    BY <1>43, GivenUp DEF AnswerFailed, Lost, Free, Waits, OthersWait, Forwards,
       client, forwarding, loop
  <1>44. ASSUME Signal PROVE ForwardInv' /\ ExecutedOncePerHandout'
    BY <1>44 DEF Signal, client, forwarding, loop
  <1>45. ASSUME Expire PROVE ForwardInv' /\ ExecutedOncePerHandout'
    BY <1>45 DEF Expire, LiveIs, client, forwarding, loop
  <1>46. ASSUME NEW f \in Forwarded, OfferAgain(f) PROVE ForwardInv' /\ ExecutedOncePerHandout'
    BY <1>46 DEF OfferAgain, client, loop
  <1>47. ASSUME NEW r \in late, Arrive(r) PROVE ForwardInv' /\ ExecutedOncePerHandout'
    BY <1>47 DEF Arrive, client, loop
  <1> QED
    BY <1>1, <1>2, <1>3, <1>4, <1>5, <1>6, <1>7, <1>8, <1>9, <1>10, <1>11, <1>12,
       <1>13, <1>14, <1>15, <1>16, <1>17, <1>18, <1>19, <1>20, <1>21, <1>22, <1>23,
       <1>24, <1>25, <1>26, <1>27, <1>28, <1>29, <1>30, <1>31, <1>32, <1>33, <1>34,
       <1>35, <1>36, <1>37, <1>38, <1>39, <1>40, <1>41, <1>42, <1>43, <1>44, <1>45,
       <1>46, <1>47 DEF Next, Main, Heart, Forward, Failure, Surroundings, Ended,
       vars, loop, client, sessions, forwarding

-----------------------------------------------------------------------------
(* Together                                                                  *)

\* The inductive invariant: the types, and for each property what keeps it.
IInv ==
  /\ TypeOK /\ AttemptInv
  /\ IdentityInv /\ OnlyForwardingMixes
  /\ IndexInv /\ ReportInv /\ QuietInv
  /\ ForwardInv /\ ExecutedOncePerHandout

LEMMA InitHolds == Init => IInv
  <1> SUFFICES ASSUME Init PROVE IInv
    OBVIOUS
  <1>1. \A t \in Tasks : /\ waiting[t] = NoRequest(t) /\ NoRequest(t) \in Requests
                         /\ waiting[t].kind = "none" /\ waiting[t].index = 0
                         /\ waiting[t].from = t
    BY DEF Init, NoRequest, Requests, Kinds
  <1>2. waiting \in [Tasks -> Requests]
    BY <1>1 DEF Init
  <1>3. RequestType /\ WaitingType
    BY <1>1, <1>2 DEF Init, RequestType, WaitingType, Tasks
  <1>4. LoopType /\ AttemptInv
    <2>1. 0 < DeregisterAttempts /\ 0 \in 0..DeregisterAttempts
      BY SessionConstants
    <2> QED
      BY <2>1 DEF Init, LoopType, AttemptInv
  <1>5. IdentityInv /\ OnlyForwardingMixes
    BY <1>1 DEF Init, IdentityInv, OnlyForwardingMixes, Working
  <1>6. IndexInv /\ ReportInv /\ QuietInv
    BY <1>1 DEF Init, IndexInv, ReportInv, QuietInv, Tasks
  <1>7. ForwardInv /\ ExecutedOncePerHandout
    BY <1>1 DEF Init, ForwardInv, ExecutedOncePerHandout
  <1>8. ServerType
    BY SessionConstants DEF Init, ServerType
  <1> QED
    BY <1>3, <1>4, <1>5, <1>6, <1>7, <1>8 DEF IInv, TypeOK

LEMMA NextKeeps == IInv /\ [Next]_vars => IInv'
  <1> SUFFICES ASSUME IInv, [Next]_vars PROVE IInv'
    OBVIOUS
  <1>1. TypeOK'
    BY RequestsTyped, LoopTyped, ServerTyped DEF IInv, TypeOK
  <1>2. AttemptInv'
    BY LoopTyped DEF IInv
  <1>3. IdentityInv' /\ OnlyForwardingMixes'
    BY IdentityKept DEF IInv
  <1>4. IndexInv' /\ ReportInv' /\ QuietInv'
    BY IndexKept, ReportKept, QuietKept DEF IInv
  <1>5. ForwardInv' /\ ExecutedOncePerHandout'
    BY ForwardKept DEF IInv
  <1> QED
    BY <1>1, <1>2, <1>3, <1>4, <1>5 DEF IInv

-----------------------------------------------------------------------------
(* The theorems                                                              *)

\* The agent and the control plane stay in step: the types, the indexes and the
\* forwarded requests together.
THEOREM SessionInvariant == Spec => []IInv
  BY InitHolds, NextKeeps, PTL DEF Spec

\* Every variable keeps its type and every task waits for the request of its step.
THEOREM SessionTypeCorrect == Spec => []TypeOK
  <1>1. IInv => TypeOK
    BY DEF IInv
  <1> QED
    BY <1>1, SessionInvariant, PTL

\* No claim, status or completion carries the id of one session and the token of
\* another (agent_headers, register).
THEOREM SessionsAreNotMixed == Spec => []OnlyForwardingMixes
  <1>1. IInv => OnlyForwardingMixes
    BY DEF IInv
  <1> QED
    BY <1>1, SessionInvariant, PTL

\* After an acknowledged completion no busy status, however late, makes the
\* control plane take the agent for busy (put_status, heartbeat.abort).
THEOREM BelievedIdle == Spec => []IdleIsBelieved
  <1>1. IInv => IdleIsBelieved
    BY DEF IInv, QuietInv, Quiet, IdleIsBelieved
  <1> QED
    BY <1>1, SessionInvariant, PTL

\* A forwarded request is executed at most once for each time it is handed out
\* (forward_once).
THEOREM OncePerHandout == Spec => []ExecutedOncePerHandout
  <1>1. IInv => ExecutedOncePerHandout
    BY DEF IInv
  <1> QED
    BY <1>1, SessionInvariant, PTL
=============================================================================
