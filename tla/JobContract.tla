----------------------------- MODULE JobContract -----------------------------
(***************************************************************************)
(* What the agent promises about every job the control plane hands it, with *)
(* no journal, no process and no crash in sight: a job is admitted once,    *)
(* executed at most once, settled with one outcome, that outcome and no     *)
(* other is what the control plane is told (as often as needed), and the    *)
(* job is closed only after it was told.  A closed job may be forgotten     *)
(* after the journal's retention time, and then starts over.                *)
(*                                                                         *)
(* JobLifecycle implements this contract under the refinement mapping given *)
(* there (Contract!Spec).                                                   *)
(***************************************************************************)
EXTENDS Naturals

CONSTANTS
  Jobs,          \* job ids
  Outcomes,      \* what a job can end in
  NoOutcome      \* the outcome of a job that is not settled

VARIABLES
  stage,         \* unknown, admitted, settled or closed
  executions,    \* how often the job's command was started
  outcome,       \* what a settled job ended in
  told           \* the outcomes the control plane was told

vars == <<stage, executions, outcome, told>>

Init ==
  /\ stage = [j \in Jobs |-> "unknown"]
  /\ executions = [j \in Jobs |-> 0]
  /\ outcome = [j \in Jobs |-> NoOutcome]
  /\ told = [j \in Jobs |-> {}]

Admit(j) ==
  /\ stage[j] = "unknown"
  /\ stage' = [stage EXCEPT ![j] = "admitted"]
  /\ UNCHANGED <<executions, outcome, told>>

Execute(j) ==
  /\ stage[j] = "admitted"
  /\ executions[j] = 0
  /\ executions' = [executions EXCEPT ![j] = 1]
  /\ UNCHANGED <<stage, outcome, told>>

Settle(j, o) ==
  /\ stage[j] = "admitted"
  /\ stage' = [stage EXCEPT ![j] = "settled"]
  /\ outcome' = [outcome EXCEPT ![j] = o]
  /\ UNCHANGED <<executions, told>>

Tell(j) ==
  /\ stage[j] = "settled"
  /\ told' = [told EXCEPT ![j] = @ \union {outcome[j]}]
  /\ UNCHANGED <<stage, executions, outcome>>

Close(j) ==
  /\ stage[j] = "settled"
  /\ told[j] = {outcome[j]}
  /\ stage' = [stage EXCEPT ![j] = "closed"]
  /\ outcome' = [outcome EXCEPT ![j] = NoOutcome]
  /\ UNCHANGED <<executions, told>>

Forget(gone) ==
  /\ \A j \in gone : stage[j] = "closed"
  /\ stage' = [j \in Jobs |-> IF j \in gone THEN "unknown" ELSE stage[j]]
  /\ executions' = [j \in Jobs |-> IF j \in gone THEN 0 ELSE executions[j]]
  /\ told' = [j \in Jobs |-> IF j \in gone THEN {} ELSE told[j]]
  /\ UNCHANGED outcome

Next ==
  \/ \E j \in Jobs : Admit(j) \/ Execute(j) \/ Tell(j) \/ Close(j)
  \/ \E j \in Jobs, o \in Outcomes : Settle(j, o)
  \/ \E gone \in SUBSET Jobs : Forget(gone)

Spec == Init /\ [][Next]_vars
=============================================================================
