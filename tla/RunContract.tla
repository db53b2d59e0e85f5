----------------------------- MODULE RunContract -----------------------------
(***************************************************************************)
(* What Runner::run promises the poll loop: one answer, which tells the      *)
(* truth about the state that an apply may have changed.  No process, no     *)
(* deadline and no cancellation appear here.                                 *)
(***************************************************************************)

VARIABLES
  phase,     \* "plan" or "apply"
  marked,    \* whether the run directory says that the apply was executed before
  change,    \* the apply command: "none", "running" or "ended"
  answer     \* the outcome of the run

\* The state an answer carries: "final" is the one the apply command left,
\* "early" one that may be older.
Answers == [status : {"finished", "errored", "canceled"}, recovery : BOOLEAN,
            state : {"none", "early", "final"}]
NoAnswer == [status |-> "none", recovery |-> FALSE, state |-> "none"]

Init ==
  /\ phase \in {"plan", "apply"}
  /\ marked \in BOOLEAN
  /\ change = "none"
  /\ answer = NoAnswer

Begin ==
  /\ phase = "apply" /\ ~marked /\ change = "none" /\ answer = NoAnswer
  /\ change' = "running"
  /\ UNCHANGED <<phase, marked, answer>>

End ==
  /\ change = "running"
  /\ change' = "ended"
  /\ UNCHANGED <<phase, marked, answer>>

\* The answer waits for the end of the command.  A plan changes nothing.  Once
\* resources may have changed, either the answer carries the final state or it
\* asks for recovery.  An apply has finished only if nothing is left to recover and
\* its state is in the answer: the final one, or where the run directory says that
\* the apply was executed before, and nothing is changed, the one found.
Truthful(a) ==
  /\ phase = "plan" => ~a.recovery /\ a.state = "none"
  /\ a.state = "final" => change = "ended"
  /\ change # "none" /\ a.state # "final" => a.recovery
  /\ phase = "apply" /\ a.status = "canceled" => a.recovery
  /\ phase = "apply" /\ a.status = "finished" =>
       /\ ~a.recovery /\ a.state # "none"
       /\ a.state = "final" \/ (marked /\ change = "none")

Answer ==
  /\ answer = NoAnswer /\ change # "running"
  /\ \E a \in Answers : Truthful(a) /\ answer' = a
  /\ UNCHANGED <<phase, marked, change>>

Next == Begin \/ End \/ Answer

Spec == Init /\ [][Next]_<<phase, marked, change, answer>>
=============================================================================
