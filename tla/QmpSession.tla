----------------------------- MODULE QmpSession -----------------------------
(***************************************************************************)
(* What a QMP client promises the tasks that use it: a session goes round  *)
(* idle, connecting, running, disconnecting; a command issued while it     *)
(* runs ends in exactly one way, and is never left waiting once the        *)
(* session is idle again.                                                  *)
(***************************************************************************)
CONSTANT Exec  \* the executions, named by the order of their execute() calls

VARIABLES
  session,  \* the run state
  outcome   \* outcome[n]: how execution n stands

vars == <<session, outcome>>

Init ==
  /\ session = "idle"
  /\ outcome = [n \in Exec |-> "new"]

Begin ==
  /\ session = "idle"
  /\ session' = "connecting"
  /\ UNCHANGED outcome

Establish ==
  /\ session = "connecting"
  /\ session' = "running"
  /\ UNCHANGED outcome

(* On request, after an error, or at the peer's wish. *)
Leave ==
  /\ session' = "disconnecting"
  /\ UNCHANGED outcome

Quiesce ==
  /\ session = "disconnecting"
  /\ \A n \in Exec : outcome[n] # "waiting"
  /\ session' = "idle"
  /\ UNCHANGED outcome

Issue(n) ==
  /\ session = "running"
  /\ outcome[n] = "new"
  /\ outcome' = [outcome EXCEPT ![n] = "waiting"]
  /\ UNCHANGED session

(* The reply is the one to this very command; it may still arrive while    *)
(* the session is being left.  Only leaving it interrupts an execution.    *)
End(n) ==
  /\ session \in {"running", "disconnecting"}
  /\ outcome[n] = "waiting"
  /\ \E how \in {"replied", "cancelled"} \cup
                (IF session = "disconnecting" THEN {"interrupted"} ELSE {}) :
       outcome' = [outcome EXCEPT ![n] = how]
  /\ UNCHANGED session

Next ==
  \/ Begin \/ Establish \/ Leave \/ Quiesce
  \/ \E n \in Exec : Issue(n) \/ End(n)

Spec == Init /\ [][Next]_vars
=============================================================================
