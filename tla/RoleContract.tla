---------------------------- MODULE RoleContract ----------------------------
(***************************************************************************)
(* What Orchestrator.invoke_role promises whoever calls it, a step of a    *)
(* pipeline above all: an invocation begins once and ends once.  Left      *)
(* alone it returns a result with a status, or raises what the role        *)
(* raised; once its caller has cancelled it, it brings back no result of   *)
(* the role any more: it raises CancelledError, or, when its watchdog was  *)
(* already giving the role up, returns ABORTED.                            *)
(***************************************************************************)

VARIABLES
  status,  \* "queued", "running" or how the invocation ended
  cancel   \* "pending" while it goes on though its caller cancelled it

vars == <<status, cancel>>

Live == {"queued", "running"}
Returned == {"COMPLETED", "INCOMPLETE", "FAILED", "ABORTED"}

Init == status = "queued" /\ cancel = "no"

Start ==
  /\ status = "queued" /\ cancel = "no"
  /\ status' = "running"
  /\ UNCHANGED cancel

Return ==
  /\ status = "running" /\ cancel = "no"
  /\ status' \in Returned
  /\ UNCHANGED cancel

Raise ==
  /\ status \in Live /\ cancel = "no"
  /\ status' = "RAISED"
  /\ UNCHANGED cancel

Cancel ==
  /\ status \in Live /\ cancel = "no"
  /\ cancel' = "pending"
  /\ UNCHANGED status

(* The cancellation ends the invocation, at once or in the end. *)
EndCancelled ==
  /\ status \in Live
  /\ status' = "CANCELLED"
  /\ cancel' = "no"

EndAborted ==
  /\ status = "running" /\ cancel = "pending"
  /\ status' = "ABORTED"
  /\ cancel' = "no"

Next == Start \/ Return \/ Raise \/ Cancel \/ EndCancelled \/ EndAborted

Spec == Init /\ [][Next]_vars
=============================================================================
