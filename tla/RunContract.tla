----------------------------- MODULE RunContract -----------------------------
(***************************************************************************)
(* What Orchestrator.run_pipeline promises whoever calls it: the run comes *)
(* to its N steps one after the other and ends once.  It returns completed *)
(* when it has come to the last of them, aborted at any, and raises what a *)
(* step or a callback raised, or its caller's cancellation.                *)
(***************************************************************************)
EXTENDS Naturals

CONSTANT N

VARIABLES
  status,  \* "queued", "running" or how the run ended
  at       \* the step it has come to, 0 before the first

vars == <<status, at>>

Init == status = "queued" /\ at = 0

Start ==
  /\ status = "queued"
  /\ status' = "running"
  /\ at' = IF N = 0 THEN 0 ELSE 1

Advance ==
  /\ status = "running" /\ at < N
  /\ at' = at + 1
  /\ UNCHANGED status

Complete ==
  /\ status = "running" /\ at = N
  /\ status' = "completed"
  /\ UNCHANGED at

Abort ==
  /\ status = "running" /\ at > 0
  /\ status' = "aborted"
  /\ UNCHANGED at

Raise ==
  /\ status = "running"
  /\ status' = "raised"
  /\ UNCHANGED at

Cancel ==
  /\ status \in {"queued", "running"}
  /\ status' = "cancelled"
  /\ UNCHANGED at

Next == Start \/ Advance \/ Complete \/ Abort \/ Raise \/ Cancel

Spec == Init /\ [][Next]_vars
=============================================================================
