-------------------------- MODULE MCProgressGuard --------------------------
(* Instance of ProgressGuard for TLC: two invocations that share a guard,  *)
(* calls on two targets and one without a target.                          *)
EXTENDS ProgressGuard

MCInvocations == {"i1", "i2"}
MCActions == {"edit1", "test1", "edit2", "list"}
MCKeyOf ==
  [a \in MCActions |-> CASE a \in {"edit1", "test1"} -> "TASK-01"
                         [] a = "edit2" -> "TASK-02"
                         [] a = "list" -> "none"]
=============================================================================
