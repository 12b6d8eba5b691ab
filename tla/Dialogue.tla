------------------------------ MODULE Dialogue ------------------------------
(***************************************************************************)
(* What the task tool of langgraph/subagent_task_tool.py promises: a       *)
(* conversation between a role and the user in which every question is put *)
(* to the user once, answered once, and the role is told, once, each       *)
(* answer together with the very question it was given to.                 *)
(***************************************************************************)
EXTENDS Naturals, Sequences

CONSTANTS Questions, Replies

VARIABLES
  asked,    \* the questions put to the user, in order
  answers,  \* the user's answers, in order
  told,     \* the <<question, answer>> pairs the role was told, in order
  outcome   \* "open", "done" or "failed"

vars == <<asked, answers, told, outcome>>

Init == asked = <<>> /\ answers = <<>> /\ told = <<>> /\ outcome = "open"

(* The role asks when it knows every earlier answer. *)
Ask(q) ==
  /\ outcome = "open"
  /\ Len(asked) = Len(told)
  /\ asked' = Append(asked, q)
  /\ UNCHANGED <<answers, told, outcome>>

Reply(r) ==
  /\ outcome = "open"
  /\ Len(answers) < Len(asked)
  /\ answers' = Append(answers, r)
  /\ UNCHANGED <<asked, told, outcome>>

Tell ==
  /\ outcome = "open"
  /\ Len(told) < Len(answers)
  /\ LET n == Len(told) + 1
     IN  told' = Append(told, <<asked[n], answers[n]>>)
  /\ UNCHANGED <<asked, answers, outcome>>

(* The conversation ends with no question open, or fails at any time. *)
End ==
  /\ outcome = "open"
  /\ \/ Len(asked) = Len(told) /\ outcome' = "done"
     \/ outcome' = "failed"
  /\ UNCHANGED <<asked, answers, told>>

Next ==
  \/ \E q \in Questions : Ask(q)
  \/ \E r \in Replies : Reply(r)
  \/ Tell
  \/ End

Spec == Init /\ [][Next]_vars
=============================================================================
