------------------------------ MODULE Pipeline ------------------------------
(***************************************************************************)
(* Orchestrator.run_pipeline: the steps of a static pipeline in order,     *)
(* each one skipped, a role invocation, a fan-out of them under            *)
(* asyncio.gather, or an LLM-less dispatch of a plan of tool calls in      *)
(* priority groups.  An invocation of a role is seen from outside only:    *)
(* it starts and ends with one of the outcomes RoleInvocation shows.       *)
(***************************************************************************)
EXTENDS Naturals, Sequences, FiniteSets, SequencesExt

CONSTANTS
  N,              \* number of steps of the pipeline
  Kinds,          \* kinds of step, a subset of StepKinds
  Modes,          \* values of on_step_failure
  Branches,       \* slots for the invocations of one fan-out
  Plans,          \* the plans tool_calls_from may return
  CallerCancels   \* may the caller cancel run_pipeline?

(* "strict" is an ExecuteToolsStep with continue_on_failure=False.         *)
StepKinds == {"role", "fan_out", "tools", "strict"}

ASSUME PipelineAssumption ==
  /\ N \in Nat
  /\ Kinds \subseteq StepKinds
  /\ Modes \subseteq {"abort", "continue", "escalate_hitl"}
  /\ IsFiniteSet(Branches) /\ Branches \cap {"run", "step"} = {}
  /\ \A p \in Plans :
       /\ p \in Seq(ToSet(p))
       /\ \A i \in DOMAIN p : p[i].prio \in Nat /\ p[i].registered \in BOOLEAN
  /\ CallerCancels \in BOOLEAN

VARIABLES
  mode, kinds,  \* the pipeline: on_step_failure and the kind of each step
  pos,          \* the step the run has reached
  stage,        \* the await run_pipeline is parked at
  verdict,      \* what run_pipeline will return, if it returns
  state,        \* state[k]: what is recorded of step k
  branch,       \* branch[b]: the invocation in slot b
  cancel,       \* a cancellation by the caller: "no", "pending" or "spent"
  plan,         \* the plan of the current ExecuteToolsStep
  running,      \* indices of plan under way in call_parallel
  okay,         \* okay[i]: the call at index i has succeeded      (history)
  tried,        \* indices whose group has been reached            (history)
  found,        \* results_by_call_id: id -> index the result is of
  stepOk,       \* step_ok of the current ExecuteToolsStep
  results,      \* tool_results of it, each given by its index
  open          \* boundaries with a start event and no end event  (history)

toolVars == <<plan, running, okay, tried, found, stepOk, results>>
vars == <<mode, kinds, pos, stage, verdict, state, branch, cancel, open, toolVars>>

Failed  == {"FAILED", "ABORTED"}
Ended   == {"COMPLETED", "INCOMPLETE", "RAISED", "CANCELLED"} \cup Failed
Live    == {"queued", "running"}
Left    == {"returned", "raised", "cancelled"}

Kind == kinds[pos]

Init ==
  /\ mode \in Modes /\ kinds \in [1..N -> Kinds]
  /\ pos = 0 /\ stage = "idle" /\ verdict = "none"
  /\ state = [k \in 1..N |-> "none"]
  /\ branch = [b \in Branches |-> "none"]
  /\ cancel = "no"
  /\ plan = <<>> /\ running = {} /\ okay = {} /\ tried = {} /\ found = <<>>
  /\ stepOk = TRUE /\ results = <<>>
  /\ open = {}

-----------------------------------------------------------------------------
(* run_pipeline is called: orchestrator.run.start.                         *)
Call ==
  /\ stage = "idle"
  /\ stage' = "run.start"
  /\ open' = {"run"}
  /\ UNCHANGED <<mode, kinds, pos, verdict, state, branch, cancel, toolVars>>

(* An Exception leaves the loop: orchestrator.run.end with ok=False.       *)
RunRaises ==
  /\ stage' = "raising"
  /\ open' = open \ {"run"}
  /\ UNCHANGED verdict

(* Step k is looked at: past the last one the run has completed; otherwise *)
(* its condition decides whether it is skipped, and may raise.             *)
EnterStep(k) ==
  /\ pos' = k
  /\ \/ /\ k > N
        /\ stage' = "run.end"
        /\ verdict' = "completed"
        /\ open' = open \ {"run"}
     \/ /\ k <= N
        /\ stage' \in {"skip.start", "step.start"}
        /\ open' = open \cup {"step"}
        /\ UNCHANGED verdict
     \/ /\ k <= N
        /\ RunRaises

FirstStep ==
  /\ stage = "run.start"
  /\ EnterStep(1)
  /\ UNCHANGED <<mode, kinds, state, branch, cancel, toolVars>>

(* A skipped step reports its start and its end, and is recorded.          *)
SkipEnd ==
  /\ stage = "skip.start"
  /\ stage' = "skip.end"
  /\ open' = open \ {"step"}
  /\ UNCHANGED <<mode, kinds, pos, verdict, state, branch, cancel, toolVars>>

Skipped ==
  /\ stage = "skip.end"
  /\ state' = [state EXCEPT ![pos] = "skipped"]
  /\ EnterStep(pos + 1)
  /\ UNCHANGED <<mode, kinds, branch, cancel, toolVars>>

(* input_mapping, fan_out or tool_calls_from raises.                       *)
BuildRaises ==
  /\ stage = "step.start"
  /\ RunRaises
  /\ UNCHANGED <<mode, kinds, pos, state, branch, cancel, toolVars>>

-----------------------------------------------------------------------------
(* A role step invokes its role once, a fan-out as often as fan_out says.  *)
Invoke ==
  /\ stage = "step.start"
  /\ Kind \in {"role", "fan_out"}
  /\ \E B \in SUBSET Branches :
       /\ Kind = "role" => Cardinality(B) = 1
       /\ branch' = [b \in Branches |-> IF b \in B THEN "queued" ELSE "none"]
  /\ stage' = "roles"
  /\ UNCHANGED <<mode, kinds, pos, verdict, state, cancel, open, toolVars>>

(* invoke_role: role.invoke.start.                                         *)
BranchStarts(b) ==
  /\ branch[b] = "queued"
  /\ cancel # "pending"
  /\ branch' = [branch EXCEPT ![b] = "running"]
  /\ open' = open \cup {b}
  /\ UNCHANGED <<mode, kinds, pos, stage, verdict, state, cancel, toolVars>>

(* invoke_role returns with a status after role.invoke.end, or raises what *)
(* the role raised (an unknown role at once), without it.                  *)
BranchEnds(b) ==
  /\ cancel # "pending"
  /\ \/ /\ branch[b] = "running"
        /\ \E s \in Ended \ {"RAISED", "CANCELLED"} :
             branch' = [branch EXCEPT ![b] = s]
        /\ open' = open \ {b}
     \/ /\ branch[b] \in Live
        /\ branch' = [branch EXCEPT ![b] = "RAISED"]
        /\ UNCHANGED open
  /\ UNCHANGED <<mode, kinds, pos, stage, verdict, state, cancel, toolVars>>

(* A cancelled invocation raises CancelledError, unless its own watchdog   *)
(* was already cancelling the role: then it still returns ABORTED.         *)
BranchCancelled(b) ==
  /\ cancel = "pending"
  /\ \/ /\ branch[b] \in Live
        /\ branch' = [branch EXCEPT ![b] = "CANCELLED"]
        /\ UNCHANGED open
     \/ /\ branch[b] = "running"
        /\ branch' = [branch EXCEPT ![b] = "ABORTED"]
        /\ open' = open \ {b}
  /\ UNCHANGED <<mode, kinds, pos, stage, verdict, state, cancel, toolVars>>

Broken(b) == branch[b] \in {"RAISED", "CANCELLED"}

(* The first exception of an invocation ends the gather and the run; the   *)
(* other invocations are left to themselves.                               *)
RoleRaises ==
  /\ stage = "roles"
  /\ \/ /\ \E b \in Branches : branch[b] = "RAISED"
        /\ RunRaises
     \/ /\ \E b \in Branches : branch[b] = "CANCELLED"
        /\ stage' = "cancelled"
        /\ UNCHANGED <<verdict, open>>
  /\ UNCHANGED <<mode, kinds, pos, state, branch, cancel, toolVars>>

(* Mutant: the first invocation to return ends the step.                   *)
FirstReturned ==
  /\ \A b \in Branches : ~Broken(b)
  /\ \/ \E b \in Branches : branch[b] \in Ended
     \/ \A b \in Branches : branch[b] = "none"

AllReturned == \A b \in Branches : branch[b] \notin Live /\ ~Broken(b)

(* Every invocation has returned.  A gather that was cancelled meanwhile   *)
(* raises all the same; a single invocation that swallowed it does not.    *)
RolesReturn ==
  /\ stage = "roles"
  /\ AllReturned
  /\ \/ /\ cancel = "pending" /\ Kind = "fan_out"
        /\ stage' = "cancelled"
        /\ UNCHANGED <<cancel, open>>
     \/ /\ cancel # "pending" \/ Kind = "role"
        /\ stage' = "step.end"
        /\ open' = open \ {"step"}
        /\ cancel' = IF cancel = "pending" THEN "spent" ELSE cancel
  /\ UNCHANGED <<mode, kinds, pos, verdict, state, branch, toolVars>>

-----------------------------------------------------------------------------
Prio(i) == plan[i].prio

(* The indices of the next priority group, none if there is no group left. *)
NextGroup(p, done) ==
  {i \in DOMAIN p : /\ i \notin done
                    /\ \A j \in DOMAIN p \ done : p[i].prio <= p[j].prio}

(* results_by_call_id once the results of indices S are filed, in order.   *)
File(p, map, S) ==
  [id \in DOMAIN map \cup {p[i].id : i \in S} |->
     LET mine == {i \in S : p[i].id = id}
     IN  IF mine = {} THEN map[id] ELSE CHOOSE i \in mine : \A j \in mine : j <= i]

(* Mutant: the groups are not separated.                                   *)
OpenAllGroups(p, done, map, ok) ==
  LET group == DOMAIN p \ done
      absent == {i \in group : ~p[i].registered}
  IN  /\ tried' = done \cup group
      /\ running' = group \ absent
      /\ found' = File(p, map, absent)
      /\ stepOk' = (ok /\ absent = {})

(* The next group is dispatched: tools that are not registered fail at     *)
(* once, the rest go to call_parallel together.                            *)
OpenGroup(p, done, map, ok) ==
  LET group == NextGroup(p, done)
      absent == {i \in group : ~p[i].registered}
  IN  /\ tried' = done \cup group
      /\ running' = group \ absent
      /\ found' = File(p, map, absent)
      /\ stepOk' = (ok /\ absent = {})

Dispatch ==
  /\ stage = "step.start"
  /\ Kind \in {"tools", "strict"}
  /\ \E p \in Plans : plan' = p /\ OpenGroup(p, {}, <<>>, TRUE)
  /\ okay' = {}
  /\ results' = <<>>
  /\ stage' = "tools"
  /\ UNCHANGED <<mode, kinds, pos, verdict, state, branch, cancel, open>>

(* A call of the group ends, in any order.                                 *)
ToolEnds ==
  /\ stage = "tools"
  /\ \E i \in running :
       /\ running' = running \ {i}
       /\ okay' \in {okay, okay \cup {i}}
  /\ UNCHANGED <<mode, kinds, pos, stage, verdict, state, branch, cancel, open,
                 plan, tried, found, stepOk, results>>

(* Mutant: results in the order they were filed, group by group.           *)
InGroupOrder(map) ==
  LET filed == {i \in DOMAIN plan : plan[i].id \in DOMAIN map}
      before(i, j) == Prio(i) < Prio(j) \/ (Prio(i) = Prio(j) /\ i <= j)
  IN  SetToSortSeq({map[plan[i].id] : i \in filed}, before)

(* The indices in S from the lowest up.                                    *)
Ascending(S) ==
  CHOOSE s \in [1..Cardinality(S) -> S] :
    /\ ToSet(s) = S
    /\ \A k, l \in DOMAIN s : k < l => s[k] < s[l]

(* tool_results: the filed result of each planned call that has one.       *)
InPlanOrder(map) ==
  LET order == Ascending({i \in DOMAIN plan : plan[i].id \in DOMAIN map})
  IN  [k \in DOMAIN order |-> map[plan[order[k]].id]]

(* Mutant: only the last group decides whether to go on.                   *)
StopLenient(ok) == ~ok /\ Kind = "strict" /\ tried = DOMAIN plan

StopHere(ok) == ~ok /\ Kind = "strict"

(* call_parallel returns: its results are filed; the next group follows    *)
(* unless the step is to stop here or has no group left.                   *)
GroupReturns ==
  LET group == {i \in tried : /\ plan[i].registered
                              /\ \A j \in tried : Prio(j) <= Prio(i)}
      map == File(plan, found, group)
      ok == stepOk /\ group \subseteq okay
  IN  /\ stage = "tools"
      /\ running = {}
      /\ \/ /\ ~StopHere(ok)
            /\ tried # DOMAIN plan
            /\ OpenGroup(plan, tried, map, ok)
            /\ UNCHANGED <<stage, open, results>>
         \/ /\ StopHere(ok) \/ tried = DOMAIN plan
            /\ stage' = "step.end"
            /\ open' = open \ {"step"}
            /\ found' = map
            /\ stepOk' = ok
            /\ results' = InPlanOrder(map)
            /\ UNCHANGED <<tried, running>>
      /\ UNCHANGED <<mode, kinds, pos, verdict, state, branch, cancel, plan, okay>>

-----------------------------------------------------------------------------
(* Mutant: an INCOMPLETE role fails its step.                              *)
StepFailedLax ==
  \/ Kind \in {"role", "fan_out"}
     /\ \E b \in Branches : branch[b] \in Failed \cup {"INCOMPLETE"}
  \/ Kind = "strict" /\ ~stepOk

(* step_failed: an output is FAILED or ABORTED.  A strict dispatch that    *)
(* went wrong synthesizes one; a lenient one has no outputs.               *)
StepFailed ==
  \/ Kind \in {"role", "fan_out"} /\ \E b \in Branches : branch[b] \in Failed
  \/ Kind = "strict" /\ ~stepOk

(* pipeline.step.end is out: the step is recorded, and the pipeline        *)
(* aborts, tells the human, or goes on.                                    *)
StepEnds ==
  /\ stage = "step.end"
  /\ state' = [state EXCEPT ![pos] = IF StepFailed THEN "failed" ELSE "passed"]
  /\ \/ /\ StepFailed /\ mode = "abort"
        /\ stage' = "run.end"
        /\ verdict' = "aborted"
        /\ open' = open \ {"run"}
        /\ UNCHANGED pos
     \/ /\ StepFailed /\ mode = "escalate_hitl"
        /\ stage' = "notify"
        /\ UNCHANGED <<verdict, open, pos>>
     \/ /\ ~StepFailed \/ mode = "continue"
        /\ EnterStep(pos + 1)
  /\ UNCHANGED <<mode, kinds, branch, cancel, toolVars>>

(* Mutant: an escalated step is tried again.                               *)
NotifiedAgain ==
  /\ stage = "notify"
  /\ \/ EnterStep(pos)
     \/ RunRaises /\ UNCHANGED pos
  /\ UNCHANGED <<mode, kinds, state, branch, cancel, toolVars>>

(* hitl.notify returns, or raises.                                         *)
Notified ==
  /\ stage = "notify"
  /\ \/ EnterStep(pos + 1)
     \/ RunRaises /\ UNCHANGED pos
  /\ UNCHANGED <<mode, kinds, state, branch, cancel, toolVars>>

(* run.end is out: an exception is raised again, a completed run goes to   *)
(* the memory extractor (whatever comes of it) and returns.                *)
RunEnds ==
  /\ \/ stage = "raising" /\ stage' = "raised"
     \/ stage = "run.end" /\ verdict = "completed" /\ stage' = "extracting"
     \/ stage = "run.end" /\ verdict = "aborted" /\ stage' = "returned"
     \/ stage = "extracting" /\ stage' = "returned"
  /\ UNCHANGED <<mode, kinds, pos, verdict, state, branch, cancel, open, toolVars>>

(* The caller cancels run_pipeline: the cancellation goes to the awaited   *)
(* invocations, or raises CancelledError here and now.                     *)
CallerCancel ==
  /\ CallerCancels
  /\ cancel = "no"
  /\ stage \notin Left \cup {"idle"}
  /\ \/ /\ stage = "roles" /\ \E b \in Branches : branch[b] \in Live
        /\ ~\E b \in Branches : Broken(b)
        /\ cancel' = "pending"
        /\ UNCHANGED <<stage, running>>
     \/ /\ stage # "roles"
        /\ cancel' = "spent"
        /\ stage' = "cancelled"
        /\ running' = {}
  /\ UNCHANGED <<mode, kinds, pos, verdict, state, branch, open, plan, okay,
                 tried, found, stepOk, results>>

Over ==
  /\ stage \in Left
  /\ \A b \in Branches : branch[b] \notin Live
  /\ UNCHANGED vars

Run ==
  \/ Call \/ FirstStep \/ SkipEnd \/ Skipped \/ BuildRaises \/ Invoke
  \/ RoleRaises \/ RolesReturn \/ Dispatch \/ GroupReturns \/ StepEnds
  \/ Notified \/ RunEnds

Branch(b) == BranchStarts(b) \/ BranchEnds(b) \/ BranchCancelled(b)

Next ==
  \/ Run
  \/ \E b \in Branches : Branch(b)
  \/ ToolEnds
  \/ CallerCancel
  \/ Over

(* The application's code that run_pipeline awaits without a timeout:      *)
(* hitl.notify and memory_extractor.extract.                               *)
Callbacks == {"notify", "extracting"}

(* Fair: the event loop; that observers and the mappings of the steps      *)
(* return; and that every role invocation and every tool call comes to an  *)
(* end (what RoleInvocation and ToolInvocation show).  Nothing makes a     *)
(* callback return.                                                        *)
Fairness ==
  /\ WF_vars(Run /\ stage \notin Callbacks)
  /\ \A b \in Branches : WF_vars(Branch(b))
  /\ WF_vars(ToolEnds)

Spec == Init /\ [][Next]_vars /\ Fairness

-----------------------------------------------------------------------------
Stages == {"idle", "run.start", "skip.start", "skip.end", "step.start", "roles",
           "tools", "step.end", "notify", "run.end", "raising", "extracting"}
             \cup Left

(* Types of the run's variables. *)
TypeOK ==
  /\ mode \in Modes /\ kinds \in [1..N -> Kinds]
  /\ stage \in Stages
  /\ pos \in 0..N + 1
  /\ stage \in {"skip.start", "step.start", "roles", "tools", "step.end"}
       => pos \in 1..N
  /\ verdict \in {"none", "completed", "aborted"}
  /\ state \in [1..N -> {"none", "skipped", "passed", "failed"}]
  /\ branch \in [Branches -> {"none"} \cup Live \cup Ended]
  /\ cancel \in {"no", "pending", "spent"}
  /\ plan = <<>> \/ plan \in Plans
  /\ running \subseteq tried /\ okay \subseteq tried /\ tried \subseteq DOMAIN plan
  /\ stepOk \in BOOLEAN
  /\ open \subseteq {"run", "step"} \cup Branches

(* Priority groups run one after the other: while a call is under way      *)
(* every call of a lower priority number has ended and none of a higher    *)
(* one has been dispatched (_run_execute_tools_step).                      *)
GroupsInOrder ==
  \A i \in running : \A j \in DOMAIN plan :
    /\ Prio(j) < Prio(i) => j \in tried \ running
    /\ Prio(j) > Prio(i) => j \notin tried

(* With continue_on_failure=False no group is dispatched after one with a  *)
(* failure, be it a failed call or a tool that is not registered, and the  *)
(* failure reaches the pipeline.                                           *)
StrictStopsAtFailure ==
  stage \in {"tools", "step.end"} /\ Kind = "strict" =>
    /\ \A i, j \in tried : Prio(j) < Prio(i) => j \in okay
    /\ stage = "step.end" => (StepFailed <=> ~(tried \subseteq okay))

(* "Results are collected in the original plan order regardless of         *)
(* execution ordering" (orchestrator.py:433): tool_results holds one entry *)
(* per call that was tried, each its own result, in plan order.            *)
ResultsFollowPlan ==
  stage = "step.end" /\ Kind \in {"tools", "strict"} =>
    /\ Len(results) = Cardinality(tried)
    /\ ToSet(results) = tried
    /\ \A k, l \in DOMAIN results : k < l => results[k] < results[l]

(* What run_pipeline returns agrees with what its steps did: it aborts     *)
(* only in abort mode, at a step in which a role failed or was aborted, or *)
(* a strict dispatch reached a call that did not succeed, with nothing     *)
(* after it; it completes with every step recorded and, in abort mode,     *)
(* none failed.  Neither a role that ran out of iterations (INCOMPLETE)    *)
(* nor a failed call of a lenient dispatch stops the pipeline.             *)
VerdictAgrees ==
  /\ verdict = "aborted" =>
       /\ mode = "abort"
       /\ \/ Kind = "strict" /\ ~(tried \subseteq okay)
          \/ Kind \in {"role", "fan_out"} /\ \E b \in Branches : branch[b] \in Failed
       /\ \A k \in 1..N : state[k] = "none" <=> k > pos
       /\ \A k \in 1..pos - 1 : state[k] # "failed"
  /\ verdict = "completed" =>
       \A k \in 1..N : /\ state[k] # "none"
                       /\ mode = "abort" => state[k] # "failed"

(* A run that returns leaves nothing behind: every boundary it reported    *)
(* the start of has reported its end, and no invocation is under way.      *)
QuietOnReturn ==
  stage = "returned" => open = {} /\ \A b \in Branches : branch[b] \notin Live

Slot(b) == INSTANCE RoleContract WITH
  status <- branch[b],
  cancel <- IF cancel = "pending" /\ branch[b] \in Live THEN "pending" ELSE "no"

(* Each slot holds one invocation after another, in the way RoleContract   *)
(* allows, and is used for the next only when that of the last is over.    *)
SlotsKeepContract ==
  [][\A b \in Branches :
       \/ Slot(b)!Next
       \/ UNCHANGED Slot(b)!vars
       \/ branch[b] \notin Live /\ branch'[b] \in {"none", "queued"}]_vars

Outside == INSTANCE RunContract WITH
  status <- CASE stage \in {"idle", "run.start"} -> "queued"
              [] stage = "returned" -> verdict
              [] stage \in {"raised", "cancelled"} -> stage
              [] OTHER -> "running",
  at <- IF pos > N THEN N ELSE pos

(* Seen from its caller a run is that of RunContract, whatever kinds of    *)
(* step it has, and however they fail, are skipped or escalated.           *)
KeepsContract == Outside!Spec

(* run_pipeline ends, however its steps end, provided that each of its     *)
(* invocations and calls does; only a hitl.notify or a memory_extractor    *)
(* that never returns can hold it up, and then at that one await for ever, *)
(* not in a loop through it.                                               *)
PipelineEnds == <>(stage \in Left) \/ <>[](stage \in Callbacks)
=============================================================================
