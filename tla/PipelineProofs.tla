--------------------------- MODULE PipelineProofs ---------------------------
(* Proofs about Pipeline, for pipelines of any length, fan-outs of any     *)
(* width and plans of any shape.                                           *)
EXTENDS Pipeline, FiniteSetTheorems, WellFoundedInduction, TLAPS

-----------------------------------------------------------------------------
(* The inductive invariant, part by part.                                  *)

(* Where a step has been announced, and where the run has its verdict.     *)
Stepping == {"skip.start", "step.start", "roles", "tools"}
Done     == {"run.end", "extracting", "returned"}

(* The boundaries that are open are those of the step under way, of the    *)
(* run and of the invocations under way; a gather that ended well leaves   *)
(* none of them, and no other step has any.                                *)
Opens ==
  /\ stage \in Stepping \cup {"run.start", "skip.end", "step.end", "notify"} \cup Done =>
       /\ "run" \in open <=> stage \notin Done
       /\ "step" \in open <=> stage \in Stepping
       /\ stage # "roles" => \A b \in Branches : branch[b] \notin Live /\ ~Broken(b)
  /\ stage = "idle" => open = {} /\ \A b \in Branches : branch[b] = "none"
  /\ \A b \in Branches : b \in open => branch[b] = "running" \/ Broken(b)

(* Every step in front of the current one is recorded, none failed in      *)
(* abort mode, and none behind it is.                                      *)
Recorded ==
  /\ stage \in {"idle", "run.start"} =>
       pos = 0 /\ \A k \in 1..N : state[k] = "none"
  /\ stage \in Stepping \cup {"skip.end", "step.end"} =>
       /\ pos \in 1..N
       /\ \A k \in 1..N : state[k] = "none" <=> k >= pos
  /\ stage = "notify" =>
       /\ mode = "escalate_hitl" /\ pos \in 1..N
       /\ \A k \in 1..N : state[k] = "none" <=> k > pos
  /\ mode = "abort" /\ verdict = "none" => \A k \in 1..N : state[k] # "failed"

(* A verdict is given once, with nothing under way any more.               *)
Decided ==
  /\ stage \in {"run.end", "extracting", "returned"} => verdict # "none"
  /\ verdict # "none" =>
       /\ stage \in {"run.end", "extracting", "returned", "cancelled"}
       /\ \A b \in Branches : branch[b] \notin Live
  /\ VerdictAgrees

(* Groups are reached from the lowest priority number up, whole, and only  *)
(* calls of the latest one are under way.                                  *)
Groups ==
  /\ running # {} => stage = "tools"
  /\ \A i \in tried : \A j \in DOMAIN plan : Prio(j) <= Prio(i) => j \in tried
  /\ \A i \in running : plan[i].registered /\ \A j \in tried : Prio(j) <= Prio(i)
  /\ \A i \in okay : plan[i].registered

(* The latest group that was reached.                                      *)
Latest == {i \in tried : \A j \in tried : Prio(j) <= Prio(i)}

(* A strict step got to its latest group without a failure, and step_ok    *)
(* remembers what failed.  No other kind of step waits for roles.          *)
StrictSoFar ==
  /\ stage = "roles" => Kind \in {"role", "fan_out"}
  /\ stage \in {"tools", "step.end"} /\ Kind = "strict" =>
       /\ tried \ Latest \subseteq okay
       /\ stage = "tools" => (stepOk <=> \A i \in Latest : plan[i].registered)
       /\ stage = "step.end" => (stepOk <=> tried \subseteq okay)

IInv ==
  /\ TypeOK
  /\ Opens
  /\ Recorded
  /\ Decided
  /\ Groups
  /\ StrictSoFar

USE DEF Stages, Left, Stepping, Done, Live, Ended, Failed, StepKinds

(* What is known of the calls of a plan.                                   *)
LEMMA PlanTyped ==
  ASSUME plan = <<>> \/ plan \in Plans
  PROVE  \A i \in DOMAIN plan : Prio(i) \in Nat /\ plan[i].registered \in BOOLEAN
<1>1. CASE plan = <<>> BY <1>1
<1>2. CASE plan \in Plans BY <1>2, PipelineAssumption DEF Prio
<1> QED BY <1>1, <1>2

(* The inductive invariant holds before run_pipeline is called.            *)
LEMMA InitInv == Init => IInv
<1> SUFFICES ASSUME Init PROVE IInv
  OBVIOUS
<1>1. TypeOK
  BY PipelineAssumption DEF Init, TypeOK
<1>2. Opens /\ Recorded /\ Decided
  BY DEF Init, Opens, Recorded, Decided, VerdictAgrees
<1>3. Groups /\ StrictSoFar
  BY DEF Init, Groups, StrictSoFar
<1> QED BY <1>1, <1>2, <1>3 DEF IInv

(* A step is entered at a position of the pipeline or just behind it.      *)
LEMMA EnterTyped ==
  ASSUME TypeOK, NEW k \in 1..N + 1, EnterStep(k)
  PROVE  /\ pos' = k /\ pos' \in 0..N + 1
         /\ stage' \in {"run.end", "skip.start", "step.start", "raising"}
         /\ stage' \in {"skip.start", "step.start"} => pos' \in 1..N
         /\ verdict' \in {"none", "completed", "aborted"}
         /\ open' \subseteq {"run", "step"} \cup Branches
<1>1. /\ stage' \in {"run.end", "skip.start", "step.start", "raising"}
      /\ verdict' \in {"none", "completed", "aborted"}
  BY DEF EnterStep, RunRaises, TypeOK
<1>2. open' \subseteq {"run", "step"} \cup Branches
  BY DEF EnterStep, RunRaises, TypeOK
<1>3. /\ pos' = k /\ pos' \in 0..N + 1
      /\ stage' \in {"skip.start", "step.start"} => pos' \in 1..N
  BY PipelineAssumption DEF EnterStep, RunRaises
<1> QED BY <1>1, <1>2, <1>3

(* The types are kept.                                                     *)
LEMMA TypeInv == IInv /\ [Next]_vars => TypeOK'
<1> SUFFICES ASSUME IInv, [Next]_vars PROVE TypeOK'
  OBVIOUS
<1> USE PipelineAssumption DEF IInv, TypeOK, toolVars
<1>1. CASE Call BY <1>1 DEF Call
<1>2. CASE FirstStep
  <2>1. EnterStep(1) /\ 1 \in 1..N + 1 BY <1>2 DEF FirstStep
  <2> QED BY <1>2, <2>1, EnterTyped DEF FirstStep
<1>3. CASE SkipEnd BY <1>3 DEF SkipEnd
<1>4. CASE Skipped
  <2>1. EnterStep(pos + 1) /\ pos + 1 \in 1..N + 1
    BY <1>4 DEF Skipped, Recorded
  <2>2. state' \in [1..N -> {"none", "skipped", "passed", "failed"}]
    BY <1>4 DEF Skipped
  <2> QED BY <1>4, <2>1, <2>2, EnterTyped DEF Skipped
<1>5. CASE BuildRaises BY <1>5 DEF BuildRaises, RunRaises
<1>6. CASE Invoke
  <2>1. branch' \in [Branches -> {"none"} \cup Live \cup Ended]
    BY <1>6 DEF Invoke
  <2> QED BY <1>6, <2>1 DEF Invoke
<1>7. CASE RoleRaises BY <1>7 DEF RoleRaises, RunRaises
<1>8. CASE RolesReturn BY <1>8 DEF RolesReturn
<1>9. CASE Dispatch BY <1>9 DEF Dispatch, OpenGroup, NextGroup
<1>10. CASE GroupReturns BY <1>10 DEF GroupReturns, OpenGroup, NextGroup
<1>11. CASE StepEnds
  <2>1. state' \in [1..N -> {"none", "skipped", "passed", "failed"}]
    BY <1>11 DEF StepEnds
  <2>2. CASE EnterStep(pos + 1)
    <3>1. pos + 1 \in 1..N + 1 BY <1>11 DEF StepEnds, Recorded
    <3> QED BY <1>11, <2>1, <2>2, <3>1, EnterTyped DEF StepEnds
  <2>3. CASE ~EnterStep(pos + 1)
    BY <1>11, <2>1, <2>3 DEF StepEnds
  <2> QED BY <2>2, <2>3
<1>12. CASE Notified
  <2>1. CASE EnterStep(pos + 1)
    <3>1. pos + 1 \in 1..N + 1 BY <1>12 DEF Notified, Recorded
    <3> QED BY <1>12, <2>1, <3>1, EnterTyped DEF Notified
  <2>2. CASE ~EnterStep(pos + 1)
    BY <1>12, <2>2 DEF Notified, RunRaises
  <2> QED BY <2>1, <2>2
<1>13. CASE RunEnds BY <1>13 DEF RunEnds
<1>14. ASSUME NEW b \in Branches, Branch(b) PROVE TypeOK'
  <2>1. branch' \in [Branches -> {"none"} \cup Live \cup Ended]
    <3>1. PICK s \in Live \cup Ended : branch' = [branch EXCEPT ![b] = s]
      BY <1>14 DEF Branch, BranchStarts, BranchEnds, BranchCancelled
    <3> QED BY <3>1
  <2>2. open' \subseteq {"run", "step"} \cup Branches
    <3>1. open' \subseteq open \cup {b}
      BY <1>14 DEF Branch, BranchStarts, BranchEnds, BranchCancelled
    <3> QED BY <3>1
  <2>3. UNCHANGED <<mode, kinds, pos, stage, verdict, state, cancel, toolVars>>
    BY <1>14 DEF Branch, BranchStarts, BranchEnds, BranchCancelled
  <2> QED BY <2>1, <2>2, <2>3
<1>15. CASE ToolEnds BY <1>15 DEF ToolEnds
<1>16. CASE CallerCancel BY <1>16 DEF CallerCancel
<1>17. CASE UNCHANGED vars BY <1>17 DEF vars
<1> QED
  BY <1>1, <1>2, <1>3, <1>4, <1>5, <1>6, <1>7, <1>8, <1>9, <1>10, <1>11, <1>12,
     <1>13, <1>14, <1>15, <1>16, <1>17 DEF Next, Run, Over

(* Start and end events stay paired.                                       *)
LEMMA OpensInv == IInv /\ [Next]_vars => Opens'
<1> SUFFICES ASSUME IInv, [Next]_vars PROVE Opens'
  OBVIOUS
<1> USE PipelineAssumption DEF IInv, TypeOK, Opens, Broken
<1>1. CASE Call BY <1>1 DEF Call
<1>2. CASE FirstStep BY <1>2 DEF FirstStep, EnterStep, RunRaises
<1>3. CASE SkipEnd BY <1>3 DEF SkipEnd
<1>4. CASE Skipped BY <1>4 DEF Skipped, EnterStep, RunRaises
<1>5. CASE BuildRaises BY <1>5 DEF BuildRaises, RunRaises
<1>6. CASE Invoke BY <1>6 DEF Invoke
<1>7. CASE RoleRaises BY <1>7 DEF RoleRaises, RunRaises
<1>8. CASE RolesReturn BY <1>8 DEF RolesReturn, AllReturned
<1>9. CASE Dispatch BY <1>9 DEF Dispatch
<1>10. CASE GroupReturns BY <1>10 DEF GroupReturns
<1>11. CASE StepEnds BY <1>11 DEF StepEnds, EnterStep, RunRaises
<1>12. CASE Notified BY <1>12 DEF Notified, EnterStep, RunRaises
<1>13. CASE RunEnds BY <1>13 DEF RunEnds
<1>14. ASSUME NEW b \in Branches, Branch(b) PROVE Opens'
  BY <1>14 DEF Branch, BranchStarts, BranchEnds, BranchCancelled
<1>15. CASE ToolEnds BY <1>15 DEF ToolEnds
<1>16. CASE CallerCancel BY <1>16 DEF CallerCancel
<1>17. CASE UNCHANGED vars BY <1>17 DEF vars
<1> QED
  BY <1>1, <1>2, <1>3, <1>4, <1>5, <1>6, <1>7, <1>8, <1>9, <1>10, <1>11, <1>12,
     <1>13, <1>14, <1>15, <1>16, <1>17 DEF Next, Run, Over

(* What is recorded follows the position.                                  *)
LEMMA RecordedInv == IInv /\ [Next]_vars => Recorded' /\ Decided'
<1> SUFFICES ASSUME IInv, [Next]_vars PROVE Recorded' /\ Decided'
  OBVIOUS
<1> USE PipelineAssumption DEF IInv, TypeOK, Recorded, Decided, VerdictAgrees, Kind
<1>1. CASE Call BY <1>1 DEF Call
<1>2. CASE FirstStep BY <1>2 DEF FirstStep, EnterStep, RunRaises, Opens
<1>3. CASE SkipEnd BY <1>3 DEF SkipEnd
<1>4. CASE Skipped BY <1>4 DEF Skipped, EnterStep, RunRaises, Opens
<1>5. CASE BuildRaises BY <1>5 DEF BuildRaises, RunRaises
<1>6. CASE Invoke BY <1>6 DEF Invoke
<1>7. CASE RoleRaises BY <1>7 DEF RoleRaises, RunRaises
<1>8. CASE RolesReturn BY <1>8 DEF RolesReturn
<1>9. CASE Dispatch BY <1>9 DEF Dispatch
<1>10. CASE GroupReturns BY <1>10 DEF GroupReturns
<1>11. CASE StepEnds
  BY <1>11 DEF StepEnds, EnterStep, RunRaises, StepFailed, StrictSoFar, Opens,
     toolVars
<1>12. CASE Notified BY <1>12 DEF Notified, EnterStep, RunRaises, Opens
<1>13. CASE RunEnds BY <1>13 DEF RunEnds, toolVars
<1>14. ASSUME NEW b \in Branches, Branch(b) PROVE Recorded' /\ Decided'
  BY <1>14 DEF Branch, BranchStarts, BranchEnds, BranchCancelled
<1>15. CASE ToolEnds BY <1>15 DEF ToolEnds
<1>16. CASE CallerCancel BY <1>16 DEF CallerCancel
<1>17. CASE UNCHANGED vars BY <1>17 DEF vars, toolVars
<1> QED
  BY <1>1, <1>2, <1>3, <1>4, <1>5, <1>6, <1>7, <1>8, <1>9, <1>10, <1>11, <1>12,
     <1>13, <1>14, <1>15, <1>16, <1>17 DEF Next, Run, Over

(* One more group is opened: the calls reached so far stay all those up to *)
(* some priority, and the new ones come last.                              *)
LEMMA GroupOpened ==
  ASSUME NEW p, NEW done, done \subseteq DOMAIN p,
         \A i \in DOMAIN p : p[i].prio \in Nat,
         \A i \in done : \A j \in DOMAIN p : p[j].prio <= p[i].prio => j \in done
  PROVE  LET group == NextGroup(p, done) IN
         /\ group \subseteq DOMAIN p \ done
         /\ \A i \in done \cup group : \A j \in DOMAIN p :
              p[j].prio <= p[i].prio => j \in done \cup group
         /\ \A i \in group : \A j \in done \cup group : p[j].prio <= p[i].prio
<1> DEFINE group == NextGroup(p, done)
<1>1. group \subseteq DOMAIN p \ done
  BY DEF NextGroup
<1>2. \A i \in group : \A j \in DOMAIN p \ done : p[i].prio <= p[j].prio
  BY DEF NextGroup
<1>3. \A i \in group : \A j \in done \cup group : p[j].prio <= p[i].prio
  BY <1>1, <1>2
<1>4. \A i \in group : \A j \in DOMAIN p :
        p[j].prio <= p[i].prio => j \in done \cup group
  BY <1>1, <1>2 DEF NextGroup
<1> QED BY <1>1, <1>3, <1>4

(* Priority groups are kept apart.                                         *)
LEMMA GroupsInv == IInv /\ [Next]_vars => Groups'
<1> SUFFICES ASSUME IInv, [Next]_vars PROVE Groups'
  OBVIOUS
<1> USE DEF IInv, TypeOK, Groups, Prio
<1>1. CASE Dispatch
  <2>1. PICK p \in Plans : plan' = p /\ OpenGroup(p, {}, <<>>, TRUE)
    BY <1>1 DEF Dispatch
  <2>2. \A i \in DOMAIN p : p[i].prio \in Nat
    BY PipelineAssumption
  <2>3. /\ tried' = NextGroup(p, {})
        /\ running' = {i \in NextGroup(p, {}) : p[i].registered}
    BY <2>1 DEF OpenGroup
  <2>4. /\ \A i \in tried' : \A j \in DOMAIN p : p[j].prio <= p[i].prio => j \in tried'
        /\ \A i, j \in tried' : p[j].prio <= p[i].prio
    <3>1. {} \subseteq DOMAIN p /\ {} \cup NextGroup(p, {}) = NextGroup(p, {})
      OBVIOUS
    <3> QED BY <2>2, <2>3, <3>1, GroupOpened
  <2> QED BY <1>1, <2>1, <2>3, <2>4 DEF Dispatch
<1>2. CASE GroupReturns
  <2>1. \A i \in DOMAIN plan : plan[i].prio \in Nat
    BY PlanTyped
  <2>2. CASE UNCHANGED <<tried, running>>
    BY <1>2, <2>2 DEF GroupReturns
  <2>3. CASE ~UNCHANGED <<tried, running>>
    <3>1. /\ tried' = tried \cup NextGroup(plan, tried)
          /\ running' = {i \in NextGroup(plan, tried) : plan[i].registered}
      BY <1>2, <2>3 DEF GroupReturns, OpenGroup
    <3>2. UNCHANGED <<plan, okay, stage>> /\ stage = "tools"
      BY <1>2, <2>3 DEF GroupReturns
    <3>3. /\ \A i \in tried' : \A j \in DOMAIN plan :
               plan[j].prio <= plan[i].prio => j \in tried'
          /\ \A i \in running' : \A j \in tried' : plan[j].prio <= plan[i].prio
      BY <2>1, <3>1, GroupOpened
    <3> QED BY <3>1, <3>2, <3>3
  <2> QED BY <2>2, <2>3
<1>3. CASE ToolEnds BY <1>3 DEF ToolEnds
<1>4. CASE CallerCancel BY <1>4 DEF CallerCancel
<1>5. CASE ~(Dispatch \/ GroupReturns \/ ToolEnds \/ CallerCancel)
  <2>1. UNCHANGED <<plan, tried, running, okay>>
    BY <1>5 DEF Next, Run, Call, FirstStep, SkipEnd, Skipped, BuildRaises, Invoke,
       RoleRaises, RolesReturn, StepEnds, Notified, RunEnds, Branch, BranchStarts,
       BranchEnds, BranchCancelled, Over, vars, toolVars
  <2>2. stage = "tools" => stage' = "tools"
    BY <1>5 DEF Next, Run, Call, FirstStep, SkipEnd, Skipped, BuildRaises, Invoke,
       RoleRaises, RolesReturn, StepEnds, Notified, RunEnds, Branch, BranchStarts,
       BranchEnds, BranchCancelled, Over, vars
  <2> QED BY <2>1, <2>2
<1> QED BY <1>1, <1>2, <1>3, <1>4, <1>5

(* A strict step goes on only without a failure, and says so.              *)
LEMMA StrictInv == IInv /\ [Next]_vars => StrictSoFar'
<1> SUFFICES ASSUME IInv, [Next]_vars PROVE StrictSoFar'
  OBVIOUS
<1> USE DEF IInv, TypeOK, StrictSoFar, Latest, Prio, Kind
<1>1. CASE Dispatch
  <2>1. PICK p \in Plans : plan' = p /\ OpenGroup(p, {}, <<>>, TRUE)
    BY <1>1 DEF Dispatch
  <2>2. \A i \in DOMAIN p : p[i].prio \in Nat /\ p[i].registered \in BOOLEAN
    BY PipelineAssumption
  <2>3. tried' = NextGroup(p, {}) /\ \A i, j \in tried' : p[j].prio <= p[i].prio
    <3>1. {} \subseteq DOMAIN p /\ {} \cup NextGroup(p, {}) = NextGroup(p, {})
      OBVIOUS
    <3>2. tried' = NextGroup(p, {})
      BY <2>1 DEF OpenGroup
    <3> QED BY <2>2, <3>1, <3>2, GroupOpened
  <2>4. stepOk' <=> \A i \in tried' : p[i].registered
    BY <2>1, <2>3 DEF OpenGroup
  <2> QED BY <1>1, <2>1, <2>3, <2>4 DEF Dispatch
<1>2. CASE GroupReturns
  <2> DEFINE group == {i \in tried : /\ plan[i].registered
                                     /\ \A j \in tried : Prio(j) <= Prio(i)}
             map == File(plan, found, group)
             ok == stepOk /\ group \subseteq okay
  <2>1. \A i \in DOMAIN plan : plan[i].prio \in Nat /\ plan[i].registered \in BOOLEAN
    BY PlanTyped
  <2>2. Kind = "strict" => (ok <=> tried \subseteq okay)
    BY <1>2 DEF GroupReturns, Groups
  <2>3. UNCHANGED <<kinds, pos, plan, okay>> /\ stage = "tools"
    BY <1>2 DEF GroupReturns
  <2>4. CASE stage' = "step.end"
    <3>1. UNCHANGED tried /\ stepOk' = ok
      BY <1>2, <2>3, <2>4 DEF GroupReturns
    <3> QED BY <2>2, <2>3, <2>4, <3>1
  <2>5. CASE stage' # "step.end"
    <3>1. ~StopHere(ok) /\ OpenGroup(plan, tried, map, ok) /\ stage' = stage
      BY <1>2, <2>5 DEF GroupReturns
    <3>2. SUFFICES ASSUME Kind = "strict" PROVE StrictSoFar'
      BY <2>3, <3>1
    <3>3. tried \subseteq okay /\ ok
      BY <2>2, <3>1, <3>2 DEF StopHere
    <3>4. /\ tried' = tried \cup NextGroup(plan, tried)
          /\ \A i \in tried' \ tried : \A j \in tried' : plan[j].prio <= plan[i].prio
          /\ NextGroup(plan, tried) \subseteq DOMAIN plan \ tried
      <4>1. tried' = tried \cup NextGroup(plan, tried)
        BY <3>1 DEF OpenGroup
      <4> QED BY <2>1, <4>1, GroupOpened DEF Groups
    <3>5. stepOk' <=> \A i \in NextGroup(plan, tried) : plan[i].registered
      BY <3>1, <3>3 DEF OpenGroup
    <3>6. \A i \in tried : plan[i].registered
      BY <3>3 DEF Groups
    <3>7. tried' \ Latest' \subseteq tried
      BY <2>3, <3>4
    <3>8. stepOk' <=> \A i \in Latest' : plan[i].registered
      BY <2>3, <3>4, <3>5, <3>6
    <3> QED BY <2>3, <3>1, <3>3, <3>7, <3>8
  <2> QED BY <2>4, <2>5
<1>3. CASE ToolEnds BY <1>3 DEF ToolEnds
<1>4. CASE ~(Dispatch \/ GroupReturns \/ ToolEnds)
  <2>1. UNCHANGED <<kinds, plan, tried, okay, stepOk>>
    BY <1>4 DEF Next, Run, Call, FirstStep, SkipEnd, Skipped, BuildRaises, Invoke,
       RoleRaises, RolesReturn, StepEnds, Notified, RunEnds, Branch, BranchStarts,
       BranchEnds, BranchCancelled, CallerCancel, Over, vars, toolVars
  <2>2. stage' \in {"roles", "tools", "step.end"} =>
          /\ pos' = pos
          /\ \/ stage' = stage
             \/ stage' = "step.end" /\ RolesReturn
             \/ stage' = "roles" /\ Invoke
    BY <1>4 DEF Next, Run, Call, FirstStep, SkipEnd, Skipped, BuildRaises, Invoke,
       RoleRaises, RolesReturn, StepEnds, Notified, RunEnds, EnterStep, RunRaises,
       Branch, BranchStarts, BranchEnds, BranchCancelled, CallerCancel, Over, vars
  <2>3. /\ RolesReturn => Kind \in {"role", "fan_out"}
        /\ Invoke => Kind \in {"role", "fan_out"}
    BY DEF RolesReturn, Invoke
  <2> QED BY <2>1, <2>2, <2>3
<1> QED BY <1>1, <1>2, <1>3, <1>4

(* Every step of the run, its invocations and calls keeps the invariant.   *)
LEMMA NextInv == IInv /\ [Next]_vars => IInv'
BY TypeInv, OpensInv, RecordedInv, GroupsInv, StrictInv DEF IInv

-----------------------------------------------------------------------------
(* The inductive invariant holds throughout a run.                         *)
THEOREM Invariance == Spec => []IInv
BY InitInv, NextInv, PTL DEF Spec

(* The state of the run keeps its types.                                   *)
THEOREM TypeCorrect == Spec => []TypeOK
<1>1. IInv => TypeOK
  BY DEF IInv
<1> QED BY <1>1, Invariance, PTL

(* Priority groups run one after the other: no call is under way before    *)
(* all of a lower priority number have ended, or after one of a higher one *)
(* has been dispatched.                                                    *)
THEOREM GroupsInOrderTheorem == Spec => []GroupsInOrder
<1>1. IInv => GroupsInOrder
  <2> SUFFICES ASSUME IInv, NEW i \in running, NEW j \in DOMAIN plan
               PROVE  /\ Prio(j) < Prio(i) => j \in tried \ running
                      /\ Prio(j) > Prio(i) => j \notin tried
    BY DEF GroupsInOrder
  <2>1. i \in tried /\ i \in DOMAIN plan
    BY DEF IInv, TypeOK
  <2>2. Prio(i) \in Nat /\ Prio(j) \in Nat
    BY <2>1, PlanTyped DEF IInv, TypeOK
  <2> QED BY <2>1, <2>2 DEF IInv, TypeOK, Groups
<1> QED BY <1>1, Invariance, PTL

(* With continue_on_failure=False nothing is dispatched after a failure,   *)
(* and the failure reaches the pipeline.                                   *)
THEOREM StrictTheorem == Spec => []StrictStopsAtFailure
<1>1. IInv => StrictStopsAtFailure
  <2> SUFFICES ASSUME IInv, stage \in {"tools", "step.end"}, Kind = "strict"
               PROVE  /\ \A i, j \in tried : Prio(j) < Prio(i) => j \in okay
                      /\ stage = "step.end" => (StepFailed <=> ~(tried \subseteq okay))
    BY DEF StrictStopsAtFailure
  <2>1. \A i \in tried : Prio(i) \in Nat
    BY PlanTyped DEF IInv, TypeOK
  <2>2. ASSUME NEW i \in tried, NEW j \in tried, Prio(j) < Prio(i)
        PROVE  j \in okay
    <3>1. j \notin Latest
      BY <2>1, <2>2 DEF Latest
    <3> QED BY <3>1 DEF IInv, StrictSoFar
  <2>3. stage = "step.end" => (StepFailed <=> ~(tried \subseteq okay))
    BY DEF IInv, StrictSoFar, StepFailed
  <2> QED BY <2>2, <2>3
<1> QED BY <1>1, Invariance, PTL

(* What run_pipeline returns agrees with what its steps did, for every     *)
(* on_step_failure.                                                        *)
THEOREM VerdictTheorem == Spec => []VerdictAgrees
<1>1. IInv => VerdictAgrees
  BY DEF IInv, Decided
<1> QED BY <1>1, Invariance, PTL

(* A run that returns has reported the end of all it reported the start    *)
(* of, and leaves no invocation under way.                                 *)
THEOREM QuietTheorem == Spec => []QuietOnReturn
<1>1. IInv => QuietOnReturn
  BY DEF IInv, TypeOK, Opens, QuietOnReturn, Broken
<1> QED BY <1>1, Invariance, PTL
-----------------------------------------------------------------------------
(* A set of numbers that holds 0 and the successor of each of its members  *)
(* holds every number.                                                     *)
LEMMA Induction ==
  ASSUME NEW S, 0 \in S, \A n \in Nat : n \in S => n + 1 \in S
  PROVE  \A n \in Nat : n \in S
<1> DEFINE R == {ss \in Nat \X Nat : ss[1] < ss[2]}
           T == Nat \ S
<1>1. SUFFICES ASSUME T # {} PROVE FALSE
  OBVIOUS
<1>2. PICK t \in T : \A y \in T : ~(<<y, t>> \in R)
  <2>1. IsWellFoundedOn(R, Nat)
    BY NatLessThanWellFounded DEF OpToRel
  <2>2. T \subseteq Nat
    OBVIOUS
  <2> HIDE DEF R, T
  <2> QED BY <1>1, <2>1, <2>2, WFMin
<1>3. t \in Nat /\ t # 0
  OBVIOUS
<1>4. t - 1 \in Nat /\ t - 1 < t /\ (t - 1) + 1 = t
  BY <1>3
<1>5. t - 1 \notin T
  BY <1>2, <1>3, <1>4
<1> QED BY <1>3, <1>4, <1>5

(* s lists the numbers in S from the lowest up, each of them once.         *)
Ascends(s, S) ==
  /\ s \in [1..Cardinality(S) -> S]
  /\ ToSet(s) = S
  /\ \A k, l \in DOMAIN s : k < l => s[k] < s[l]

(* Every set of indices has such a list.                                   *)
LEMMA AscendingExists ==
  \A n \in Nat : \A S \in SUBSET (1..n) : \E s : Ascends(s, S)
<1> DEFINE Listed == {n \in Nat : \A S \in SUBSET (1..n) : \E s : Ascends(s, S)}
<1>1. 0 \in Listed
  <2>1. Ascends(<<>>, {})
    BY FS_EmptySet DEF Ascends, ToSet
  <2>2. SUBSET (1..0) = {{}}
    OBVIOUS
  <2> QED BY <2>1, <2>2
<1>2. ASSUME NEW n \in Nat, n \in Listed PROVE n + 1 \in Listed
  <2> SUFFICES ASSUME NEW S \in SUBSET (1..n + 1) PROVE \E s : Ascends(s, S)
    OBVIOUS
  <2>1. CASE n + 1 \notin S
    <3>1. S \in SUBSET (1..n)
      BY <2>1
    <3> QED BY <1>2, <3>1
  <2>2. CASE n + 1 \in S
    <3> DEFINE T == S \ {n + 1}
               c == Cardinality(T)
    <3>1. T \in SUBSET (1..n)
      OBVIOUS
    <3>2. PICK t : Ascends(t, T)
      BY <1>2, <3>1
    <3>3. c \in Nat /\ Cardinality(S) = c + 1
      <4>1. IsFiniteSet(T)
        <5>1. IsFiniteSet(1..n) BY FS_Interval
        <5> QED BY <3>1, <5>1, FS_Subset
      <4>2. S = T \cup {n + 1} /\ n + 1 \notin T
        BY <2>2
      <4> HIDE DEF T
      <4> QED BY <4>1, <4>2, FS_AddElement, FS_CardinalityType
    <3> DEFINE s == [k \in 1..c + 1 |-> IF k = c + 1 THEN n + 1 ELSE t[k]]
    <3>4. t \in [1..c -> T] /\ ToSet(t) = T
      BY <3>2 DEF Ascends
    <3>5. \A k, l \in 1..c : k < l => t[k] < t[l]
      BY <3>2, <3>4 DEF Ascends
    <3> HIDE DEF c
    <3>6. s \in [1..c + 1 -> S]
      BY <2>2, <3>3, <3>4
    <3>7. ToSet(s) = S
      <4>1. ASSUME NEW i \in S PROVE \E k \in 1..c + 1 : s[k] = i
        <5>1. CASE i = n + 1
          BY <3>3, <5>1
        <5>2. CASE i # n + 1
          <6>1. PICK k \in 1..c : t[k] = i
            BY <3>4, <5>2 DEF ToSet
          <6> QED BY <3>3, <6>1
        <5> QED BY <5>1, <5>2
      <4> QED BY <3>6, <4>1 DEF ToSet
    <3>8. ASSUME NEW k \in 1..c + 1, NEW l \in 1..c + 1, k < l
          PROVE  s[k] < s[l]
      <4>1. k \in 1..c /\ s[k] = t[k]
        BY <3>3, <3>8
      <4>2. t[k] \in 1..n
        BY <3>1, <3>4, <4>1
      <4>3. CASE l = c + 1
        BY <4>1, <4>2, <4>3
      <4>4. CASE l # c + 1
        <5>1. l \in 1..c /\ s[l] = t[l]
          BY <3>3, <4>4
        <5> QED BY <3>5, <3>8, <4>1, <5>1
      <4> QED BY <4>3, <4>4
    <3> HIDE DEF s
    <3>9. Ascends(s, S)
      BY <3>3, <3>6, <3>7, <3>8 DEF Ascends
    <3> QED BY <3>9
  <2> QED BY <2>1, <2>2
<1> HIDE DEF Listed
<1>3. \A n \in Nat : n \in Listed
  BY <1>1, <1>2, Induction
<1> QED BY <1>3 DEF Listed

(* Ascending is one.                                                       *)
LEMMA AscendingLists ==
  ASSUME NEW n \in Nat, NEW S \in SUBSET (1..n)
  PROVE  Ascends(Ascending(S), S)
<1>1. \E s : Ascends(s, S)
  BY AscendingExists
<1> QED BY <1>1 DEF Ascends, Ascending

-----------------------------------------------------------------------------
(* No two calls of a plan share a call_id.  (The code does not ask for it: *)
(* calls that do share one overwrite each other's result.)                 *)
Distinct(p) == \A i, j \in DOMAIN p : p[i].id = p[j].id => i = j

CallIdsUnique == \A p \in Plans : Distinct(p)

(* The ids of the calls in S.                                              *)
Ids(p, S) == {p[i].id : i \in S}

(* map holds nothing but results of calls in S, each under its own id.     *)
Holds(p, map, S) ==
  /\ DOMAIN map \subseteq Ids(p, S)
  /\ \A i \in S : p[i].id \in DOMAIN map => map[p[i].id] = i

(* What is filed is right, and all is filed but what call_parallel has     *)
(* under way; a dispatch that is over has its results.                     *)
Filed ==
  /\ stage = "tools" =>
       /\ Holds(plan, found, tried)
       /\ \A i \in tried : i \notin Latest \/ ~plan[i].registered
                             => plan[i].id \in DOMAIN found
  /\ ResultsFollowPlan

(* To file the results of some more calls keeps what is filed right.       *)
LEMMA FileHolds ==
  ASSUME NEW p, NEW map, NEW done, NEW S, Holds(p, map, done),
         S \subseteq DOMAIN p, done \subseteq DOMAIN p,
         Distinct(p)
  PROVE  /\ Holds(p, File(p, map, S), done \cup S)
         /\ DOMAIN File(p, map, S) = DOMAIN map \cup Ids(p, S)
<1> DEFINE ids == DOMAIN map \cup Ids(p, S)
           new == File(p, map, S)
<1> USE DEF Ids, Distinct
<1>1. DOMAIN new = ids
  BY DEF File
<1>2. ASSUME NEW i \in S PROVE p[i].id \in ids /\ new[p[i].id] = i
  <2>1. {j \in S : p[j].id = p[i].id} = {i}
    OBVIOUS
  <2>2. (CHOOSE k \in {i} : \A j \in {i} : j <= k) = i
    OBVIOUS
  <2> QED BY <2>1, <2>2 DEF File
<1>3. ASSUME NEW i \in done, i \notin S, p[i].id \in ids PROVE new[p[i].id] = i
  <2>1. {j \in S : p[j].id = p[i].id} = {}
    BY <1>3
  <2>2. p[i].id \in DOMAIN map
    BY <1>3
  <2>3. new[p[i].id] = map[p[i].id]
    BY <1>3, <2>1 DEF File
  <2> QED BY <2>2, <2>3 DEF Holds, Ids
<1> HIDE DEF new
<1>4. Holds(p, new, done \cup S)
  BY <1>1, <1>2, <1>3 DEF Holds, Ids
<1> QED BY <1>1, <1>4 DEF new

(* With everything filed that was tried, the results are those of the      *)
(* calls that were tried, in plan order.                                   *)
LEMMA OrderedResults ==
  ASSUME NEW map, plan = <<>> \/ plan \in Plans, tried \subseteq DOMAIN plan,
         Holds(plan, map, tried), \A i \in tried : plan[i].id \in DOMAIN map,
         Distinct(plan)
  PROVE  LET r == InPlanOrder(map) IN
         /\ Len(r) = Cardinality(tried)
         /\ ToSet(r) = tried
         /\ \A k, l \in DOMAIN r : k < l => r[k] < r[l]
<1>1. PICK n \in Nat : DOMAIN plan = 1..n
  <2>1. CASE plan = <<>>
    <3>1. DOMAIN plan = 1..0
      BY <2>1
    <3> QED BY <3>1
  <2>2. CASE plan \in Plans
    <3>1. plan \in Seq(ToSet(plan))
      BY <2>2, PipelineAssumption
    <3> QED BY <3>1
  <2> QED BY <2>1, <2>2
<1>2. {i \in DOMAIN plan : plan[i].id \in DOMAIN map} = tried
  BY DEF Holds, Ids, Distinct
<1> DEFINE s == Ascending(tried)
           c == Cardinality(tried)
<1>3. Ascends(s, tried)
  BY <1>1, AscendingLists
<1>4. c \in Nat
  <2>1. IsFiniteSet(tried)
    BY <1>1, FS_Interval, FS_Subset
  <2> QED BY <2>1, FS_CardinalityType
<1>5. InPlanOrder(map) = [k \in DOMAIN s |-> map[plan[s[k]].id]]
  BY <1>2 DEF InPlanOrder, Ids
<1> HIDE DEF s, c
<1>6. s \in [1..c -> tried]
  BY <1>3 DEF Ascends, c
<1>7. InPlanOrder(map) = s
  <2>1. \A k \in 1..c : map[plan[s[k]].id] = s[k]
    BY <1>6 DEF Holds, Ids
  <2> QED BY <1>5, <1>6, <2>1
<1>8. Len(s) = c
  BY <1>4, <1>6
<1> QED BY <1>3, <1>7, <1>8 DEF Ascends, c

(* The results of a dispatch are those of what it tried.                   *)
LEMMA FiledInv == CallIdsUnique /\ IInv /\ Filed /\ [Next]_vars => Filed'
<1> SUFFICES ASSUME CallIdsUnique, IInv, Filed, [Next]_vars PROVE Filed'
  OBVIOUS
<1> USE DEF IInv, TypeOK, Filed, Kind
<1>1. CASE Dispatch
  <2>1. PICK p \in Plans : plan' = p /\ OpenGroup(p, {}, <<>>, TRUE)
    BY <1>1 DEF Dispatch
  <2> DEFINE group == NextGroup(p, {})
             absent == {i \in group : ~p[i].registered}
  <2>2. tried' = group /\ found' = File(p, <<>>, absent) /\ absent \subseteq DOMAIN p
    BY <2>1 DEF OpenGroup, NextGroup
  <2>3. Distinct(p)
    BY DEF CallIdsUnique
  <2>4. \A i \in group : i \in Latest'
    <3>1. \A i, j \in group : p[j].prio <= p[i].prio
      BY DEF NextGroup
    <3> QED BY <2>1, <2>2, <3>1 DEF Latest, Prio
  <2>5. Holds(p, <<>>, {})
    BY DEF Holds, Ids
  <2> HIDE DEF group
  <2>6. /\ Holds(p, found', absent)
        /\ DOMAIN found' = Ids(p, absent)
    <3> DEFINE nothing == <<>>
               nobody == {}
    <3>1. /\ nobody \cup absent = absent /\ nobody \subseteq DOMAIN p
          /\ DOMAIN nothing = {} /\ Holds(p, nothing, nobody)
          /\ absent \subseteq DOMAIN p
      BY <2>2, <2>5
    <3>2. found' = File(p, nothing, absent)
      BY <2>2
    <3> HIDE DEF absent, nothing, nobody, IInv, TypeOK, Filed
    <3>3. /\ Holds(p, File(p, nothing, absent), nobody \cup absent)
          /\ DOMAIN File(p, nothing, absent) = DOMAIN nothing \cup Ids(p, absent)
      BY <2>3, <3>1, FileHolds
    <3> QED BY <3>1, <3>2, <3>3
  <2>7. Holds(p, found', group)
    <3>1. group \subseteq DOMAIN p
      BY DEF group, NextGroup
    <3> QED BY <2>3, <2>6, <3>1 DEF Holds, Ids, Distinct
  <2>8. stage' = "tools"
    BY <1>1 DEF Dispatch
  <2> QED BY <2>1, <2>2, <2>4, <2>6, <2>7, <2>8 DEF ResultsFollowPlan, Ids
<1>2. CASE GroupReturns
  <2> DEFINE group == {i \in tried : /\ plan[i].registered
                                     /\ \A j \in tried : Prio(j) <= Prio(i)}
             map == File(plan, found, group)
             ok == stepOk /\ group \subseteq okay
  <2>1. /\ stage = "tools" /\ UNCHANGED <<plan, kinds, pos>>
        /\ tried \subseteq DOMAIN plan /\ (plan = <<>> \/ plan \in Plans)
    BY <1>2 DEF GroupReturns
  <2>2. Distinct(plan)
    BY <2>1 DEF Distinct, CallIdsUnique
  <2>3. /\ Holds(plan, map, tried)
        /\ DOMAIN map = DOMAIN found \cup Ids(plan, group)
    <3>1. Holds(plan, found, tried)
      BY <2>1
    <3>2. group \subseteq DOMAIN plan /\ tried \cup group = tried
      BY <2>1
    <3> HIDE DEF group
    <3>3. tried \subseteq DOMAIN plan
      BY <2>1
    <3>4. /\ Holds(plan, map, tried \cup group)
          /\ DOMAIN map = DOMAIN found \cup Ids(plan, group)
      <4> HIDE DEF IInv, TypeOK, Filed
      <4> QED BY <2>2, <3>1, <3>2, <3>3, FileHolds
    <3> QED BY <3>2, <3>4
  <2>4. \A i \in tried : plan[i].id \in DOMAIN map
    <3>1. ASSUME NEW i \in tried, i \notin group PROVE plan[i].id \in DOMAIN found
      BY <2>1, <3>1 DEF Latest
    <3> HIDE DEF group
    <3> QED BY <2>3, <3>1 DEF Ids
  <2>5. CASE stage' = "step.end"
    <3>1. UNCHANGED tried /\ results' = InPlanOrder(map)
      BY <1>2, <2>1, <2>5 DEF GroupReturns
    <3> HIDE DEF map
    <3> QED BY <2>1, <2>2, <2>3, <2>4, <2>5, <3>1, OrderedResults
            DEF ResultsFollowPlan
  <2>6. CASE stage' # "step.end"
    <3>1. OpenGroup(plan, tried, map, ok) /\ stage' = "tools"
      BY <1>2, <2>1, <2>6 DEF GroupReturns
    <3> HIDE DEF map
    <3> DEFINE next == NextGroup(plan, tried)
               absent == {i \in next : ~plan[i].registered}
    <3>2. tried' = tried \cup next /\ found' = File(plan, map, absent)
      BY <3>1 DEF OpenGroup
    <3>3. next \subseteq DOMAIN plan \ tried
      BY DEF NextGroup
    <3>4. \A i \in next : i \in Latest'
      <4>1. \A i \in DOMAIN plan : plan[i].prio \in Nat
        BY <2>1, PlanTyped DEF Prio
      <4>2. \A i \in next : \A j \in tried \cup next : plan[j].prio <= plan[i].prio
        BY <2>1, <4>1, GroupOpened DEF Groups, Prio
      <4> QED BY <2>1, <3>2, <4>2 DEF Latest, Prio
    <3> HIDE DEF next
    <3>5. /\ Holds(plan, found', tried \cup absent)
          /\ DOMAIN found' = DOMAIN map \cup Ids(plan, absent)
      <4>1. absent \subseteq DOMAIN plan
        BY <3>3
      <4> HIDE DEF absent, IInv, TypeOK, Filed
      <4> QED BY <2>1, <2>2, <2>3, <3>2, <4>1, FileHolds
    <3>6. Holds(plan, found', tried')
      BY <2>1, <2>2, <3>2, <3>3, <3>5 DEF Holds, Ids, Distinct
    <3>7. \A i \in tried' : i \notin Latest' \/ ~plan[i].registered
                               => plan[i].id \in DOMAIN found'
      BY <2>4, <3>2, <3>4, <3>5 DEF Ids
    <3> QED BY <2>1, <3>1, <3>6, <3>7 DEF ResultsFollowPlan
  <2> QED BY <2>5, <2>6
<1>3. CASE ToolEnds
  <2>1. UNCHANGED <<kinds, pos, plan, tried, found, results, stage>>
    BY <1>3 DEF ToolEnds
  <2> QED BY <2>1 DEF Latest, Prio, ResultsFollowPlan
<1>4. CASE ~(Dispatch \/ GroupReturns \/ ToolEnds)
  <2>1. UNCHANGED <<kinds, plan, tried, found, results>>
    BY <1>4 DEF Next, Run, Call, FirstStep, SkipEnd, Skipped, BuildRaises, Invoke,
       RoleRaises, RolesReturn, StepEnds, Notified, RunEnds, Branch, BranchStarts,
       BranchEnds, BranchCancelled, CallerCancel, Over, vars, toolVars
  <2>2. stage' \in {"tools", "step.end"} =>
          /\ pos' = pos
          /\ \/ stage' = stage
             \/ stage' = "step.end" /\ RolesReturn
    BY <1>4 DEF Next, Run, Call, FirstStep, SkipEnd, Skipped, BuildRaises, Invoke,
       RoleRaises, RolesReturn, StepEnds, Notified, RunEnds, EnterStep, RunRaises,
       Branch, BranchStarts, BranchEnds, BranchCancelled, CallerCancel, Over, vars
  <2>3. RolesReturn => Kind \in {"role", "fan_out"}
    BY DEF RolesReturn, StrictSoFar
  <2> QED BY <2>1, <2>2, <2>3 DEF Latest, Prio, ResultsFollowPlan
<1> QED BY <1>1, <1>2, <1>3, <1>4

(* With distinct call_ids the results of a dispatch are those of the calls *)
(* that were tried, one each, in the order of the plan, however the calls  *)
(* ended and whatever their groups.                                        *)
THEOREM ResultsTheorem == CallIdsUnique /\ Spec => []ResultsFollowPlan
<1>1. Init => Filed
  BY DEF Init, Filed, ResultsFollowPlan
<1>2. ASSUME CallIdsUnique PROVE Spec => []ResultsFollowPlan
  <2>1. IInv /\ Filed /\ [Next]_vars => IInv' /\ Filed'
    BY <1>2, NextInv, FiledInv
  <2>2. Filed => ResultsFollowPlan
    BY DEF Filed
  <2> QED BY <1>1, <2>1, <2>2, InitInv, PTL DEF Spec
<1> QED BY <1>2
-----------------------------------------------------------------------------
(* What a step of one invocation does to the run: it is reported, and      *)
(* nothing else changes.  Only the run's caller cancels an invocation.     *)
Alone(b) ==
  /\ \E s : branch' = [branch EXCEPT ![b] = s]
  /\ open' = IF branch'[b] = "running" THEN open \cup {b}
             ELSE IF branch'[b] \in Slot(b)!Returned THEN open \ {b}
             ELSE open
  /\ branch'[b] = "CANCELLED" => cancel = "pending"
  /\ UNCHANGED <<mode, kinds, pos, stage, verdict, state, cancel, toolVars>>

(* The pipeline assumes of an invocation what RoleContract promises, no    *)
(* less and no more: the steps it lets one take are those of the contract. *)
THEOREM SlotsAdmitContract ==
  ASSUME TypeOK, NEW b \in Branches
  PROVE  Branch(b) <=> Slot(b)!Next /\ Alone(b)
<1> DEFINE mark == IF cancel = "pending" /\ branch[b] \in Live THEN "pending" ELSE "no"
<1> USE DEF Slot!Next, Slot!Start, Slot!Return, Slot!Raise, Slot!Cancel,
            Slot!EndCancelled, Slot!EndAborted, Slot!Live, Slot!Returned
<1>1. ASSUME Branch(b) PROVE Slot(b)!Next /\ Alone(b)
  <2>1. PICK s : branch' = [branch EXCEPT ![b] = s]
    BY <1>1 DEF Branch, BranchStarts, BranchEnds, BranchCancelled
  <2>2. branch'[b] = s /\ cancel' = cancel
    BY <1>1, <2>1 DEF TypeOK, Branch, BranchStarts, BranchEnds, BranchCancelled
  <2>3. Slot(b)!Next
    BY <1>1, <2>2 DEF Branch, BranchStarts, BranchEnds, BranchCancelled, TypeOK
  <2>4. Alone(b)
    <3>1. UNCHANGED <<mode, kinds, pos, stage, verdict, state, cancel, toolVars>>
      BY <1>1 DEF Branch, BranchStarts, BranchEnds, BranchCancelled
    <3>2. \A v : branch' = [branch EXCEPT ![b] = v] => branch'[b] = v
      BY DEF TypeOK
    <3>3. CASE BranchStarts(b)
      BY <3>1, <3>2, <3>3 DEF BranchStarts, Alone
    <3>4. CASE BranchEnds(b)
      BY <2>1, <3>1, <3>2, <3>4 DEF BranchEnds, Alone
    <3>5. CASE BranchCancelled(b)
      BY <3>1, <3>2, <3>5 DEF BranchCancelled, Alone
    <3> QED BY <1>1, <3>3, <3>4, <3>5 DEF Branch
  <2> QED BY <2>3, <2>4
<1>2. ASSUME Slot(b)!Next, Alone(b) PROVE Branch(b)
  <2>1. PICK s : branch' = [branch EXCEPT ![b] = s]
    BY <1>2 DEF Alone
  <2>2. branch'[b] = s /\ cancel' = cancel
    BY <1>2, <2>1 DEF TypeOK, Alone
  <2>3. branch[b] \in Live
    BY <1>2, <2>2
  <2>4. CASE cancel = "pending"
    <3>1. s = "CANCELLED" \/ (s = "ABORTED" /\ branch[b] = "running")
      BY <1>2, <2>2, <2>3, <2>4
    <3> QED BY <1>2, <2>1, <2>2, <2>3, <2>4, <3>1 DEF Alone, Branch, BranchCancelled
  <2>5. CASE cancel # "pending"
    <3>1. \/ s = "running" /\ branch[b] = "queued"
          \/ s \in Slot(b)!Returned /\ branch[b] = "running"
          \/ s = "RAISED"
      BY <1>2, <2>2, <2>3, <2>5 DEF Alone
    <3> QED BY <1>2, <2>1, <2>2, <2>3, <2>5, <3>1
            DEF Alone, Branch, BranchStarts, BranchEnds
  <2> QED BY <2>4, <2>5
<1> QED BY <1>1, <1>2

(* A slot is used for the next invocation only when that of the last is    *)
(* over, and what becomes of one in between is what RoleContract allows,   *)
(* gathers, exceptions and cancellations of the run included.              *)
THEOREM SlotsKeepContractTheorem == Spec => SlotsKeepContract
<1>1. IInv /\ [Next]_vars =>
        [\A b \in Branches :
           \/ Slot(b)!Next
           \/ UNCHANGED Slot(b)!vars
           \/ branch[b] \notin Live /\ branch'[b] \in {"none", "queued"}]_vars
  <2> SUFFICES ASSUME IInv, [Next]_vars, NEW b \in Branches
               PROVE  \/ Slot(b)!Next
                      \/ UNCHANGED Slot(b)!vars
                      \/ branch[b] \notin Live /\ branch'[b] \in {"none", "queued"}
    OBVIOUS
  <2>1. TypeOK
    BY DEF IInv
  <2>2. CASE Branch(b)
    BY <2>1, <2>2, SlotsAdmitContract
  <2>3. ASSUME NEW a \in Branches, a # b, Branch(a)
        PROVE  UNCHANGED Slot(b)!vars
    <3>1. cancel' = cancel /\ \E s : branch' = [branch EXCEPT ![a] = s]
      BY <2>3 DEF Branch, BranchStarts, BranchEnds, BranchCancelled
    <3>2. branch'[b] = branch[b]
      BY <2>1, <2>3, <3>1 DEF TypeOK
    <3> QED BY <3>1, <3>2 DEF Slot!vars
  <2>4. CASE Invoke
    <3>1. branch[b] \notin Live
      BY <2>4 DEF Invoke, IInv, Opens
    <3>2. branch'[b] \in {"none", "queued"}
      BY <2>4 DEF Invoke
    <3> QED BY <3>1, <3>2
  <2>5. CASE RolesReturn
    <3>1. branch' = branch /\ branch[b] \notin Live
      BY <2>5 DEF RolesReturn, AllReturned
    <3> QED BY <3>1 DEF Slot!vars
  <2>6. CASE CallerCancel
    <3>1. branch' = branch /\ cancel = "no" /\ cancel' \in {"pending", "spent"}
      BY <2>6 DEF CallerCancel
    <3>2. CASE branch[b] \in Live /\ cancel' = "pending"
      BY <3>1, <3>2 DEF Slot!Next, Slot!Cancel, Slot!Live
    <3>3. CASE branch[b] \notin Live \/ cancel' = "spent"
      BY <3>1, <3>3 DEF Slot!vars
    <3> QED BY <3>1, <3>2, <3>3
  <2>7. CASE ~(Invoke \/ RolesReturn \/ CallerCancel \/ \E a \in Branches : Branch(a))
    <3>1. UNCHANGED <<branch, cancel>>
      BY <2>7 DEF Next, Run, Call, FirstStep, SkipEnd, Skipped, BuildRaises,
         RoleRaises, Dispatch, GroupReturns, StepEnds, Notified, RunEnds, ToolEnds,
         Over, vars
    <3> QED BY <3>1 DEF Slot!vars
  <2> QED BY <2>2, <2>3, <2>4, <2>5, <2>6, <2>7
<1> QED BY <1>1, Invariance, PTL DEF Spec, SlotsKeepContract

(* A verdict is given at the place it belongs to.                          *)
Arrived ==
  /\ verdict = "aborted" => pos \in 1..N
  /\ verdict = "completed" => pos = N + 1
  /\ stage = "extracting" => verdict = "completed"

(* A run comes to the next step or to its end, and nowhere else.           *)
LEMMA ArrivedInv == IInv /\ Arrived /\ [Next]_vars => Arrived'
<1> SUFFICES ASSUME IInv, Arrived, [Next]_vars PROVE Arrived'
  OBVIOUS
<1> USE PipelineAssumption DEF IInv, TypeOK, Arrived
<1>1. ASSUME verdict = "none", NEW k \in 1..N + 1, EnterStep(k) PROVE Arrived'
  BY <1>1 DEF EnterStep, RunRaises
<1>2. CASE FirstStep
  <2>1. verdict = "none" /\ 1 \in 1..N + 1 /\ EnterStep(1)
    BY <1>2 DEF FirstStep, Decided
  <2> QED BY <1>1, <2>1
<1>3. CASE Skipped
  <2>1. verdict = "none" /\ pos + 1 \in 1..N + 1 /\ EnterStep(pos + 1)
    BY <1>3 DEF Skipped, Recorded, Decided
  <2> QED BY <1>1, <2>1
<1>4. CASE StepEnds
  <2>1. verdict = "none" /\ pos \in 1..N
    BY <1>4 DEF StepEnds, Recorded, Decided
  <2>2. CASE EnterStep(pos + 1)
    BY <1>1, <2>1, <2>2
  <2>3. CASE pos' = pos /\ stage' # "extracting" /\ verdict' \in {"none", "aborted"}
    BY <2>1, <2>3
  <2>4. \/ EnterStep(pos + 1)
        \/ pos' = pos /\ stage' # "extracting" /\ verdict' \in {"none", "aborted"}
    BY <1>4, <2>1 DEF StepEnds
  <2> QED BY <2>2, <2>3, <2>4
<1>5. CASE Notified
  <2>1. verdict = "none" /\ pos \in 1..N
    BY <1>5 DEF Notified, Recorded, Decided
  <2>2. CASE EnterStep(pos + 1)
    BY <1>1, <2>1, <2>2
  <2>3. CASE RunRaises /\ UNCHANGED pos
    BY <2>1, <2>3 DEF RunRaises
  <2> QED BY <1>5, <2>2, <2>3 DEF Notified
<1>6. CASE RunEnds
  BY <1>6 DEF RunEnds
<1>7. CASE ~(FirstStep \/ Skipped \/ StepEnds \/ Notified \/ RunEnds)
  <2>1. pos' = pos /\ verdict' = verdict
    BY <1>7 DEF Next, Run, Call, SkipEnd, BuildRaises, Invoke, RoleRaises, RolesReturn,
       Dispatch, GroupReturns, Branch, BranchStarts, BranchEnds, BranchCancelled,
       ToolEnds, CallerCancel, Over, RunRaises, vars
  <2>2. stage' = "extracting" => stage = "extracting"
    BY <1>7 DEF Next, Run, Call, SkipEnd, BuildRaises, Invoke, RoleRaises, RolesReturn,
       Dispatch, GroupReturns, Branch, BranchStarts, BranchEnds, BranchCancelled,
       ToolEnds, CallerCancel, Over, RunRaises, vars
  <2> QED BY <2>1, <2>2
<1> QED BY <1>2, <1>3, <1>4, <1>5, <1>6, <1>7

(* The stages in which run_pipeline is on its way.                         *)
Going == Stages \ (Left \cup {"idle", "run.start"})

(* Seen from outside, a step that is entered is the next one, and past the *)
(* last one nothing has happened yet.                                      *)
LEMMA EnterAdvances ==
  ASSUME TypeOK, stage \in Going, pos \in 1..N, EnterStep(pos + 1)
  PROVE  Outside!Next \/ UNCHANGED Outside!vars
<1>1. /\ pos' = pos + 1 /\ stage' \in Going
      /\ pos \in Nat /\ N \in Nat
  BY PipelineAssumption DEF EnterStep, RunRaises, Going
<1>2. CASE pos < N
  BY <1>1, <1>2 DEF Going, Outside!Next, Outside!Advance
<1>3. CASE pos = N
  BY <1>1, <1>3 DEF Going, Outside!vars
<1> QED BY <1>1, <1>2, <1>3

(* Each step of run_pipeline is one of RunContract or none.                *)
LEMMA RunMoves ==
  IInv /\ Arrived /\ [Next]_vars => [Outside!Next]_(Outside!vars)
<1> SUFFICES ASSUME IInv, Arrived, [Next]_vars
             PROVE  Outside!Next \/ UNCHANGED Outside!vars
  OBVIOUS
<1> USE PipelineAssumption DEF IInv, TypeOK
<1>1. CASE FirstStep
  <2>1. pos = 0 /\ stage = "run.start" /\ pos' = 1 /\ stage' \in Going
    BY <1>1 DEF FirstStep, EnterStep, RunRaises, Recorded, Going
  <2> QED BY <2>1 DEF Going, Outside!Next, Outside!Start
<1>2. CASE Skipped
  BY <1>2, EnterAdvances DEF Skipped, Recorded, Going
<1>3. CASE StepEnds
  <2>1. stage \in Going /\ pos \in 1..N
    BY <1>3 DEF StepEnds, Recorded, Going
  <2>2. CASE EnterStep(pos + 1)
    BY <2>1, <2>2, EnterAdvances
  <2>3. CASE pos' = pos /\ stage' \in Going
    BY <2>1, <2>3 DEF Going, Outside!vars
  <2> QED BY <1>3, <2>2, <2>3 DEF StepEnds, Going
<1>4. CASE Notified
  <2>1. stage \in Going /\ pos \in 1..N
    BY <1>4 DEF Notified, Recorded, Going
  <2>2. CASE EnterStep(pos + 1)
    BY <2>1, <2>2, EnterAdvances
  <2>3. CASE pos' = pos /\ stage' \in Going
    BY <2>1, <2>3 DEF Going, Outside!vars
  <2> QED BY <1>4, <2>2, <2>3 DEF Notified, RunRaises, Going
<1>5. CASE RunEnds
  <2>1. pos' = pos /\ verdict' = verdict /\ stage \in Going
    BY <1>5 DEF RunEnds, Going
  <2>2. CASE stage' = "raised"
    BY <2>1, <2>2 DEF Going, Outside!Next, Outside!Raise
  <2>3. CASE stage' = "extracting"
    BY <2>1, <2>3 DEF Going, Outside!vars
  <2>4. CASE stage' = "returned" /\ verdict = "completed"
    BY <2>1, <2>4 DEF Arrived, Going, Outside!Next, Outside!Complete
  <2>5. CASE stage' = "returned" /\ verdict = "aborted"
    BY <2>1, <2>5 DEF Arrived, Going, Outside!Next, Outside!Abort
  <2> QED BY <1>5, <2>2, <2>3, <2>4, <2>5 DEF RunEnds, Arrived
<1>6. CASE RoleRaises \/ RolesReturn \/ CallerCancel
  <2>1. pos' = pos /\ verdict' = verdict /\ stage \in Going \cup {"run.start"}
    BY <1>6 DEF RoleRaises, RolesReturn, CallerCancel, RunRaises, Going
  <2>2. CASE stage' = "cancelled"
    BY <2>1, <2>2 DEF Going, Outside!Next, Outside!Cancel
  <2>3. CASE stage' = stage \/ (stage \in Going /\ stage' \in Going)
    BY <2>1, <2>3 DEF Going, Outside!vars
  <2> QED BY <1>6, <2>2, <2>3 DEF RoleRaises, RolesReturn, CallerCancel, RunRaises, Going
<1>7. CASE ~(FirstStep \/ Skipped \/ StepEnds \/ Notified \/ RunEnds \/ RoleRaises
               \/ RolesReturn \/ CallerCancel)
  <2>1. pos' = pos /\ verdict' = verdict
    BY <1>7 DEF Next, Run, Call, SkipEnd, BuildRaises, Invoke, Dispatch, GroupReturns,
       Branch, BranchStarts, BranchEnds, BranchCancelled, ToolEnds, Over, RunRaises, vars
  <2>2. \/ stage' = stage
        \/ stage = "idle" /\ stage' = "run.start"
        \/ stage \in Going /\ stage' \in Going
    BY <1>7 DEF Next, Run, Call, SkipEnd, BuildRaises, Invoke, Dispatch, GroupReturns,
       Branch, BranchStarts, BranchEnds, BranchCancelled, ToolEnds, Over, RunRaises, vars,
       Going
  <2> QED BY <2>1, <2>2 DEF Going, Outside!vars
<1> QED BY <1>1, <1>2, <1>3, <1>4, <1>5, <1>6, <1>7

(* run_pipeline is what RunContract says, for pipelines of any length and  *)
(* steps of any kind: it comes to its steps in order, completes only when  *)
(* it has come to the last, aborts only at one, and ends once.             *)
THEOREM KeepsContractTheorem == Spec => KeepsContract
<1>1. Init => Arrived /\ Outside!Init
  BY PipelineAssumption DEF Init, Arrived, Outside!Init
<1>2. IInv /\ Arrived /\ [Next]_vars => Arrived' /\ [Outside!Next]_(Outside!vars)
  BY ArrivedInv, RunMoves
<1> QED BY <1>1, <1>2, Invariance, PTL DEF Spec, KeepsContract, Outside!Spec
=============================================================================
