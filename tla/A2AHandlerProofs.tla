-------------------------- MODULE A2AHandlerProofs --------------------------
(* Proofs about A2AHandler, for every set of requests and of task ids.     *)
EXTENDS A2AHandler, SequenceTheorems, TLAPS

-----------------------------------------------------------------------------
(* The inductive invariant, part by part.                                  *)

Names == Requests \cup {"none"}
Stages == {"new", "accepted", "running", "over", "crashed"}
TaskStates == {"none", "submitted", "working", "completed", "failed"}
Outcomes == [state : TaskStates, artifacts : Names, error : Names]

Events ==
  [event : {"step.start", "run.end", "__closed__"}, step : Nat]
    \cup [event : {"task.complete"}, task : Outcomes]

TypeOK ==
  /\ TASKS \in [Ids -> Names]
  /\ state \in [Requests -> TaskStates]
  /\ error \in [Requests -> Names]
  /\ artifacts \in [Requests -> Names]
  /\ id \in [Requests -> Ids \cup {"none"}]
  /\ stage \in [Requests -> Stages]
  /\ own \in [Requests -> Names]
  /\ step \in [Requests -> Nat]
  /\ fate \in [Requests -> {"none", "completed", "failed"}]
  /\ response \in [Requests -> Outcomes]
  /\ queue \in [Requests -> Seq(Events)]
  /\ client \in [Requests -> {"none", "reading", "ended", "gone"}]
  /\ seen \in [Requests -> Seq(Events)]

(* A report to a client says that its run r ended so.                      *)
Reports(told, r, verdict) ==
  /\ told.state = verdict
  /\ verdict = "completed" => told.artifacts = r
  /\ verdict = "failed" => told.error = r

(* What each stage of a request says of its run.                           *)
Staged(r) ==
  /\ stage[r] = "new" => client[r] = "none"
  /\ stage[r] = "accepted" => id[r] \in Ids
  /\ stage[r] = "running" => own[r] \in Requests
  /\ stage[r] \in {"new", "accepted", "crashed"} <=> step[r] = 0
  /\ stage[r] = "over" <=> fate[r] # "none"
  /\ response[r] = Nothing \/ (stage[r] = "over" /\ Reports(response[r], r, fate[r]))

(* A stream up to the end of its run, of n steps so far.                   *)
Begun(t, n) ==
  \A k \in 1..n : t[k] = Event("step.start", k)

(* The two events that follow the steps of a run that is over.             *)
Finished(r, t) ==
  /\ Begun(t, step[r])
  /\ t[step[r] + 1] = Event("run.end", 0)
  /\ t[step[r] + 2].event = "task.complete"
  /\ Reports(t[step[r] + 2].task, r, fate[r])

(* The stream of a client that reads is the events of its run so far, and  *)
(* the sentinel once it is over; of a client whose stream has ended, all   *)
(* of them.                                                                *)
Streamed(r) ==
  /\ client[r] \in {"none", "gone"} => queue[r] = <<>> /\ seen[r] = <<>>
  /\ client[r] = "reading" /\ stage[r] # "over" =>
       Len(Stream(r)) = step[r] /\ Begun(Stream(r), step[r])
  /\ client[r] = "reading" /\ stage[r] = "over" =>
       /\ Len(Stream(r)) = step[r] + 3
       /\ Finished(r, Stream(r))
       /\ Stream(r)[step[r] + 3] = CLOSE
  /\ client[r] = "ended" =>
       /\ stage[r] = "over" /\ queue[r] = <<>>
       /\ Len(seen[r]) = step[r] + 2
       /\ Finished(r, seen[r])

(* Nothing names a TaskState before the request it is called after.        *)
Fresh(r) ==
  stage[r] = "new" =>
    (\A i \in Ids : TASKS[i] # r) /\ (\A q \in Requests : own[q] # r)

(* A run that will still settle the TaskState under id i, or crashed.      *)
Attends(r, i) ==
  \/ stage[r] = "running" /\ own[r] = TASKS[i]
  \/ stage[r] = "accepted" /\ id[r] = i
  \/ stage[r] = "crashed"

Attended(i) ==
  TASKS[i] # "none" =>
    \/ state[TASKS[i]] \in {"completed", "failed"}
    \/ \E r \in Requests : Attends(r, i)

IInv ==
  /\ TypeOK
  /\ \A r \in Requests : Staged(r) /\ Streamed(r) /\ Fresh(r)
  /\ \A i \in Ids : Attended(i)

USE DEF Names, Stages, TaskStates, Nothing

-----------------------------------------------------------------------------
(* Streams.                                                                *)

(* Stream u is stream t with the events es after it.                       *)
Extends(u, t, es) ==
  /\ Len(u) = Len(t) + Len(es)
  /\ \A k \in 1..Len(t) : u[k] = t[k]
  /\ \A k \in 1..Len(es) : u[Len(t) + k] = es[k]

(* What SseEmitter.send adds comes after all that was sent.                *)
LEMMA SendExtends ==
  ASSUME NEW S, NEW s \in Seq(S), NEW q \in Seq(S), NEW es \in Seq(S)
  PROVE  q \o es \in Seq(S) /\ Extends(s \o (q \o es), s \o q, es)
<1> DEFINE t == s \o q
<1>1. t \in Seq(S) /\ q \o es \in Seq(S)
  BY ConcatProperties
<1>2. s \o (q \o es) = t \o es
  BY ConcatAssociative
<1>3. Len(t) \in Nat /\ Len(es) \in Nat
  BY <1>1, LenProperties
<1> HIDE DEF t
<1>4. /\ Len(t \o es) = Len(t) + Len(es)
      /\ \A k \in 1..Len(t) + Len(es) :
           (t \o es)[k] = IF k <= Len(t) THEN t[k] ELSE es[k - Len(t)]
  BY <1>1, ConcatProperties
<1>5. \A k \in 1..Len(t) : (t \o es)[k] = t[k]
  BY <1>3, <1>4
<1>6. ASSUME NEW k \in 1..Len(es) PROVE (t \o es)[Len(t) + k] = es[k]
  <2>1. Len(t) + k \in 1..Len(t) + Len(es) /\ ~(Len(t) + k <= Len(t)) /\ (Len(t) + k) - Len(t) = k
    BY <1>3
  <2> QED BY <1>4, <2>1
<1> QED BY <1>1, <1>2, <1>4, <1>5, <1>6 DEF t, Extends

(* Stream t has been seen as far as s, and h comes next and u after it.    *)
Continues(t, s, h, u) ==
  /\ Append(s, h) \o u = t
  /\ Len(t) = Len(s) + 1 + Len(u)
  /\ h = t[Len(s) + 1]
  /\ \A k \in 1..Len(s) : s[k] = t[k]

(* The next event of a stream follows what its client has seen, and        *)
(* reading it moves it over.                                               *)
LEMMA ReadMoves ==
  ASSUME NEW S, NEW s \in Seq(S), NEW q \in Seq(S), q # <<>>
  PROVE  /\ Head(q) \in S /\ Tail(q) \in Seq(S)
         /\ Append(s, Head(q)) \in Seq(S)
         /\ Continues(s \o q, s, Head(q), Tail(q))
<1>1. /\ Head(q) \in S /\ Tail(q) \in Seq(S) /\ Len(Tail(q)) = Len(q) - 1
      /\ Len(s) \in Nat /\ Len(q) \in Nat
  BY HeadTailProperties, LenProperties
<1>2. Append(s, Head(q)) = s \o <<Head(q)>> /\ Append(s, Head(q)) \in Seq(S)
  BY <1>1, AppendIsConcat, AppendProperties
<1>3. q = <<Head(q)>> \o Tail(q)
  BY <1>1
<1>4. <<Head(q)>> \in Seq(S)
  BY <1>1
<1>5. (s \o <<Head(q)>>) \o Tail(q) = s \o (<<Head(q)>> \o Tail(q))
  BY <1>1, <1>4, ConcatAssociative
<1>6. Len(q) > 0 /\ Head(q) = q[1]
  OBVIOUS
<1>7. /\ Len(s \o q) = Len(s) + Len(q)
      /\ \A k \in 1..Len(s) + Len(q) :
           (s \o q)[k] = IF k <= Len(s) THEN s[k] ELSE q[k - Len(s)]
  BY ConcatProperties
<1>8. (s \o q)[Len(s) + 1] = q[1]
  <2>1. Len(s) + 1 \in 1..Len(s) + Len(q) /\ ~(Len(s) + 1 <= Len(s)) /\ (Len(s) + 1) - Len(s) = 1
    BY <1>1, <1>6
  <2> QED BY <1>7, <2>1
<1>9. \A k \in 1..Len(s) : s[k] = (s \o q)[k]
  BY <1>1, <1>7
<1> QED BY <1>1, <1>2, <1>3, <1>5, <1>6, <1>7, <1>8, <1>9 DEF Continues

(* Events are what the type says.                                          *)
LEMMA EventTypes ==
  /\ \A k \in Nat : Event("step.start", k) \in Events
  /\ Event("run.end", 0) \in Events
  /\ CLOSE \in Events
  /\ \A o \in Outcomes : [event |-> "task.complete", task |-> o] \in Events
BY DEF Events, Event, CLOSE

(* Only the sentinel is the sentinel.                                      *)
LEMMA CloseIsNoEvent ==
  /\ \A k : Event("step.start", k) # CLOSE
  /\ Event("run.end", 0) # CLOSE
  /\ \A e : e.event = "task.complete" => e # CLOSE
BY DEF Event, CLOSE

(* What a run leaves its TaskState as is well-typed, and reports the run.  *)
LEMMA OutcomeType ==
  ASSUME TypeOK, NEW r \in Requests, own[r] \in Requests,
         NEW verdict \in {"completed", "failed"}
  PROVE  /\ Outcome(r, verdict) \in Outcomes
         /\ Outcome(r, verdict).state = verdict
         /\ verdict = "completed" => Outcome(r, verdict).artifacts = r
         /\ verdict = "failed" => Outcome(r, verdict).error = r
BY DEF TypeOK, Outcome, Outcomes

-----------------------------------------------------------------------------
(* Steps.                                                                  *)

(* A step of another request that leaves everything of r as it was.        *)
LeftAlone(r) ==
  /\ id'[r] = id[r] /\ stage'[r] = stage[r] /\ own'[r] = own[r] /\ step'[r] = step[r]
  /\ fate'[r] = fate[r] /\ response'[r] = response[r]
  /\ queue'[r] = queue[r] /\ client'[r] = client[r] /\ seen'[r] = seen[r]

(* Such a step keeps what is known of the run and of the stream of r.      *)
LEMMA LeftAloneKeeps ==
  ASSUME NEW r \in Requests, Staged(r), Streamed(r), LeftAlone(r)
  PROVE  Staged(r)' /\ Streamed(r)'
<1>1. Stream(r)' = Stream(r)
  BY DEF LeftAlone, Stream
<1>2. Staged(r)'
  BY DEF LeftAlone, Staged
<1>3. Streamed(r)'
  BY <1>1 DEF LeftAlone, Streamed, Finished
<1> QED BY <1>2, <1>3

(* The invariant holds before any request arrives.                         *)
LEMMA InitInv == Init => IInv
<1> SUFFICES ASSUME Init PROVE IInv
  OBVIOUS
<1>1. TypeOK
  BY DEF Init, TypeOK, Outcomes
<1>2. ASSUME NEW r \in Requests PROVE Staged(r) /\ Streamed(r) /\ Fresh(r)
  BY HandlerAssumption DEF Init, Staged, Streamed, Fresh
<1>3. ASSUME NEW i \in Ids PROVE Attended(i)
  BY DEF Init, Attended
<1> QED BY <1>1, <1>2, <1>3 DEF IInv

(* A stream is accepted under a TaskState of its own.                      *)
LEMMA StartStreamingInv ==
  ASSUME IInv, NEW r \in Requests, StartStreaming(r) PROVE IInv'
<1>1. PICK i \in Ids : id' = [id EXCEPT ![r] = i] /\ TASKS' = [TASKS EXCEPT ![i] = r]
  BY DEF StartStreaming
<1>2. TypeOK /\ Staged(r) /\ Streamed(r) /\ Fresh(r) /\ stage[r] = "new"
  BY DEF IInv, StartStreaming
<1>3. TypeOK'
  BY <1>1, <1>2 DEF TypeOK, StartStreaming
<1>4. ASSUME NEW q \in Requests PROVE Staged(q)' /\ Streamed(q)'
  <2>1. CASE q = r
    <3>1. /\ stage'[r] = "accepted" /\ id'[r] = i /\ client'[r] = "reading"
          /\ queue'[r] = queue[r] /\ seen'[r] = seen[r] /\ step'[r] = step[r]
          /\ fate'[r] = fate[r] /\ response'[r] = response[r]
      BY <1>1, <1>2 DEF TypeOK, StartStreaming
    <3>2. queue[r] = <<>> /\ seen[r] = <<>> /\ step[r] = 0
      BY <1>2 DEF Staged, Streamed
    <3>3. Stream(r)' = <<>>
      BY <3>1, <3>2 DEF Stream
    <3>4. Staged(r)'
      BY <1>2, <3>1 DEF Staged
    <3>5. Streamed(r)'
      BY <3>1, <3>2, <3>3 DEF Streamed, Begun
    <3> QED BY <2>1, <3>4, <3>5
  <2>2. CASE q # r
    BY <1>1, <1>2, <2>2, LeftAloneKeeps DEF IInv, TypeOK, StartStreaming, LeftAlone
  <2> QED BY <2>1, <2>2
<1>5. ASSUME NEW q \in Requests PROVE Fresh(q)'
  BY <1>1, <1>2 DEF IInv, TypeOK, StartStreaming, Fresh
<1>6. ASSUME NEW j \in Ids PROVE Attended(j)'
  <2>1. CASE j = i
    <3>1. Attends(r, j)'
      BY <1>1, <1>2, <2>1 DEF TypeOK, StartStreaming, Attends
    <3> QED BY <3>1 DEF Attended
  <2>2. CASE j # i
    <3>1. TASKS'[j] = TASKS[j] /\ TASKS[j] # r /\ Attended(j)
      BY <1>1, <1>2, <2>2 DEF IInv, TypeOK, Fresh
    <3>2. ASSUME NEW q \in Requests, Attends(q, j) PROVE Attends(q, j)'
      BY <1>1, <1>2, <3>1, <3>2 DEF TypeOK, StartStreaming, Attends
    <3>3. TASKS[j] # "none" => state'[TASKS[j]] = state[TASKS[j]]
      BY <1>2, <3>1 DEF TypeOK, StartStreaming
    <3> QED BY <3>1, <3>2, <3>3 DEF Attended
  <2> QED BY <2>1, <2>2
<1> QED BY <1>3, <1>4, <1>5, <1>6 DEF IInv

(* The first event of a run is the first of its stream, if it has one.     *)
LEMMA SendOne ==
  ASSUME TypeOK, NEW r \in Requests, Streamed(r), stage[r] # "over",
         NEW n \in Nat, n = step[r] + 1,
         Send(r, <<Event("step.start", n)>>),
         client' = client, seen' = seen, step'[r] = n, stage'[r] # "over"
  PROVE  queue'[r] \in Seq(Events) /\ Streamed(r)'
<1> DEFINE es == <<Event("step.start", n)>>
<1>1. es \in Seq(Events) /\ Len(es) = 1 /\ es[1] = Event("step.start", n)
  BY EventTypes
<1>2. queue[r] \in Seq(Events) /\ seen[r] \in Seq(Events) /\ step[r] \in Nat
  BY DEF TypeOK
<1>3. CASE client[r] = "reading"
  <2>1. queue'[r] = queue[r] \o es
    BY <1>3 DEF Send, TypeOK
  <2>2. Stream(r)' = seen[r] \o (queue[r] \o es)
    BY <2>1 DEF Stream
  <2>3. Len(Stream(r)) = step[r] /\ Begun(Stream(r), step[r])
    BY <1>3 DEF Streamed
  <2> HIDE DEF es
  <2>4. /\ queue[r] \o es \in Seq(Events)
        /\ Len(Stream(r)') = step[r] + 1
        /\ \A k \in 1..step[r] : Stream(r)'[k] = Stream(r)[k]
        /\ Stream(r)'[step[r] + 1] = es[1]
    <3>1. queue[r] \o es \in Seq(Events) /\ Extends(seen[r] \o (queue[r] \o es), seen[r] \o queue[r], es)
      BY <1>1, <1>2, SendExtends
    <3>2. Extends(Stream(r)', Stream(r), es)
      BY <2>2, <3>1 DEF Stream
    <3>3. 1 \in 1..Len(es)
      BY <1>1
    <3> QED BY <1>1, <2>3, <3>1, <3>2, <3>3 DEF Extends
  <2>5. Begun(Stream(r)', n)
    <3> SUFFICES ASSUME NEW k \in 1..n PROVE Stream(r)'[k] = Event("step.start", k)
      BY DEF Begun
    <3>1. k \in 1..step[r] \/ k = n
      BY <1>2
    <3> QED BY <1>1, <2>3, <2>4, <3>1 DEF Begun
  <2> QED BY <1>3, <2>1, <2>4, <2>5 DEF Streamed
<1>4. CASE client[r] # "reading"
  <2>1. queue'[r] = queue[r]
    BY <1>4 DEF Send, TypeOK
  <2> QED BY <1>2, <1>4, <2>1 DEF Streamed
<1> QED BY <1>3, <1>4

(* A run begins on the TaskState its id names, or crashes.                 *)
LEMMA RunTaskInv ==
  ASSUME IInv, NEW r \in Requests, NEW i \in Ids, RunTask(r, i),
         stage[r] = "new" \/ (stage[r] = "accepted" /\ id[r] = i)
  PROVE  IInv'
<1> DEFINE o == IF TASKS[i] = "none" THEN r ELSE TASKS[i]
<1>1. TypeOK /\ Staged(r) /\ Streamed(r) /\ Fresh(r)
  BY DEF IInv
<1>2. o \in Requests /\ TASKS[i] \in Names
  BY <1>1 DEF TypeOK
<1>3. /\ id' = [id EXCEPT ![r] = i] /\ TASKS' = [TASKS EXCEPT ![i] = o]
      /\ own' = [own EXCEPT ![r] = o] /\ state' = [state EXCEPT ![o] = "working"]
      /\ UNCHANGED <<error, artifacts, fate, response, client, seen>>
  BY DEF RunTask, clientVars
<1>4. o # "none" /\ (TASKS[i] # "none" => o = TASKS[i]) /\ (TASKS[i] = "none" => o = r)
  BY <1>2, HandlerAssumption
<1>5. \/ /\ stage' = [stage EXCEPT ![r] = "running"]
         /\ step' = [step EXCEPT ![r] = 1]
         /\ Send(r, <<Event("step.start", 1)>>)
      \/ /\ stage' = [stage EXCEPT ![r] = "crashed"]
         /\ UNCHANGED <<step, queue>>
  BY DEF RunTask
<1> HIDE DEF o
<1>6. step[r] = 0 /\ fate[r] = "none" /\ response[r] = Nothing
  BY <1>1 DEF Staged, TypeOK
<1>7. queue' \in [Requests -> Seq(Events)] /\ Streamed(r)'
  <2>1. CASE stage' = [stage EXCEPT ![r] = "running"] /\ step' = [step EXCEPT ![r] = 1]
             /\ Send(r, <<Event("step.start", 1)>>)
    <3>1. stage[r] # "over" /\ stage'[r] # "over" /\ step'[r] = 1
      BY <1>1, <2>1 DEF TypeOK
    <3>2. queue'[r] \in Seq(Events) /\ Streamed(r)'
      BY <1>1, <1>3, <1>6, <2>1, <3>1, SendOne
    <3>3. queue' \in [Requests -> Seq(Events)]
      BY <1>1, <2>1, <3>2 DEF TypeOK, Send
    <3> QED BY <3>2, <3>3
  <2>2. CASE stage' = [stage EXCEPT ![r] = "crashed"] /\ UNCHANGED <<step, queue>>
    <3>1. Stream(r)' = Stream(r) /\ stage'[r] = "crashed" /\ stage[r] # "over"
      BY <1>1, <1>3, <2>2 DEF Stream, TypeOK
    <3> QED BY <1>1, <1>3, <2>2, <3>1 DEF TypeOK, Streamed
  <2> QED BY <1>5, <2>1, <2>2
<1>8. TypeOK'
  <2>1. stage' \in [Requests -> Stages] /\ step' \in [Requests -> Nat]
    <3>1. CASE stage' = [stage EXCEPT ![r] = "running"] /\ step' = [step EXCEPT ![r] = 1]
      BY <1>1, <3>1 DEF TypeOK
    <3>2. CASE stage' = [stage EXCEPT ![r] = "crashed"] /\ UNCHANGED step
      BY <1>1, <3>2 DEF TypeOK
    <3> QED BY <1>5, <3>1, <3>2
  <2>2. TASKS' \in [Ids -> Names] /\ id' \in [Requests -> Ids \cup {"none"}]
    BY <1>1, <1>2, <1>3 DEF TypeOK
  <2>3. own' \in [Requests -> Names] /\ state' \in [Requests -> TaskStates]
    BY <1>1, <1>2, <1>3 DEF TypeOK
  <2> QED BY <1>1, <1>3, <1>7, <2>1, <2>2, <2>3 DEF TypeOK
<1>9. ASSUME NEW q \in Requests PROVE Staged(q)' /\ Streamed(q)'
  <2>1. CASE q = r
    <3>1. stage'[r] \in {"running", "crashed"} /\ own'[r] \in Requests
      BY <1>1, <1>2, <1>3, <1>5 DEF TypeOK
    <3>2. fate'[r] = "none" /\ response'[r] = Nothing /\ (stage'[r] = "crashed" <=> step'[r] = 0)
      BY <1>1, <1>3, <1>5, <1>6 DEF TypeOK
    <3>3. Staged(r)'
      BY <3>1, <3>2 DEF Staged
    <3> QED BY <1>7, <2>1, <3>3
  <2>2. CASE q # r
    <3>1. LeftAlone(q)
      BY <1>1, <1>3, <1>5, <2>2 DEF TypeOK, LeftAlone, Send
    <3> QED BY <3>1, LeftAloneKeeps DEF IInv
  <2> QED BY <2>1, <2>2
<1>10. ASSUME NEW q \in Requests PROVE Fresh(q)'
  <2> SUFFICES ASSUME stage'[q] = "new"
               PROVE  (\A j \in Ids : TASKS'[j] # q) /\ (\A p \in Requests : own'[p] # q)
    BY DEF Fresh
  <2>1. q # r /\ stage[q] = "new" /\ Fresh(q)
    BY <1>1, <1>5 DEF IInv, TypeOK
  <2>2. o # q
    BY <1>4, <2>1 DEF Fresh
  <2> QED BY <1>1, <1>3, <2>1, <2>2 DEF TypeOK, Fresh
<1>11. ASSUME NEW j \in Ids PROVE Attended(j)'
  <2>1. CASE stage'[r] = "crashed"
    BY <2>1 DEF Attended, Attends
  <2>2. CASE stage'[r] = "running" /\ TASKS'[j] = o
    <3>1. own'[r] = o
      BY <1>1, <1>3 DEF TypeOK
    <3> QED BY <2>2, <3>1 DEF Attended, Attends
  <2>3. CASE stage'[r] = "running" /\ TASKS'[j] # o
    <3>1. j # i /\ TASKS'[j] = TASKS[j] /\ Attended(j)
      BY <1>1, <1>3, <2>3 DEF IInv, TypeOK
    <3>2. ASSUME NEW q \in Requests, Attends(q, j) PROVE Attends(q, j)'
      <4>1. q # r
        BY <1>1, <2>3, <3>1, <3>2 DEF Attends, TypeOK
      <4> QED BY <1>1, <1>3, <1>5, <3>1, <3>2, <4>1 DEF TypeOK, Attends
    <3>3. TASKS[j] # "none" => state'[TASKS[j]] = state[TASKS[j]]
      BY <1>1, <1>3, <2>3, <3>1 DEF TypeOK
    <3> QED BY <3>1, <3>2, <3>3 DEF Attended
  <2>4. stage'[r] \in {"running", "crashed"}
    BY <1>1, <1>5 DEF TypeOK
  <2> QED BY <2>1, <2>2, <2>3, <2>4
<1> QED BY <1>8, <1>9, <1>10, <1>11 DEF IInv

(* A run goes on to its next step.                                         *)
LEMMA StepPassesInv ==
  ASSUME IInv, NEW r \in Requests, StepPasses(r) PROVE IInv'
<1>1. TypeOK /\ Staged(r) /\ Streamed(r) /\ stage[r] = "running" /\ step[r] \in Nat
  BY DEF IInv, StepPasses, TypeOK
<1>2. /\ step' = [step EXCEPT ![r] = @ + 1]
      /\ Send(r, <<Event("step.start", step[r] + 1)>>)
      /\ UNCHANGED <<TASKS, state, error, artifacts, id, stage, own, fate, response, client, seen>>
  BY DEF StepPasses, taskVars, clientVars
<1>3. stage[r] # "over" /\ stage'[r] # "over" /\ step'[r] = step[r] + 1 /\ step[r] + 1 \in Nat
  BY <1>1, <1>2 DEF TypeOK
<1>4. queue'[r] \in Seq(Events) /\ Streamed(r)'
  <2> DEFINE n == step[r] + 1
  <2>1. n \in Nat /\ n = step[r] + 1 /\ Send(r, <<Event("step.start", n)>>) /\ step'[r] = n
    BY <1>2, <1>3
  <2> HIDE DEF n
  <2> QED BY <1>1, <1>2, <1>3, <2>1, SendOne
<1>5. TypeOK'
  <2>1. queue' \in [Requests -> Seq(Events)]
    BY <1>1, <1>2, <1>4 DEF TypeOK, Send
  <2>2. step' \in [Requests -> Nat]
    BY <1>1, <1>2, <1>3 DEF TypeOK
  <2> QED BY <1>1, <1>2, <2>1, <2>2 DEF TypeOK
<1>6. ASSUME NEW q \in Requests PROVE Staged(q)' /\ Streamed(q)'
  <2>1. CASE q = r
    <3>1. Staged(r)'
      BY <1>1, <1>2, <1>3 DEF Staged
    <3> QED BY <1>4, <2>1, <3>1
  <2>2. CASE q # r
    <3>1. LeftAlone(q)
      BY <1>1, <1>2, <2>2 DEF TypeOK, LeftAlone, Send
    <3> QED BY <3>1, LeftAloneKeeps DEF IInv
  <2> QED BY <2>1, <2>2
<1>7. ASSUME NEW q \in Requests PROVE Fresh(q)'
  BY <1>2 DEF IInv, Fresh
<1>8. ASSUME NEW j \in Ids PROVE Attended(j)'
  BY <1>2 DEF IInv, Attended, Attends
<1> QED BY <1>5, <1>6, <1>7, <1>8 DEF IInv

(* The last events of a run end its stream.                                *)
LEMMA FarewellEnds ==
  ASSUME TypeOK, NEW r \in Requests, Streamed(r), stage[r] = "running",
         own[r] \in Requests, NEW verdict \in {"completed", "failed"},
         EndRun(r, verdict)
  PROVE  queue'[r] \in Seq(Events) /\ Streamed(r)'
<1> DEFINE es == Farewell(r, verdict)
           told == [event |-> "task.complete", task |-> Outcome(r, verdict)]
<1>1. es \in Seq(Events) /\ Len(es) = 3
      /\ es[1] = Event("run.end", 0) /\ es[2] = told /\ es[3] = CLOSE
  <2>1. told \in Events /\ Event("run.end", 0) \in Events /\ CLOSE \in Events
    BY EventTypes, OutcomeType
  <2>2. es = <<Event("run.end", 0), told, CLOSE>>
    BY DEF Farewell
  <2> HIDE DEF es, told
  <2> QED BY <2>1, <2>2
<1>2. queue[r] \in Seq(Events) /\ seen[r] \in Seq(Events) /\ step[r] \in Nat
  BY DEF TypeOK
<1>3. /\ stage'[r] = "over" /\ fate'[r] = verdict
      /\ step'[r] = step[r] /\ client'[r] = client[r] /\ seen'[r] = seen[r]
      /\ Send(r, es)
  BY DEF EndRun, TypeOK, clientVars
<1> HIDE DEF es
<1>4. CASE client[r] = "reading"
  <2>1. queue'[r] = queue[r] \o es
    BY <1>3, <1>4 DEF Send, TypeOK
  <2>2. Stream(r)' = seen[r] \o (queue[r] \o es)
    BY <1>3, <2>1 DEF Stream
  <2>3. Len(Stream(r)) = step[r] /\ Begun(Stream(r), step[r])
    BY <1>4 DEF Streamed
  <2>4. queue[r] \o es \in Seq(Events) /\ Extends(seen[r] \o (queue[r] \o es), seen[r] \o queue[r], es)
    BY <1>1, <1>2, SendExtends
  <2>5. Extends(Stream(r)', Stream(r), es)
    BY <2>2, <2>4 DEF Stream
  <2>6. /\ Len(Stream(r)') = step[r] + 3
        /\ \A k \in 1..step[r] : Stream(r)'[k] = Stream(r)[k]
        /\ Stream(r)'[step[r] + 1] = Event("run.end", 0)
        /\ Stream(r)'[step[r] + 2] = told
        /\ Stream(r)'[step[r] + 3] = CLOSE
    <3>1. 1 \in 1..Len(es) /\ 2 \in 1..Len(es) /\ 3 \in 1..Len(es)
      BY <1>1
    <3> QED BY <1>1, <2>3, <2>5, <3>1 DEF Extends
  <2>7. Begun(Stream(r)', step[r])
    BY <2>3, <2>6 DEF Begun
  <2>8. told.event = "task.complete" /\ Reports(told.task, r, verdict)
    BY OutcomeType DEF Reports
  <2>9. Finished(r, Stream(r))'
    BY <1>3, <2>6, <2>7, <2>8 DEF Finished
  <2> QED BY <1>3, <1>4, <2>1, <2>4, <2>6, <2>9 DEF Streamed
<1>5. CASE client[r] # "reading"
  <2>1. queue'[r] = queue[r]
    BY <1>3, <1>5 DEF Send, TypeOK
  <2> QED BY <1>2, <1>3, <1>5, <2>1 DEF Streamed
<1> QED BY <1>4, <1>5

(* A run ends and settles its TaskState.                                   *)
LEMMA EndRunInv ==
  ASSUME IInv, NEW r \in Requests, stage[r] = "running",
         NEW verdict \in {"completed", "failed"}, EndRun(r, verdict)
  PROVE  IInv'
<1>1. TypeOK /\ Staged(r) /\ Streamed(r) /\ own[r] \in Requests
  BY DEF IInv, Staged
<1>2. /\ stage' = [stage EXCEPT ![r] = "over"] /\ fate' = [fate EXCEPT ![r] = verdict]
      /\ state' = [state EXCEPT ![own[r]] = verdict]
      /\ artifacts' = [artifacts EXCEPT ![own[r]] = Outcome(r, verdict).artifacts]
      /\ error' = [error EXCEPT ![own[r]] = Outcome(r, verdict).error]
      /\ Send(r, Farewell(r, verdict))
      /\ response' = [response EXCEPT ![r] = IF client[r] = "none" THEN Outcome(r, verdict) ELSE @]
      /\ UNCHANGED <<TASKS, id, own, step, client, seen>>
  BY DEF EndRun, Record, clientVars
<1>3. queue'[r] \in Seq(Events) /\ Streamed(r)'
  BY <1>1, FarewellEnds
<1>4. Outcome(r, verdict) \in Outcomes /\ Reports(Outcome(r, verdict), r, verdict)
  BY <1>1, OutcomeType DEF Reports
<1>5. TypeOK'
  <2>1. queue' \in [Requests -> Seq(Events)]
    BY <1>1, <1>2, <1>3 DEF TypeOK, Send
  <2>2. response' \in [Requests -> Outcomes]
    BY <1>1, <1>2, <1>4 DEF TypeOK
  <2>3. /\ artifacts' \in [Requests -> Names] /\ error' \in [Requests -> Names]
        /\ state' \in [Requests -> TaskStates]
    BY <1>1, <1>2, <1>4 DEF TypeOK, Outcomes
  <2>4. /\ stage' \in [Requests -> Stages]
        /\ fate' \in [Requests -> {"none", "completed", "failed"}]
    BY <1>1, <1>2 DEF TypeOK
  <2> QED BY <1>1, <1>2, <2>1, <2>2, <2>3, <2>4 DEF TypeOK
<1>6. ASSUME NEW q \in Requests PROVE Staged(q)' /\ Streamed(q)'
  <2>1. CASE q = r
    <3>1. stage'[r] = "over" /\ fate'[r] = verdict
      BY <1>1, <1>2 DEF TypeOK
    <3>2. response[r] = Nothing
      BY <1>1 DEF Staged
    <3>3. response'[r] = Nothing \/ response'[r] = Outcome(r, verdict)
      BY <1>1, <1>2, <3>2 DEF TypeOK
    <3>4. step'[r] = step[r] /\ step[r] # 0
      BY <1>1, <1>2 DEF Staged
    <3>5. Staged(r)'
      BY <1>4, <3>1, <3>3, <3>4 DEF Staged
    <3> QED BY <1>3, <2>1, <3>5
  <2>2. CASE q # r
    <3>1. LeftAlone(q)
      BY <1>1, <1>2, <2>2 DEF TypeOK, LeftAlone, Send
    <3> QED BY <3>1, LeftAloneKeeps DEF IInv
  <2> QED BY <2>1, <2>2
<1>7. ASSUME NEW q \in Requests PROVE Fresh(q)'
  BY <1>1, <1>2 DEF IInv, Fresh, TypeOK
<1>8. ASSUME NEW j \in Ids PROVE Attended(j)'
  <2>1. TASKS'[j] = TASKS[j] /\ Attended(j)
    BY <1>2 DEF IInv
  <2>2. CASE TASKS[j] = own[r]
    <3>1. state'[own[r]] = verdict
      BY <1>1, <1>2 DEF TypeOK
    <3> QED BY <2>1, <2>2, <3>1 DEF Attended
  <2>3. CASE TASKS[j] # own[r]
    <3>1. ASSUME NEW q \in Requests, Attends(q, j) PROVE Attends(q, j)'
      <4>1. q # r
        BY <2>3, <3>1 DEF Attends
      <4> QED BY <1>1, <1>2, <3>1, <4>1 DEF TypeOK, Attends
    <3>2. TASKS[j] # "none" => state'[TASKS[j]] = state[TASKS[j]]
      BY <1>1, <1>2, <2>3 DEF TypeOK
    <3> QED BY <2>1, <3>1, <3>2 DEF Attended
  <2> QED BY <2>2, <2>3
<1> QED BY <1>5, <1>6, <1>7, <1>8 DEF IInv

(* The sentinel is the last event of a stream, and only once its run is    *)
(* over.                                                                   *)
LEMMA CloseIsLast ==
  ASSUME TypeOK, NEW r \in Requests, Streamed(r), client[r] = "reading",
         NEW k \in 1..Len(Stream(r)), Stream(r)[k] = CLOSE
  PROVE  stage[r] = "over" /\ k = step[r] + 3
<1>1. step[r] \in Nat
  BY DEF TypeOK
<1>2. CASE stage[r] # "over"
  <2>1. k \in 1..step[r] /\ Begun(Stream(r), step[r])
    BY <1>2 DEF Streamed
  <2> QED BY <2>1, CloseIsNoEvent DEF Begun
<1>3. CASE stage[r] = "over"
  <2>1. Len(Stream(r)) = step[r] + 3 /\ Finished(r, Stream(r))
    BY <1>3 DEF Streamed
  <2>2. k \in 1..step[r] \/ k = step[r] + 1 \/ k = step[r] + 2 \/ k = step[r] + 3
    BY <1>1, <2>1
  <2>3. k \notin 1..step[r]
    BY <2>1, CloseIsNoEvent DEF Finished, Begun
  <2>4. k # step[r] + 1 /\ k # step[r] + 2
    BY <2>1, CloseIsNoEvent DEF Finished
  <2> QED BY <1>3, <2>2, <2>3, <2>4
<1> QED BY <1>2, <1>3

(* A client reads the next event, or the end of its stream.                *)
LEMMA ReadInv ==
  ASSUME IInv, NEW r \in Requests, Read(r) PROVE IInv'
<1> DEFINE h == Head(queue[r])
<1>1. /\ TypeOK /\ Staged(r) /\ Streamed(r)
      /\ client[r] = "reading" /\ queue[r] # <<>>
      /\ queue[r] \in Seq(Events) /\ seen[r] \in Seq(Events) /\ step[r] \in Nat
  BY DEF IInv, Read, TypeOK
<1>2. /\ queue' = [queue EXCEPT ![r] = Tail(@)]
      /\ IF h = CLOSE
         THEN client' = [client EXCEPT ![r] = "ended"] /\ UNCHANGED seen
         ELSE seen' = [seen EXCEPT ![r] = Append(@, h)] /\ UNCHANGED client
      /\ UNCHANGED <<TASKS, state, error, artifacts, id, stage, own, step, fate, response>>
  BY DEF Read, taskVars, runVars
<1>3. Stream(r) = seen[r] \o queue[r]
  BY DEF Stream
<1>4. /\ h \in Events /\ Tail(queue[r]) \in Seq(Events)
      /\ Append(seen[r], h) \in Seq(Events)
      /\ Continues(Stream(r), seen[r], h, Tail(queue[r]))
  BY <1>1, <1>3, ReadMoves
<1>5. Len(seen[r]) \in Nat /\ Len(Tail(queue[r])) \in Nat
  BY <1>1, <1>4, LenProperties
<1> HIDE DEF h
<1>6. /\ Len(Stream(r)) = Len(seen[r]) + 1 + Len(Tail(queue[r]))
       /\ h = Stream(r)[Len(seen[r]) + 1]
  BY <1>4 DEF Continues
<1>7. queue'[r] = Tail(queue[r])
  BY <1>1, <1>2 DEF TypeOK
<1>8. Streamed(r)'
  <2>1. CASE h = CLOSE
    <3>1. client'[r] = "ended" /\ seen'[r] = seen[r] /\ stage'[r] = stage[r]
          /\ step'[r] = step[r] /\ fate'[r] = fate[r]
      BY <1>1, <1>2, <2>1 DEF TypeOK
    <3>2. Len(seen[r]) + 1 \in 1..Len(Stream(r))
      <4> DEFINE n == Len(Stream(r))
                 a == Len(seen[r])
                 b == Len(Tail(queue[r]))
      <4>1. a \in Nat /\ b \in Nat /\ n = a + 1 + b
        BY <1>5, <1>6
      <4> HIDE DEF n, a, b
      <4>2. a + 1 \in 1..n
        BY <4>1
      <4> QED BY <4>2 DEF n, a
    <3>3. stage[r] = "over" /\ Len(seen[r]) + 1 = step[r] + 3
      BY <1>1, <1>6, <2>1, <3>2, CloseIsLast
    <3>4. Len(Stream(r)) = step[r] + 3 /\ Finished(r, Stream(r))
      BY <1>1, <3>3 DEF Streamed
    <3>5. Len(seen[r]) = step[r] + 2 /\ Len(Tail(queue[r])) = 0
      <4> DEFINE k == step[r]
                 a == Len(seen[r])
                 b == Len(Tail(queue[r]))
      <4>1. a \in Nat /\ b \in Nat /\ k \in Nat /\ a + 1 = k + 3 /\ a + 1 + b = k + 3
        BY <1>1, <1>5, <1>6, <3>3, <3>4
      <4> HIDE DEF k, a, b
      <4>2. a = k + 2 /\ b = 0
        BY <4>1
      <4> QED BY <4>2 DEF k, a, b
    <3>6. Tail(queue[r]) = <<>>
      BY <1>4, <3>5, EmptySeq
    <3>7. Finished(r, seen[r])
      <4>1. \A k \in 1..(step[r] + 2) : seen[r][k] = Stream(r)[k]
        BY <1>4, <3>5 DEF Continues
      <4>2. /\ 1..step[r] \subseteq 1..(step[r] + 2)
            /\ step[r] + 1 \in 1..(step[r] + 2) /\ step[r] + 2 \in 1..(step[r] + 2)
        BY <1>1
      <4> QED BY <3>4, <4>1, <4>2 DEF Finished, Begun
    <3> QED BY <1>7, <3>1, <3>3, <3>5, <3>6, <3>7 DEF Streamed, Finished
  <2>2. CASE h # CLOSE
    <3>1. /\ client'[r] = client[r] /\ seen'[r] = Append(seen[r], h)
          /\ stage'[r] = stage[r] /\ step'[r] = step[r] /\ fate'[r] = fate[r]
      BY <1>1, <1>2, <2>2 DEF TypeOK
    <3>2. Stream(r)' = Stream(r)
      BY <1>4, <1>7, <3>1 DEF Stream, Continues
    <3> QED BY <1>1, <3>1, <3>2 DEF Streamed, Finished
  <2> QED BY <2>1, <2>2
<1>9. TypeOK'
  <2>1. queue' \in [Requests -> Seq(Events)]
    BY <1>1, <1>2, <1>4 DEF TypeOK
  <2>2. /\ seen' \in [Requests -> Seq(Events)]
        /\ client' \in [Requests -> {"none", "reading", "ended", "gone"}]
    <3>1. CASE client' = [client EXCEPT ![r] = "ended"] /\ seen' = seen
      BY <1>1, <3>1 DEF TypeOK
    <3>2. CASE client' = client /\ seen' = [seen EXCEPT ![r] = Append(@, h)]
      BY <1>1, <1>4, <3>2 DEF TypeOK
    <3> QED BY <1>2, <3>1, <3>2
  <2> QED BY <1>1, <1>2, <2>1, <2>2 DEF TypeOK
<1>10. ASSUME NEW q \in Requests PROVE Staged(q)' /\ Streamed(q)'
  <2>1. CASE q = r
    <3>1. stage[r] # "new"
      BY <1>1 DEF Staged
    <3>2. Staged(r)'
      BY <1>1, <1>2, <3>1 DEF Staged
    <3> QED BY <1>8, <2>1, <3>2
  <2>2. CASE q # r
    <3>1. LeftAlone(q)
      BY <1>1, <1>2, <2>2 DEF TypeOK, LeftAlone
    <3> QED BY <3>1, LeftAloneKeeps DEF IInv
  <2> QED BY <2>1, <2>2
<1>11. ASSUME NEW q \in Requests PROVE Fresh(q)'
  BY <1>2 DEF IInv, Fresh
<1>12. ASSUME NEW j \in Ids PROVE Attended(j)'
  BY <1>2 DEF IInv, Attended, Attends
<1> QED BY <1>9, <1>10, <1>11, <1>12 DEF IInv

(* A client goes away.                                                     *)
LEMMA DisconnectInv ==
  ASSUME IInv, NEW r \in Requests, Disconnect(r) PROVE IInv'
<1>1. TypeOK /\ Staged(r) /\ Streamed(r) /\ client[r] = "reading"
  BY DEF IInv, Disconnect
<1>2. /\ client' = [client EXCEPT ![r] = "gone"]
      /\ queue' = [queue EXCEPT ![r] = <<>>] /\ seen' = [seen EXCEPT ![r] = <<>>]
      /\ UNCHANGED <<TASKS, state, error, artifacts, id, stage, own, step, fate, response>>
  BY DEF Disconnect, taskVars, runVars
<1>3. TypeOK'
  <2>1. <<>> \in Seq(Events)
    BY EmptySeq
  <2> QED BY <1>1, <1>2, <2>1 DEF TypeOK
<1>4. ASSUME NEW q \in Requests PROVE Staged(q)' /\ Streamed(q)'
  <2>1. CASE q = r
    BY <1>1, <1>2, <2>1 DEF TypeOK, Staged, Streamed
  <2>2. CASE q # r
    <3>1. LeftAlone(q)
      BY <1>1, <1>2, <2>2 DEF TypeOK, LeftAlone
    <3> QED BY <3>1, LeftAloneKeeps DEF IInv
  <2> QED BY <2>1, <2>2
<1>5. ASSUME NEW q \in Requests PROVE Fresh(q)'
  BY <1>2 DEF IInv, Fresh
<1>6. ASSUME NEW j \in Ids PROVE Attended(j)'
  BY <1>2 DEF IInv, Attended, Attends
<1> QED BY <1>3, <1>4, <1>5, <1>6 DEF IInv

-----------------------------------------------------------------------------
(* The theorems.                                                           *)

(* Every step keeps the invariant.                                         *)
LEMMA NextInv == IInv /\ [Next]_vars => IInv'
<1> SUFFICES ASSUME IInv, [Next]_vars PROVE IInv'
  OBVIOUS
<1>1. ASSUME NEW r \in Requests, StartStreaming(r) PROVE IInv'
  BY <1>1, StartStreamingInv
<1>2. ASSUME NEW r \in Requests, TasksSend(r) PROVE IInv'
  BY <1>2, RunTaskInv DEF TasksSend
<1>3. ASSUME NEW r \in Requests, Runner(r) PROVE IInv'
  <2>1. id[r] \in Ids
    BY <1>3 DEF IInv, Staged, Runner
  <2> QED BY <1>3, <2>1, RunTaskInv DEF Runner
<1>4. ASSUME NEW r \in Requests, StepPasses(r) PROVE IInv'
  BY <1>4, StepPassesInv
<1>5. ASSUME NEW r \in Requests, RunCompletes(r) PROVE IInv'
  BY <1>5, EndRunInv DEF RunCompletes
<1>6. ASSUME NEW r \in Requests, RunFails(r) PROVE IInv'
  BY <1>6, EndRunInv DEF RunFails
<1>7. ASSUME NEW r \in Requests, Read(r) PROVE IInv'
  BY <1>7, ReadInv
<1>8. ASSUME NEW r \in Requests, Disconnect(r) PROVE IInv'
  BY <1>8, DisconnectInv
<1>9. CASE UNCHANGED vars
  <2>1. UNCHANGED <<TASKS, state, error, artifacts, id, stage, own, step, fate, response,
                    queue, client, seen>>
    BY <1>9 DEF vars, taskVars, runVars, clientVars
  <2>2. TypeOK'
    BY <2>1 DEF IInv, TypeOK
  <2>3. ASSUME NEW q \in Requests PROVE Staged(q)' /\ Streamed(q)'
    BY <2>1, LeftAloneKeeps DEF IInv, LeftAlone
  <2>4. ASSUME NEW q \in Requests PROVE Fresh(q)'
    BY <2>1 DEF IInv, Fresh
  <2>5. ASSUME NEW j \in Ids PROVE Attended(j)'
    BY <2>1 DEF IInv, Attended, Attends
  <2> QED BY <2>2, <2>3, <2>4, <2>5 DEF IInv
<1> QED BY <1>1, <1>2, <1>3, <1>4, <1>5, <1>6, <1>7, <1>8, <1>9 DEF Next, Step, Rest

(* The invariant holds of every behaviour.                                 *)
LEMMA InvHolds == Spec => []IInv
<1>1. IInv /\ [Next]_vars => IInv'
  BY NextInv
<1> QED BY <1>1, InitInv, PTL DEF Spec

(* Every field of the registry, of the runs and of the streams is          *)
(* well-typed whatever requests arrive.                                    *)
THEOREM TypeCorrect == Spec => []TypeOK
<1>1. IInv => TypeOK
  BY DEF IInv
<1> QED BY <1>1, InvHolds, PTL

(* What a stream of n steps may hold at its k-th place.                    *)
Placed(r, t, k) ==
  \/ k \in 1..step[r] /\ t[k] = Event("step.start", k)
  \/ k = step[r] + 1 /\ t[k] = Event("run.end", 0)
  \/ k = step[r] + 2 /\ t[k].event = "task.complete" /\ Reports(t[k].task, r, fate[r])
  \/ k = step[r] + 3 /\ t[k] = CLOSE

(* Every event of every stream is in its place.                            *)
LEMMA InPlace ==
  ASSUME IInv, NEW r \in Requests
  PROVE  /\ Stream(r) \in Seq(Events)
         /\ step[r] \in Nat
         /\ step[r] = 0 => Stream(r) = <<>>
         /\ \A k \in 1..Len(Stream(r)) : Placed(r, Stream(r), k)
<1>1. TypeOK /\ Staged(r) /\ Streamed(r)
  BY DEF IInv
<1>2. /\ queue[r] \in Seq(Events) /\ seen[r] \in Seq(Events) /\ step[r] \in Nat
      /\ client[r] \in {"none", "reading", "ended", "gone"} /\ stage[r] \in Stages
  BY <1>1 DEF TypeOK
<1>3. Stream(r) \in Seq(Events)
  BY <1>2, ConcatProperties DEF Stream
<1>4. CASE client[r] \in {"none", "gone"}
  <2>1. Stream(r) = <<>>
    BY <1>1, <1>4 DEF Streamed, Stream
  <2> QED BY <1>2, <1>3, <2>1
<1>5. CASE client[r] = "reading" /\ stage[r] # "over"
  <2>1. Len(Stream(r)) = step[r] /\ Begun(Stream(r), step[r])
    BY <1>1, <1>5 DEF Streamed
  <2>2. step[r] = 0 => Stream(r) = <<>>
    BY <1>3, <2>1, EmptySeq
  <2> QED BY <1>2, <1>3, <2>1, <2>2 DEF Begun, Placed
<1>6. CASE client[r] = "reading" /\ stage[r] = "over"
  <2>1. /\ Len(Stream(r)) = step[r] + 3 /\ Finished(r, Stream(r))
        /\ Stream(r)[step[r] + 3] = CLOSE /\ step[r] # 0
    BY <1>1, <1>6 DEF Streamed, Staged
  <2>2. \A k \in 1..(step[r] + 3) :
          k \in 1..step[r] \/ k = step[r] + 1 \/ k = step[r] + 2 \/ k = step[r] + 3
    BY <1>2
  <2> QED BY <1>2, <1>3, <2>1, <2>2 DEF Finished, Begun, Placed
<1>7. CASE client[r] = "ended"
  <2>1. /\ queue[r] = <<>> /\ Len(seen[r]) = step[r] + 2 /\ Finished(r, seen[r])
        /\ step[r] # 0
    BY <1>1, <1>7 DEF Streamed, Staged
  <2>2. Stream(r) = seen[r]
    BY <1>2, <2>1, ConcatEmptySeq DEF Stream
  <2>3. \A k \in 1..(step[r] + 2) :
          k \in 1..step[r] \/ k = step[r] + 1 \/ k = step[r] + 2
    BY <1>2
  <2> QED BY <1>2, <1>3, <2>1, <2>2, <2>3 DEF Finished, Begun, Placed
<1> QED BY <1>2, <1>4, <1>5, <1>6, <1>7

(* What a client is told of its task, in a response or in a stream, is how *)
(* its own run ended, for every number of runs on every sharing of ids.    *)
THEOREM OwnVerdictTheorem == Spec => []OwnVerdict
<1>1. IInv => OwnVerdict
  <2> SUFFICES ASSUME IInv, NEW r \in Requests, NEW told \in Told(r), told.state # "none"
               PROVE  Reports(told, r, fate[r])
    BY DEF OwnVerdict, Reports
  <2>1. CASE told = response[r]
    BY <2>1 DEF IInv, Staged
  <2>2. CASE told # response[r]
    <3>1. PICK k \in DOMAIN Stream(r) :
            Stream(r)[k].event = "task.complete" /\ told = Stream(r)[k].task
      BY <2>2 DEF Told, IsEvent
    <3>2. k \in 1..Len(Stream(r)) /\ Placed(r, Stream(r), k)
      BY <3>1, InPlace, LenProperties
    <3> QED BY <3>1, <3>2 DEF Placed, Event, CLOSE
  <2> QED BY <2>1, <2>2
<1> QED BY <1>1, InvHolds, PTL

(* The events of a stream come in their one order and end with the report, *)
(* whatever became of the run, and a stream that has ended was complete.   *)
THEOREM StreamShapeTheorem == Spec => []StreamShape
<1>1. IInv => StreamShape
  <2> SUFFICES ASSUME IInv, NEW r \in Requests
               PROVE  /\ \A k \in DOMAIN Stream(r) :
                           /\ IsEvent(r, k, "step.start") =>
                                /\ Stream(r)[k].step = k
                                /\ \A n \in 1..(k - 1) : IsEvent(r, n, "step.start")
                           /\ IsEvent(r, k, "run.end") => IsEvent(r, k - 1, "step.start")
                           /\ IsEvent(r, k, "task.complete") => IsEvent(r, k - 1, "run.end")
                           /\ Stream(r)[k] = CLOSE => IsEvent(r, k - 1, "task.complete")
                      /\ client[r] = "ended" =>
                           queue[r] = <<>> /\ IsEvent(r, Len(seen[r]), "task.complete")
    BY DEF StreamShape
  <2> DEFINE t == Stream(r)
             s == step[r]
  <2>1. /\ t \in Seq(Events) /\ s \in Nat /\ (s = 0 => t = <<>>)
        /\ DOMAIN t = 1..Len(t) /\ Len(t) \in Nat
    BY InPlace, LenProperties
  <2>2. \A k \in 1..Len(t) : Placed(r, t, k)
    BY InPlace
  <2> HIDE DEF t
  <2>3. ASSUME NEW k \in 1..Len(t)
        PROVE  /\ t[k].event = "step.start" => k <= s
               /\ t[k].event = "run.end" => k = s + 1
               /\ t[k].event = "task.complete" => k = s + 2
               /\ t[k] = CLOSE => k = s + 3
    BY <2>1, <2>2, <2>3 DEF Placed, Event, CLOSE
  <2>4. ASSUME NEW k \in 1..Len(t)
        PROVE  /\ k <= s => t[k] = Event("step.start", k) /\ t[k].event = "step.start"
               /\ k = s + 1 => t[k].event = "run.end"
               /\ k = s + 2 => t[k].event = "task.complete"
    BY <2>1, <2>2, <2>4 DEF Placed, Event
  <2>5. ASSUME NEW k \in 1..Len(t), NEW name, t[k].event = name
        PROVE  IsEvent(r, k, name)
    BY <2>1, <2>5 DEF IsEvent, t
  <2>6. ASSUME NEW k \in DOMAIN t, IsEvent(r, k, "step.start")
        PROVE  t[k].step = k /\ \A n \in 1..(k - 1) : IsEvent(r, n, "step.start")
    <3>1. k \in 1..Len(t) /\ k <= s
      BY <2>1, <2>3, <2>6 DEF IsEvent, t
    <3>2. t[k].step = k
      <4>1. t[k] = Event("step.start", k)
        BY <2>4, <3>1
      <4> QED BY <4>1 DEF Event
    <3>3. ASSUME NEW n \in 1..(k - 1) PROVE IsEvent(r, n, "step.start")
      <4>1. n \in 1..Len(t) /\ n <= s
        BY <2>1, <3>1
      <4> QED BY <2>4, <2>5, <4>1
    <3> QED BY <3>2, <3>3
  <2>7. ASSUME NEW k \in DOMAIN t, IsEvent(r, k, "run.end")
        PROVE  IsEvent(r, k - 1, "step.start")
    <3>1. k \in 1..Len(t) /\ k = s + 1 /\ s # 0
      BY <2>1, <2>3, <2>7 DEF IsEvent, t
    <3>2. k - 1 \in 1..Len(t) /\ k - 1 <= s
      BY <2>1, <3>1
    <3> QED BY <2>4, <2>5, <3>2
  <2>8. ASSUME NEW k \in DOMAIN t, IsEvent(r, k, "task.complete")
        PROVE  IsEvent(r, k - 1, "run.end")
    <3>1. k \in 1..Len(t) /\ k = s + 2
      BY <2>1, <2>3, <2>8 DEF IsEvent, t
    <3>2. k - 1 \in 1..Len(t) /\ k - 1 = s + 1
      BY <2>1, <3>1
    <3> QED BY <2>4, <2>5, <3>2
  <2>9. ASSUME NEW k \in DOMAIN t, t[k] = CLOSE
        PROVE  IsEvent(r, k - 1, "task.complete")
    <3>1. k \in 1..Len(t) /\ k = s + 3
      BY <2>1, <2>3, <2>9
    <3>2. k - 1 \in 1..Len(t) /\ k - 1 = s + 2
      BY <2>1, <3>1
    <3> QED BY <2>4, <2>5, <3>2
  <2>10. client[r] = "ended" =>
           queue[r] = <<>> /\ IsEvent(r, Len(seen[r]), "task.complete")
    <3> SUFFICES ASSUME client[r] = "ended"
                 PROVE  queue[r] = <<>> /\ IsEvent(r, Len(seen[r]), "task.complete")
      OBVIOUS
    <3>1. queue[r] = <<>> /\ Len(seen[r]) = s + 2 /\ seen[r] \in Seq(Events)
      BY DEF IInv, Streamed, TypeOK
    <3>2. t = seen[r]
      BY <3>1, ConcatEmptySeq DEF t, Stream
    <3>3. s + 2 \in 1..Len(t)
      BY <2>1, <3>1, <3>2
    <3>4. IsEvent(r, s + 2, "task.complete")
      BY <2>4, <2>5, <3>3
    <3> QED BY <3>1, <3>4
  <2> QED BY <2>6, <2>7, <2>8, <2>9, <2>10 DEF t
<1> QED BY <1>1, InvHolds, PTL

(* Once all is quiet and no factory has raised, every task that an id      *)
(* names is settled, however runs and streams replaced each other's.       *)
THEOREM RegistryTheorem == Spec => []RegistrySettles
<1>1. IInv => RegistrySettles
  BY DEF IInv, RegistrySettles, Quiet, Attended, Attends
<1> QED BY <1>1, InvHolds, PTL

(* Every run of a request is one that run_pipeline allows, and what the    *)
(* handler does with streams, with the registry and with other requests    *)
(* never moves it.                                                         *)
THEOREM RunsKeepContractTheorem == Spec => RunsKeepContract
<1>1. IInv /\ [Next]_vars =>
        [\A r \in Requests : Pipe(r)!Next \/ UNCHANGED Pipe(r)!vars]_vars
  <2> SUFFICES ASSUME IInv, [Next]_vars, NEW r \in Requests
               PROVE  Pipe(r)!Next \/ UNCHANGED Pipe(r)!vars
    OBVIOUS
  <2> USE DEF IInv, TypeOK
  <2>1. CASE \E i \in Ids \cup {"none"} : stage[r] \in {"new", "accepted"} /\ RunTask(r, i)
    <3>1. step[r] = 0
      BY <2>1 DEF Staged
    <3>2. \/ stage'[r] = "running" /\ step'[r] = 1
          \/ stage'[r] = "crashed" /\ step'[r] = step[r]
      BY <2>1 DEF RunTask
    <3> QED BY <2>1, <3>1, <3>2 DEF Pipe!Next, Pipe!Start, Pipe!vars, Responder
  <2>2. CASE StepPasses(r)
    <3>1. stage'[r] = "running" /\ step'[r] = step[r] + 1
      BY <2>2 DEF StepPasses
    <3> QED BY <2>2, <3>1 DEF StepPasses, Pipe!Next, Pipe!Advance
  <2>3. CASE RunCompletes(r)
    <3>1. stage'[r] = "over" /\ fate'[r] = "completed" /\ step'[r] = step[r]
      BY <2>3 DEF RunCompletes, EndRun
    <3> QED BY <2>3, <3>1 DEF RunCompletes, Pipe!Next, Pipe!Complete
  <2>4. CASE RunFails(r)
    <3>1. stage'[r] = "over" /\ fate'[r] = "failed" /\ step'[r] = step[r]
      BY <2>4 DEF RunFails, EndRun
    <3> QED BY <2>4, <3>1 DEF RunFails, Pipe!Next, Pipe!Raise
  <2>5. CASE StartStreaming(r)
    <3>1. stage'[r] = "accepted" /\ step'[r] = step[r]
      BY <2>5 DEF StartStreaming
    <3> QED BY <2>5, <3>1 DEF StartStreaming, Pipe!vars
  <2>6. CASE Read(r) \/ Disconnect(r)
    <3>1. UNCHANGED <<stage, step, fate>>
      BY <2>6 DEF Read, Disconnect, runVars
    <3> QED BY <3>1 DEF Pipe!vars
  <2>7. ASSUME NEW q \in Requests, q # r,
               \/ StartStreaming(q) \/ TasksSend(q) \/ Runner(q) \/ Step(q)
               \/ Read(q) \/ Disconnect(q)
        PROVE  UNCHANGED Pipe(r)!vars
    <3>1. stage'[r] = stage[r]
      BY <2>7 DEF StartStreaming, TasksSend, Runner, RunTask, Step, StepPasses,
         RunCompletes, RunFails, EndRun, Read, Disconnect, runVars
    <3>2. step'[r] = step[r]
      BY <2>7 DEF StartStreaming, TasksSend, Runner, RunTask, Step, StepPasses,
         RunCompletes, RunFails, EndRun, Read, Disconnect, runVars
    <3>3. fate'[r] = fate[r]
      BY <2>7 DEF StartStreaming, TasksSend, Runner, RunTask, Step, StepPasses,
         RunCompletes, RunFails, EndRun, Read, Disconnect, runVars
    <3> QED BY <3>1, <3>2, <3>3 DEF Pipe!vars
  <2>8. CASE UNCHANGED vars
    BY <2>8 DEF vars, runVars, Pipe!vars
  <2>9. CASE Next
    <3>1. CASE Rest
      BY <2>8, <3>1 DEF Rest
    <3>2. CASE TasksSend(r) \/ Runner(r)
      BY <2>1, <3>2 DEF TasksSend, Runner
    <3> QED BY <2>2, <2>3, <2>4, <2>5, <2>6, <2>7, <2>9, <3>1, <3>2 DEF Next, Step
  <2> QED BY <2>8, <2>9
<1> QED BY <1>1, InvHolds, PTL DEF Spec, RunsKeepContract
=============================================================================
