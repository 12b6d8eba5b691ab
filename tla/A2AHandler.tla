----------------------------- MODULE A2AHandler -----------------------------
(***************************************************************************)
(* The A2A endpoint of archive/apt_legal_agent_demo: tasks/send answers    *)
(* when its run is over, tasks/sendSubscribe starts the run as a           *)
(* background task and streams its events through an emitter of its own.   *)
(* Runs record their state in TASKS under an id the client chooses, so     *)
(* that runs may share a TaskState.  A run is the four-step pipeline       *)
(* classifier, retrieval_planner, retrieval_executor, responder.           *)
(*                                                                         *)
(* Observer events and the end of a run never wait (an emitter's queue is  *)
(* unbounded), so a run is interleaved with others only where it awaits a  *)
(* model or a tool: inside its steps.  Events that are always sent along   *)
(* with one of those below are left out (run.start, step.end,              *)
(* role.invoke.start and role.invoke.end).                                 *)
(***************************************************************************)
EXTENDS Naturals, Sequences

CONSTANTS
  Requests,  \* requests that may arrive, each of either kind
  Ids        \* task ids the clients use

ASSUME HandlerAssumption == "none" \notin Requests \cup Ids

(* A TaskState is named after the request that made it, and an error or an *)
(* artifact after the request whose run it is of.                          *)
VARIABLES
  TASKS,      \* TASKS[i]: the TaskState registered under id i, or "none"
  state,      \* state[o], error[o], artifacts[o]: the fields of TaskState o
  error,
  artifacts,
  id,         \* id[r]: the task id of request r
  stage,      \* stage[r]: "new", "accepted", "running", "over" or "crashed"
  own,        \* own[r]: the TaskState its run works on
  step,       \* step[r]: the pipeline step its run is at
  fate,       \* fate[r]: "none", or how its run ended              (history)
  response,   \* response[r]: the result sent to the client of a tasks/send
  queue,      \* queue[r]: _queue of its emitter, if it is a tasks/sendSubscribe
  client,     \* client[r]: "none" unless it is one, "reading", "ended" or "gone"
  seen        \* seen[r]: events the client has received            (history)

taskVars == <<TASKS, state, error, artifacts>>
runVars == <<id, stage, own, step, fate, response>>
clientVars == <<client, seen>>
vars == <<taskVars, runVars, queue, clientVars>>

Responder == 4   \* the last of the four steps

Event(name, k) == [event |-> name, step |-> k]
CLOSE == Event("__closed__", 0)
Nothing == [state |-> "none", artifacts |-> "none", error |-> "none"]

Init ==
  /\ TASKS = [i \in Ids |-> "none"]
  /\ state = [r \in Requests |-> "none"]
  /\ error = [r \in Requests |-> "none"]
  /\ artifacts = [r \in Requests |-> "none"]
  /\ id = [r \in Requests |-> "none"]
  /\ stage = [r \in Requests |-> "new"]
  /\ own = [r \in Requests |-> "none"]
  /\ step = [r \in Requests |-> 0]
  /\ fate = [r \in Requests |-> "none"]
  /\ response = [r \in Requests |-> Nothing]
  /\ queue = [r \in Requests |-> <<>>]
  /\ client = [r \in Requests |-> "none"]
  /\ seen = [r \in Requests |-> <<>>]

-----------------------------------------------------------------------------
(* SseEmitter.send for each of the events es; a tasks/send has no emitter, *)
(* and what piles up for a client that is gone nobody will look at.        *)
Send(r, es) == queue' = [queue EXCEPT ![r] = IF client[r] = "reading" THEN @ \o es ELSE @]

(* start_streaming_task: a new TaskState replaces whatever the id named,   *)
(* the route reads the new emitter, and the run is left to a task.         *)
StartStreaming(r) ==
  /\ stage[r] = "new"
  /\ \E i \in Ids :
       /\ id' = [id EXCEPT ![r] = i]
       /\ TASKS' = [TASKS EXCEPT ![i] = r]
  /\ state' = [state EXCEPT ![r] = "submitted"]
  /\ stage' = [stage EXCEPT ![r] = "accepted"]
  /\ client' = [client EXCEPT ![r] = "reading"]
  /\ UNCHANGED <<error, artifacts, own, step, fate, response, queue, seen>>

(* run_task under id i as far as its first step: it works on the TaskState *)
(* the id names by now.  The factory may raise, outside of every try.      *)
RunTask(r, i) ==
  LET o == IF TASKS[i] = "none" THEN r ELSE TASKS[i]
  IN  /\ id' = [id EXCEPT ![r] = i]
      /\ TASKS' = [TASKS EXCEPT ![i] = o]
      /\ own' = [own EXCEPT ![r] = o]
      /\ state' = [state EXCEPT ![o] = "working"]
      /\ \/ /\ stage' = [stage EXCEPT ![r] = "running"]
            /\ step' = [step EXCEPT ![r] = 1]
            /\ Send(r, <<Event("step.start", 1)>>)
         \/ /\ stage' = [stage EXCEPT ![r] = "crashed"]
            /\ UNCHANGED <<step, queue>>
      /\ UNCHANGED <<error, artifacts, fate, response, clientVars>>

TasksSend(r) == stage[r] = "new" /\ \E i \in Ids : RunTask(r, i)

Runner(r) == stage[r] = "accepted" /\ RunTask(r, id[r])

-----------------------------------------------------------------------------
(* Mutant: the TaskState is looked up by its id once more.                 *)
OutcomeById(r, verdict) ==
  LET o == TASKS[id[r]]
  IN  [state |-> IF o = own[r] THEN verdict ELSE state[o],
       artifacts |-> IF o = own[r] /\ verdict = "completed" THEN r ELSE artifacts[o],
       error |-> IF o = own[r] /\ verdict = "failed" THEN r ELSE error[o]]

(* The TaskState of r as its run leaves it.  Artifacts of an earlier run   *)
(* outlive a failure, and its error outlives a success.                    *)
Outcome(r, verdict) ==
  [state |-> verdict,
   artifacts |-> IF verdict = "completed" THEN r ELSE artifacts[own[r]],
   error |-> IF verdict = "failed" THEN r ELSE error[own[r]]]

(* Mutant: the stream is closed first, and drops the last event.           *)
FarewellClosedFirst(r, verdict) == <<Event("run.end", 0), CLOSE>>

(* Mutant: a failure returns before the stream is closed.                  *)
FarewellIfCompleted(r, verdict) ==
  <<Event("run.end", 0)>>
    \o IF verdict = "completed"
       THEN <<[event |-> "task.complete", task |-> Outcome(r, verdict)], CLOSE>>
       ELSE <<>>

(* The last events of a stream: run_pipeline's, run_task's, and close.     *)
Farewell(r, verdict) ==
  <<Event("run.end", 0),
    [event |-> "task.complete", task |-> Outcome(r, verdict)],
    CLOSE>>

(* Mutant: a run that fails leaves its TaskState as it is.                 *)
RecordIfCompleted(r, verdict) ==
  IF verdict = "failed" THEN UNCHANGED <<state, error, artifacts>>
  ELSE /\ state' = [state EXCEPT ![own[r]] = verdict]
       /\ artifacts' = [artifacts EXCEPT ![own[r]] = r]
       /\ UNCHANGED error

(* What run_task writes to its TaskState.                                  *)
Record(r, verdict) ==
  /\ state' = [state EXCEPT ![own[r]] = verdict]
  /\ artifacts' = [artifacts EXCEPT ![own[r]] = Outcome(r, verdict).artifacts]
  /\ error' = [error EXCEPT ![own[r]] = Outcome(r, verdict).error]

(* run_pipeline is over, and run_task with it.                             *)
EndRun(r, verdict) ==
  /\ stage' = [stage EXCEPT ![r] = "over"]
  /\ fate' = [fate EXCEPT ![r] = verdict]
  /\ Record(r, verdict)
  /\ Send(r, Farewell(r, verdict))
  /\ response' = [response EXCEPT ![r] = IF client[r] = "none" THEN Outcome(r, verdict) ELSE @]
  /\ UNCHANGED <<TASKS, id, own, step, clientVars>>

-----------------------------------------------------------------------------
(* A step ends and the next one starts: retrieval_executor also when tools *)
(* of it failed (continue_on_failure), any other unless its role failed or *)
(* timed out.                                                              *)
StepPasses(r) ==
  /\ stage[r] = "running" /\ step[r] < Responder
  /\ step' = [step EXCEPT ![r] = @ + 1]
  /\ Send(r, <<Event("step.start", step[r] + 1)>>)
  /\ UNCHANGED <<taskVars, id, stage, own, fate, response, clientVars>>

(* The responder's output is an AgentResponse.                             *)
RunCompletes(r) ==
  /\ stage[r] = "running" /\ step[r] = Responder
  /\ EndRun(r, "completed")

(* A model step fails or times out and the pipeline aborts, any step       *)
(* raises, or the responder completes without an AgentResponse.            *)
RunFails(r) ==
  /\ stage[r] = "running"
  /\ EndRun(r, "failed")

-----------------------------------------------------------------------------
(* stream_events yields the next event, or ends at the sentinel.           *)
Read(r) ==
  /\ client[r] = "reading"
  /\ queue[r] # <<>>
  /\ queue' = [queue EXCEPT ![r] = Tail(@)]
  /\ IF Head(queue[r]) = CLOSE
     THEN client' = [client EXCEPT ![r] = "ended"] /\ UNCHANGED seen
     ELSE seen' = [seen EXCEPT ![r] = Append(@, Head(queue[r]))] /\ UNCHANGED client
  /\ UNCHANGED <<taskVars, runVars>>

(* The client goes away; the run knows nothing of it.                      *)
Disconnect(r) ==
  /\ client[r] = "reading"
  /\ client' = [client EXCEPT ![r] = "gone"]
  /\ queue' = [queue EXCEPT ![r] = <<>>]
  /\ seen' = [seen EXCEPT ![r] = <<>>]
  /\ UNCHANGED <<taskVars, runVars>>

-----------------------------------------------------------------------------
Step(r) ==
  StepPasses(r) \/ RunCompletes(r) \/ RunFails(r)

Quiet == \A r \in Requests : stage[r] \in {"over", "crashed"}

(* Nothing more happens but the wait of a client whose run crashed.        *)
Rest ==
  /\ Quiet
  /\ \A r \in Requests : client[r] # "reading" \/ queue[r] = <<>>
  /\ UNCHANGED vars

Next ==
  \/ \E r \in Requests :
       StartStreaming(r) \/ TasksSend(r) \/ Runner(r) \/ Step(r) \/ Read(r) \/ Disconnect(r)
  \/ Rest

(* Fair: the event loop runs what is ready, and steps end: a role by its   *)
(* watchdog, a retrieval by its timeouts (PipelineEnds of Pipeline; the    *)
(* demo's pipeline aborts at a failure and has no memory extractor, so it  *)
(* awaits neither of the callbacks that could hold it up).                 *)
Fairness ==
  \A r \in Requests : WF_vars(Runner(r)) /\ WF_vars(Step(r)) /\ WF_vars(Read(r))

Spec == Init /\ [][Next]_vars /\ Fairness

-----------------------------------------------------------------------------
(* The stream of r: what its client has received and what waits for it.    *)
Stream(r) == seen[r] \o queue[r]

IsEvent(r, k, name) == k \in DOMAIN Stream(r) /\ Stream(r)[k].event = name

(* What the client of r is told of its task.                               *)
Told(r) ==
  {response[r]} \cup
    {Stream(r)[k].task : k \in {n \in DOMAIN Stream(r) : IsEvent(r, n, "task.complete")}}

(* What a client is told of its task is how its own run ended, with its    *)
(* own artifacts or its own error, though runs share ids and TaskStates    *)
(* and others may end or replace them meanwhile (run_task, _jsonrpc_result *)
(* and the task.complete event).                                           *)
OwnVerdict ==
  \A r \in Requests :
    \A told \in Told(r) :
      told.state # "none" =>
        /\ told.state = fate[r]
        /\ fate[r] = "completed" => told.artifacts = r
        /\ fate[r] = "failed" => told.error = r

(* A stream is well formed whatever became of its run: the steps one by    *)
(* one from the first, then run.end, then the one task.complete, and the   *)
(* end of the stream after it and nowhere else; a client whose stream has  *)
(* ended has had all of it (SseEmitter, run_task's tail).                  *)
StreamShape ==
  \A r \in Requests :
    /\ \A k \in DOMAIN Stream(r) :
         /\ IsEvent(r, k, "step.start") =>
              Stream(r)[k].step = k /\ \A n \in 1..(k - 1) : IsEvent(r, n, "step.start")
         /\ IsEvent(r, k, "run.end") => IsEvent(r, k - 1, "step.start")
         /\ IsEvent(r, k, "task.complete") => IsEvent(r, k - 1, "run.end")
         /\ Stream(r)[k] = CLOSE => IsEvent(r, k - 1, "task.complete")
    /\ client[r] = "ended" =>
         queue[r] = <<>> /\ IsEvent(r, Len(seen[r]), "task.complete")

(* Once nothing runs any more, no id names a task that seems to be under   *)
(* way, unless a factory raised: also where a stream's TaskState was       *)
(* replaced before its run began (TASKS).                                  *)
RegistrySettles ==
  Quiet /\ (\A r \in Requests : stage[r] # "crashed") =>
    \A i \in Ids : TASKS[i] # "none" => state[TASKS[i]] \in {"completed", "failed"}

Pipe(r) == INSTANCE RunContract WITH
  N <- Responder,
  status <- CASE stage[r] \in {"new", "accepted", "crashed"} -> "queued"
              [] stage[r] = "running" -> "running"
              [] OTHER -> IF fate[r] = "completed" THEN "completed" ELSE "raised",
  at <- step[r]

(* The run of a request is one run_pipeline as RunContract allows it; a    *)
(* run that failed, be it aborted or raised, stands for one that raised.   *)
RunsKeepContract ==
  [][\A r \in Requests : Pipe(r)!Next \/ UNCHANGED Pipe(r)!vars]_vars

(* Whoever waits for a run that has begun is answered, however it fails: a *)
(* tasks/send has its response, and a client that stays gets the end of    *)
(* its stream (run_task's tail, SseEmitter.close).                         *)
RunsAreAnswered ==
  \A r \in Requests :
    stage[r] = "running" ~> IF client[r] = "none" THEN response[r] # Nothing
                            ELSE client[r] # "reading"
=============================================================================
