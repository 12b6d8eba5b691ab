--------------------------- MODULE RoleInvocation ---------------------------
(***************************************************************************)
(* One Orchestrator.invoke_role: the scheduler that polls the progress     *)
(* watchdog, the task that runs the role (structured fast path or the      *)
(* model / tool loop) and, through ToolInvocation, the tool call the loop  *)
(* is awaiting.  Everything runs on one event loop: an action is what the  *)
(* code does between two awaits.                                           *)
(***************************************************************************)
EXTENDS ToolInvocation, Sequences

CONSTANTS
  BaseTimeout,    \* ResiliencePolicy.timeout_for(role)
  Extend,         \* ResiliencePolicy.watchdog_extend_s
  MaxTotal,       \* ResiliencePolicy.watchdog_max_total_s
  PollInterval,   \* Orchestrator._WATCHDOG_POLL_S
  MaxIterations,  \* SubAgentRole.max_iterations
  MaxBatch,       \* bound of the model: tool calls in one AI message
  Rejected,       \* a requested call that is not run: tool not in the
                  \* allowlist, or arguments its schema refuses
  PrepFailures,   \* what the code before the first await may raise
  CallerCancels   \* may the caller cancel invoke_role?

ASSUME RoleAssumption ==
  /\ BaseTimeout \in Nat \ {0}
  /\ Extend \in Nat
  /\ MaxTotal \in Nat
  /\ PollInterval \in Nat \ {0}
  /\ MaxIterations \in Nat
  /\ MaxBatch \in Nat
  /\ Rejected \notin Calls
  /\ PrepFailures \subseteq {"RAISED", "TIMEOUT_RAISED"}
  /\ CallerCancels \in BOOLEAN

VARIABLES
  inv,          \* where invoke_role is parked
  wake,         \* when the scheduler is due to resume
  outcome,      \* what invoke_role returns or raises
  task,         \* where the role's task is parked
  taskResult,   \* what the task ended with, or "none"
  due,          \* since when the task is owed a step
  cancelReq,    \* task.cancel() was called and is not delivered yet
  iteration,    \* iteration of _invoke_loop
  toolCalls,    \* tool_calls of the current AI message
  served,       \* how many of toolCalls have a ToolMessage
  startAt, deadline, seen, signals,       \* fields of ProgressWatchdog
  lastProgress, \* when the latest novel success was signalled   (history)
  callerCancelled,  \* the caller has cancelled invoke_role      (history)
  swallowed     \* an adapter swallowed the cancellation         (history)

watchdogVars == <<startAt, deadline, seen, signals, lastProgress>>
loopVars  == <<iteration, toolCalls, served>>
schedVars == <<inv, wake, outcome, callerCancelled>>
roleVars  == <<schedVars, task, taskResult, due, cancelReq, loopVars,
               watchdogVars, swallowed>>
vars      == <<toolVars, roleVars>>

Larger(a, b) == IF a >= b THEN a ELSE b

HardCap == Larger(MaxTotal, BaseTimeout)

Status == {"COMPLETED", "INCOMPLETE", "FAILED"}

Batches == UNION {[1..n -> Calls \cup {Rejected}] : n \in 0..MaxBatch}

-----------------------------------------------------------------------------
Init ==
  /\ ToolInit
  /\ inv = "idle" /\ wake = 0 /\ outcome = "none"
  /\ task = "none" /\ taskResult = "none" /\ due = 0 /\ cancelReq = FALSE
  /\ iteration = 0 /\ toolCalls = <<>> /\ served = 0
  /\ startAt = 0 /\ deadline = 0 /\ seen = {} /\ signals = 0
  /\ lastProgress = 0 /\ callerCancelled = FALSE /\ swallowed = FALSE

(* The task runs Python code and has not reached its next await: nothing   *)
(* else runs on the event loop meanwhile.                                  *)
Running == task = "tools" /\ \A c \in Calls : pc[c] \notin Active

(* The task ends with r; asyncio.wait wakes the scheduler.                 *)
TaskEnds(r) ==
  /\ task' = "done"
  /\ taskResult' = r
  /\ cancelReq' = FALSE
  /\ wake' = IF inv = "waiting" THEN Lesser(wake, now) ELSE now

-----------------------------------------------------------------------------
(* ProgressWatchdog.start. *)
StartWatchdog ==
  /\ startAt' = now
  /\ deadline' = now + BaseTimeout
  /\ seen' = {}
  /\ signals' = 0
  /\ lastProgress' = now

(* ProgressWatchdog.remaining_s. *)
Remaining == IF deadline > now THEN deadline - now ELSE 0

(* The watchdog is started and role.invoke.start is emitted.               *)
Invoke ==
  /\ inv = "idle"
  /\ inv' = "announcing"
  /\ wake' = now
  /\ StartWatchdog
  /\ UNCHANGED <<toolVars, outcome, callerCancelled, task, taskResult, due,
                 cancelReq, loopVars, swallowed>>

(* Mutant: progress made since the start is overlooked.                    *)
CheckDeadlineStale ==
  \/ /\ now >= startAt + BaseTimeout
     /\ inv' = "cancelling"
     /\ cancelReq' = TRUE
     /\ UNCHANGED wake
  \/ /\ now < startAt + BaseTimeout
     /\ inv' = "waiting"
     /\ wake' = now + Lesser(deadline - now, PollInterval)
     /\ UNCHANGED cancelReq

(* One pass of the scheduler loop over a task that is not done: give up at *)
(* the deadline, else wait for the task, the poll or the deadline.         *)
CheckDeadline ==
  \/ /\ Remaining = 0
     /\ inv' = "cancelling"
     /\ cancelReq' = TRUE
     /\ UNCHANGED wake
  \/ /\ Remaining > 0
     /\ inv' = "waiting"
     /\ wake' = now + Lesser(Remaining, PollInterval)
     /\ UNCHANGED cancelReq

(* _run_with_progress_watchdog: create the task and look at the clock.     *)
Launch ==
  /\ inv = "announcing"
  /\ task' = "queued"
  /\ CheckDeadline
  /\ due' = now
  /\ UNCHANGED <<toolVars, outcome, callerCancelled, taskResult, loopVars,
                 watchdogVars, swallowed>>

(* Mutant: the deadline is tested before the task.                         *)
PollFirst ==
  /\ inv = "waiting"
  /\ ~Running
  /\ now >= wake
  /\ CheckDeadline
  /\ due' = IF cancelReq' THEN now ELSE due
  /\ UNCHANGED <<toolVars, outcome, callerCancelled, task, taskResult,
                 loopVars, watchdogVars, swallowed>>

(* asyncio.wait times out: extensions made meanwhile are seen here.        *)
Poll ==
  /\ inv = "waiting"
  /\ ~Running
  /\ task # "done"
  /\ now >= wake
  /\ CheckDeadline
  /\ due' = IF cancelReq' THEN now ELSE due
  /\ UNCHANGED <<toolVars, outcome, callerCancelled, task, taskResult,
                 loopVars, watchdogVars, swallowed>>

(* asyncio.wait finds the task done: its result is returned, its exception *)
(* raised.  A TimeoutError of the task is taken for the watchdog's own.    *)
Collect ==
  /\ inv = "waiting"
  /\ task = "done"
  /\ \/ /\ taskResult = "RAISED"
        /\ inv' = "returned"
        /\ outcome' = "RAISED"
     \/ /\ taskResult = "TIMEOUT_RAISED"
        /\ inv' = "closing"
        /\ outcome' = "ABORTED"
     \/ /\ taskResult \in Status
        /\ inv' = "closing"
        /\ outcome' = taskResult
  /\ wake' = now
  /\ UNCHANGED <<toolVars, callerCancelled, task, taskResult, due, cancelReq,
                 loopVars, watchdogVars, swallowed>>

(* Mutant: the cancelled task is not awaited.                              *)
UnwoundEarly ==
  /\ inv \in {"cancelling", "unwinding"}
  /\ inv' = IF inv = "cancelling" THEN "closing" ELSE "returned"
  /\ outcome' = IF inv = "cancelling" THEN "ABORTED" ELSE "CANCELLED"
  /\ wake' = now
  /\ UNCHANGED <<toolVars, callerCancelled, task, taskResult, due, cancelReq,
                 loopVars, watchdogVars, swallowed>>

(* The cancelled task has ended, whatever it ended with: ABORTED after a   *)
(* timeout, the caller's CancelledError otherwise.                         *)
Unwound ==
  /\ inv \in {"cancelling", "unwinding"}
  /\ task = "done"
  /\ inv' = IF inv = "cancelling" THEN "closing" ELSE "returned"
  /\ outcome' = IF inv = "cancelling" THEN "ABORTED" ELSE "CANCELLED"
  /\ wake' = now
  /\ UNCHANGED <<toolVars, callerCancelled, task, taskResult, due, cancelReq,
                 loopVars, watchdogVars, swallowed>>

(* role.invoke.end is out and invoke_role returns.                         *)
Close ==
  /\ inv = "closing"
  /\ inv' = "returned"
  /\ UNCHANGED <<toolVars, wake, outcome, callerCancelled, task, taskResult,
                 due, cancelReq, loopVars, watchdogVars, swallowed>>

(* The caller cancels invoke_role at whatever await it is parked.  While   *)
(* it awaits the task it has already cancelled, the CancelledError goes to *)
(* the task a second time and is then discarded with it.                   *)
CallerCancel ==
  /\ CallerCancels
  /\ ~callerCancelled
  /\ ~Running
  /\ callerCancelled' = TRUE
  /\ \/ /\ \/ inv \in {"announcing", "closing"}
           \/ inv = "waiting" /\ task = "done"
        /\ inv' = "returned"
        /\ outcome' = "CANCELLED"
        /\ UNCHANGED <<cancelReq, due>>
     \/ /\ inv = "waiting" /\ task # "done"
        /\ inv' = "unwinding"
        /\ cancelReq' = TRUE
        /\ due' = now
        /\ UNCHANGED outcome
     \/ /\ inv = "cancelling" /\ task # "done"
        /\ cancelReq' = TRUE
        /\ due' = IF cancelReq THEN due ELSE now
        /\ UNCHANGED <<inv, outcome>>
     \/ /\ inv = "cancelling" /\ task = "done"
        /\ UNCHANGED <<inv, outcome, cancelReq, due>>
  /\ UNCHANGED <<toolVars, wake, task, taskResult, loopVars, watchdogVars,
                 swallowed>>

-----------------------------------------------------------------------------
(* The head of _invoke_loop: ask the model again, or give up INCOMPLETE.   *)
NextIteration ==
  \/ /\ iteration < MaxIterations
     /\ iteration' = iteration + 1
     /\ task' = "model"
     /\ UNCHANGED <<taskResult, cancelReq, wake>>
  \/ /\ iteration >= MaxIterations
     /\ TaskEnds("INCOMPLETE")
     /\ UNCHANGED iteration

(* The task's first step: _invoke_inner up to its first await.             *)
TaskStart ==
  /\ task = "queued"
  /\ ~cancelReq
  /\ \/ /\ \E e \in PrepFailures : TaskEnds(e)
        /\ UNCHANGED iteration
     \/ /\ task' = "structured"
        /\ UNCHANGED <<taskResult, cancelReq, wake, iteration>>
     \/ /\ TaskEnds("FAILED")          \* no with_structured_output
        /\ UNCHANGED iteration
     \/ NextIteration
  /\ UNCHANGED <<toolVars, inv, outcome, callerCancelled, due, toolCalls,
                 served, watchdogVars, swallowed>>

(* _invoke_structured: the one model call answers, or fails to.            *)
StructuredEnds ==
  /\ task = "structured"
  /\ ~cancelReq
  /\ \E s \in {"COMPLETED", "FAILED"} : TaskEnds(s)
  /\ UNCHANGED <<toolVars, inv, outcome, callerCancelled, due, loopVars,
                 watchdogVars, swallowed>>

(* _invoke_loop: the model raises, or answers without tool calls.          *)
ModelEnds ==
  /\ task = "model"
  /\ ~cancelReq
  /\ \E s \in {"COMPLETED", "FAILED"} : TaskEnds(s)
  /\ UNCHANGED <<toolVars, inv, outcome, callerCancelled, due, loopVars,
                 watchdogVars, swallowed>>

(* _invoke_loop: the model asks for tools.                                 *)
ModelCalls ==
  /\ task = "model"
  /\ ~cancelReq
  /\ \E batch \in Batches \ {<<>>} : toolCalls' = batch
  /\ served' = 0
  /\ task' = "tools"
  /\ UNCHANGED <<toolVars, schedVars, taskResult, due, cancelReq, iteration,
                 watchdogVars, swallowed>>

(* Requests after the served ones, up to k, that are answered without a    *)
(* call.                                                                   *)
RejectedUpTo(k) == \A j \in served + 1..k : toolCalls[j] = Rejected

(* The loop goes on to the next request its engine has to run ...          *)
NextCall ==
  /\ Running
  /\ \E k \in served + 1..Len(toolCalls) :
       /\ RejectedUpTo(k - 1)
       /\ toolCalls[k] \in Calls
       /\ served' = k - 1
       /\ Begin(toolCalls[k])
  /\ UNCHANGED <<schedVars, task, taskResult, due, cancelReq, iteration,
                 toolCalls, watchdogVars, swallowed>>

(* ... or, every request answered, to the next iteration or to INCOMPLETE. *)
EndIteration ==
  /\ Running
  /\ RejectedUpTo(Len(toolCalls))
  /\ served' = Len(toolCalls)
  /\ NextIteration
  /\ UNCHANGED <<toolVars, inv, outcome, callerCancelled, due, toolCalls,
                 watchdogVars, swallowed>>

(* Mutants: the hard cap is forgotten; a repeated success counts again.    *)
SignalUncapped(c) ==
  \/ /\ c \in seen
     /\ UNCHANGED watchdogVars
  \/ /\ c \notin seen
     /\ seen' = seen \cup {c}
     /\ signals' = signals + 1
     /\ lastProgress' = now
     /\ deadline' = Larger(deadline, now) + Extend
     /\ UNCHANGED startAt

SignalRepeated(c) ==
  /\ seen' = seen \cup {c}
  /\ signals' = signals + 1
  /\ lastProgress' = now
  /\ deadline' = Larger(deadline, Lesser(Larger(deadline, now) + Extend,
                                         startAt + HardCap))
  /\ UNCHANGED startAt

(* signal_progress: a success with arguments not seen before moves the     *)
(* deadline, never past the hard cap and never back.                       *)
SignalProgress(c) ==
  \/ /\ c \in seen
     /\ UNCHANGED watchdogVars
  \/ /\ c \notin seen
     /\ seen' = seen \cup {c}
     /\ signals' = signals + 1
     /\ lastProgress' = now
     /\ deadline' = Larger(deadline, Lesser(Larger(deadline, now) + Extend,
                                            startAt + HardCap))
     /\ UNCHANGED startAt

(* The awaited call returns to the loop.                                   *)
CallReturns(c) ==
  /\ task = "tools"
  /\ ~cancelReq
  /\ Return(c)
  /\ served' = served + 1
  /\ IF result[c] = "ok" THEN SignalProgress(c) ELSE UNCHANGED watchdogVars
  /\ UNCHANGED <<schedVars, task, taskResult, due, cancelReq, iteration,
                 toolCalls, swallowed>>

(* The awaited call takes a step the event loop owes it ...                *)
CallStep(c) ==
  /\ task = "tools"
  /\ ~cancelReq
  /\ Start(c) \/ Expire(c) \/ Retry(c) \/ Sleep(c) \/ Wake(c)
  /\ UNCHANGED roleVars

(* ... or its adapter comes back.                                          *)
AdapterStep(c) ==
  /\ task = "tools"
  /\ ~cancelReq
  /\ Answer(c) \/ LateAnswer(c)
  /\ UNCHANGED roleVars

(* Mutant: call_one takes the cancellation for one more failed attempt.    *)
UnwindsCaught ==
  \/ /\ task # "tools"
     /\ TaskEnds("CANCELLED")
     /\ UNCHANGED <<pc, timer, swallowed>>
  \/ /\ task = "tools"
     /\ pc' = [c \in Calls |-> IF pc[c] \in Active THEN "ending" ELSE pc[c]]
     /\ timer' = [c \in Calls |-> IF pc[c] \in Active THEN now ELSE timer[c]]
     /\ cancelReq' = FALSE
     /\ UNCHANGED <<task, taskResult, wake, swallowed>>

(* The cancellation reaches the await of the task.  It unwinds call_one    *)
(* and the loop, unless a stubborn adapter swallows it.                    *)
Unwinds ==
  /\ TaskEnds("CANCELLED")
  /\ pc' = [c \in Calls |-> IF pc[c] \in Active THEN "cancelled" ELSE pc[c]]
  /\ UNCHANGED <<timer, swallowed>>

Swallows(c) ==
  /\ pc[c] \in {"running", "expiring"}
  /\ c \in Stubborn
  /\ cancelReq' = FALSE
  /\ swallowed' = TRUE
  /\ UNCHANGED <<pc, timer, task, taskResult, wake>>

CancelDelivered ==
  /\ cancelReq
  /\ \/ \E c \in Calls : Swallows(c)
     \/ /\ \A c \in Stubborn : pc[c] \notin {"running", "expiring"}
        /\ Unwinds
  /\ UNCHANGED <<now, attempt, backoff, result, began, failed, inv, outcome,
                 callerCancelled, due, loopVars, watchdogVars>>

-----------------------------------------------------------------------------
(* The clock advances unless someone is due and already Lag units late.    *)
SchedulerDue ==
  \/ inv \in {"announcing", "waiting", "closing"}
  \/ inv \in {"cancelling", "unwinding"} /\ task = "done"

TaskDue == task = "queued" \/ cancelReq

TimePasses ==
  /\ inv \notin {"idle", "returned"}
  /\ ~Running
  /\ now < MaxTime
  /\ \A c \in Calls : Punctual(c)
  /\ SchedulerDue => now < wake + Lag
  /\ TaskDue => now < due + Lag
  /\ now' = now + 1
  /\ UNCHANGED <<callVars, roleVars>>

(* invoke_role has returned, or the clock has reached the model's bound.   *)
Over == (inv = "returned" \/ now = MaxTime) /\ UNCHANGED vars

Scheduler == Invoke \/ Launch \/ Poll \/ Collect \/ Unwound \/ Close

Task ==
  \/ TaskStart \/ StructuredEnds \/ ModelEnds \/ ModelCalls
  \/ NextCall \/ EndIteration \/ CancelDelivered
  \/ \E c \in Calls : CallStep(c) \/ AdapterStep(c) \/ CallReturns(c)

Next == Scheduler \/ Task \/ CallerCancel \/ TimePasses \/ Over

(* Fair: the event loop and the clock.  Not fair: the caller, the model    *)
(* and the adapters, which may never answer.                               *)
Fairness ==
  /\ WF_vars(Scheduler)
  /\ WF_vars(TimePasses)
  /\ WF_vars(TaskStart \/ NextCall \/ EndIteration \/ CancelDelivered)
  /\ WF_vars(\E c \in Calls : CallStep(c) \/ CallReturns(c))

Spec == Init /\ [][Next]_vars
FairSpec == Spec /\ Fairness

-----------------------------------------------------------------------------
Inv    == {"idle", "announcing", "waiting", "cancelling", "unwinding",
           "closing", "returned"}
Tasks  == {"none", "queued", "structured", "model", "tools", "done"}
Endings == Status \cup {"RAISED", "TIMEOUT_RAISED", "CANCELLED"}
Results == Status \cup {"RAISED", "ABORTED", "CANCELLED"}

(* Types of the scheduler's, the task's and the watchdog's variables. *)
TypeOK ==
  /\ ToolTypeOK
  /\ inv \in Inv /\ wake \in Nat /\ outcome \in Results \cup {"none"}
  /\ task \in Tasks /\ taskResult \in Endings \cup {"none"}
  /\ due \in Nat /\ cancelReq \in BOOLEAN
  /\ iteration \in 0..MaxIterations
  /\ toolCalls \in Batches /\ served \in Nat
  /\ startAt \in Nat /\ deadline \in Nat /\ seen \subseteq Calls
  /\ signals \in Nat /\ lastProgress \in Nat
  /\ callerCancelled \in BOOLEAN /\ swallowed \in BOOLEAN

(* However often progress extends the deadline, the scheduler has given up *)
(* by the hard cap: while it still waits for the role, no more than        *)
(* max(watchdog_max_total_s, timeout) has passed since the start           *)
(* (ProgressWatchdog.signal_progress, _run_with_progress_watchdog).        *)
HardCapHolds ==
  inv \in {"announcing", "waiting"} => now <= startAt + HardCap + Lag

(* A role is given up only when it had its base timeout, and not within    *)
(* Extend of its latest novel success unless the hard cap is reached: no   *)
(* extension made between two polls is overlooked.                         *)
ProgressKeepsAlive ==
  [][inv # "cancelling" /\ inv' = "cancelling" =>
       /\ now >= startAt + BaseTimeout
       /\ signals > 0 =>
            now >= Lesser(lastProgress + Extend, startAt + HardCap)]_vars

(* Time beyond the base timeout is earned: one Extend per distinct success *)
(* (plus Lag, when the success arrives after a missed deadline).  Repeating *)
(* a call that already succeeded buys nothing.                             *)
DeadlineIsEarned ==
  inv \in {"announcing", "waiting"} =>
    deadline <= startAt + BaseTimeout + Cardinality(seen) * (Extend + Lag)

(* When invoke_role has returned or raised nothing of it is left behind:   *)
(* the task has ended and no call of its is still under way, even if the   *)
(* watchdog or the caller interrupted a tool call or a backoff sleep.      *)
NothingLeftRunning ==
  inv = "returned" =>
    /\ task \in {"none", "done"}
    /\ \A c \in Calls : pc[c] \notin Active

(* A role that finished on its own before anyone cancelled it is reported  *)
(* with its own status, even when the deadline passed before the scheduler *)
(* looked (the order of the two tests of the scheduler loop).              *)
FinishedWorkIsReported ==
  inv = "returned" /\ ~callerCancelled /\ ~swallowed
    /\ taskResult \in Status => outcome = taskResult

(* Every invocation comes to an end, though neither the model nor any tool *)
(* ever answers: the watchdog sees to it, and only an adapter that         *)
(* swallows a cancellation can hold it up.                                 *)
InvocationReturns == inv = "announcing" ~> inv = "returned" \/ swallowed

Contract == INSTANCE RoleContract WITH
  status <- IF inv = "idle" THEN "queued"
            ELSE IF inv = "returned" THEN outcome ELSE "running",
  cancel <- IF callerCancelled /\ inv # "returned" THEN "pending" ELSE "no"

(* Seen from its caller an invocation is that of RoleContract, whatever    *)
(* goes on between its scheduler, its task, its tool calls and the clock.  *)
KeepsContract == Contract!Spec

(* orchestrator.py:345 says that the scheduler propagates "non-timeout     *)
(* failures (including cancellation from outside this scheduler)".         *)
CallerCancellationPropagates ==
  inv = "returned" /\ callerCancelled => outcome = "CANCELLED"
=============================================================================
